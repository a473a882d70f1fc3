SPECIFICATION Spec
CONSTANTS
  q1 = q1  q2 = q2
  Question = {q1, q2}
  Points <- MCPoints
  Submission <- MCSubmission
  Request = {p1, p2}
  MaxAttempts = 3
SYMMETRY RequestSymmetry
INVARIANTS TypeOK ResultOfAnswers OneActiveUnlessRaced
PROPERTIES SettledAttemptsFrozen LateAnswersIgnored
