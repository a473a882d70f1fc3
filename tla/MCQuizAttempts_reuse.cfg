SPECIFICATION Spec
CONSTANTS
  q1 = q1  q2 = q2
  Question = {q1, q2}
  Points <- MCPoints
  Submission <- MCSubmission
  Request = {p1, p2}
  MaxAttempts = 2
SYMMETRY RequestSymmetry
INVARIANTS ActiveAttemptReused
