--------------------------- MODULE MCQuizAttempts ---------------------------
(* Small instances of QuizAttempts for TLC. *)
EXTENDS QuizAttempts, TLC

CONSTANTS q1, q2

MCPoints == (q1 :> 2) @@ (q2 :> 1)

(* One right answer, and both questions with that answer changed. *)
MCSubmission ==
  {(q1 :> "right") @@ (q2 :> "none"), (q1 :> "wrong") @@ (q2 :> "right")}

RequestSymmetry == Permutations(Request)
=============================================================================
