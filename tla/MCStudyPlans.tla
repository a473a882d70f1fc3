---------------------------- MODULE MCStudyPlans ----------------------------
(* Small instances of StudyPlans for TLC. *)
EXTENDS StudyPlans, TLC

TaskSymmetry == Permutations(Task)
BothSymmetries == Permutations(Task) \cup Permutations(Request)
=============================================================================
