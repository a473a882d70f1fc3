------------------------------ MODULE MCAIJobs ------------------------------
(* Small instances of AIJobs for TLC. *)
EXTENDS AIJobs, TLC

CONSTANTS j1, j2, j3, r1, r2, fahes, kholasa, free, premium

(* free: 2 requests a month, kholasa not included; premium: no overall limit,
   one kholasa request a month. *)
MCMaxRequests == (free :> 2) @@ (premium :> NoLimit)
MCMaxCharacterUse ==
  (free :> ((fahes :> NoLimit) @@ (kholasa :> 0)))
  @@ (premium :> ((fahes :> 2) @@ (kholasa :> 1)))
MCCanUse == (free :> {fahes}) @@ (premium :> {fahes, kholasa})
MCCharacterOf == (r1 :> fahes) @@ (r2 :> kholasa)

JobSymmetry == Permutations(Job) \cup Permutations(Caller)
=============================================================================
