-------------------------- MODULE MCAIJobDelivery --------------------------
(* Small instances of AIJobDelivery for TLC: one plan, one month. *)
EXTENDS AIJobDelivery, TLC

CONSTANTS j1, j2, r1, r2, fahes, free

MCMaxRequests == free :> 2
MCMaxCharacterUse == free :> (fahes :> NoLimit)
MCCanUse == free :> {fahes}
MCCharacterOf == [r \in Request |-> fahes]
=============================================================================
