--------------------------- MODULE CreditAccount ---------------------------
(***************************************************************************)
(* What the credit system promises a student (AI_SERVICE_INTEGRATION.md,   *)
(* "Credits"): a request is held when a job is accepted, charged in the    *)
(* same step that delivers the result, released in the same step that      *)
(* closes the job without one, and never touched again.                    *)
(***************************************************************************)
CONSTANT Job

VARIABLES
  outcome,            \* what became of the job
  credit              \* what became of the request it holds

accountVars == <<outcome, credit>>

Init ==
  /\ outcome = [j \in Job |-> "absent"]
  /\ credit = [j \in Job |-> "none"]

Move(j, from, to, before, after) ==
  /\ outcome[j] = from /\ outcome' = [outcome EXCEPT ![j] = to]
  /\ credit[j] = before /\ credit' = [credit EXCEPT ![j] = after]

Accept(j) == Move(j, "absent", "pending", "none", "held")
Deliver(j) == Move(j, "pending", "delivered", "held", "charged")
Close(j) == Move(j, "pending", "closed", "held", "released")

Next == \E j \in Job : Accept(j) \/ Deliver(j) \/ Close(j)

Spec == Init /\ [][Next]_accountVars

=============================================================================
