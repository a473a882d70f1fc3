----------------------------- MODULE Entitlement -----------------------------
(***************************************************************************)
(* The subscription of one student and the plans it can be of              *)
(* (apps/subscriptions): what administrators do to both, and which plan is *)
(* in force.  UsageLedger and SourceLibrary see only the latter.           *)
(*                                                                         *)
(* An administrator reads the row and saves every column of it later; a    *)
(* cancellation saves its own columns.  A soft-deleted row keeps the place *)
(* of the student's subscription and is revived by whoever asks for it.    *)
(***************************************************************************)
EXTENDS Naturals

CONSTANTS
  Plan,               \* the plans that can exist
  FreePlan,           \* the free one
  Officer,            \* the requests that can be open at the same time
  MaxDay,             \* bound: the last day
  MaxDecisions        \* bound: requests in all

ASSUME EntitlementAssumption ==
  FreePlan \in Plan /\ MaxDay \in Nat /\ MaxDecisions \in Nat

VARIABLES
  subscription,       \* the UserSubscription row
  planRow,            \* per plan: its is_active, or "none"
  office,             \* per officer: the open request, or OffDuty
  day,
  decisions,          \* requests so far
  decided,            \* history: the plan of the last decision, ...
  overruled           \* ... and whether a row read before one was saved after

subscriptionVars == <<subscription, planRow, office, day, decisions, decided, overruled>>

Day == 0..MaxDay
NoEnd == MaxDay + 1
Until == 0..NoEnd
(* "canceled" stands for the statuses without entitlement: expired, past_due,
   paused, canceled. *)
SubscriptionStatus == {"active", "trialing", "canceled"}
Subscription ==
  [plan : Plan, status : SubscriptionStatus, ends : Until, trial : Until, deleted : BOOLEAN]

OffDuty == [op |-> "off"]
Case ==
  [op : {"decide", "edit", "revive"}, row : Subscription, late : BOOLEAN] \cup
  [op : {"tariff"}, plan : Plan, active : {"active", "inactive"}]

EntitlementTypeOK ==
  /\ subscription \in Subscription
  /\ planRow \in [Plan -> {"active", "inactive", "none"}]
  /\ office \in [Officer -> Case \cup {OffDuty}]
  /\ day \in Day
  /\ decisions \in 0..MaxDecisions
  /\ decided \in Plan
  /\ overruled \in BOOLEAN

(* A student who has registered; the default plans are seeded. *)
EntitlementInit ==
  /\ subscription = [plan |-> FreePlan, status |-> "active", ends |-> NoEnd,
                     trial |-> NoEnd, deleted |-> FALSE]
  /\ planRow = [p \in Plan |-> "active"]
  /\ office = [o \in Officer |-> OffDuty]
  /\ day = 0 /\ decisions = 0
  /\ decided = FreePlan
  /\ overruled = FALSE

-----------------------------------------------------------------------------
(* subscription_has_entitlement *)
RanOut(s) == s.ends <= day \/ (s.status = "trialing" /\ s.trial <= day)
HasEntitlement(s) == s.status # "canceled" /\ ~RanOut(s)

(* Mutant: the row is revived with the plan it had. *)
RevivedAsItWas(s) == [s EXCEPT !.deleted = FALSE, !.status = "active"]

(* get_or_create_user_subscription, of a deleted row: free and active, with the
   dates it had. *)
Revived(s) == [s EXCEPT !.deleted = FALSE, !.plan = FreePlan, !.status = "active"]

(* get_user_plan *)
PlanInForce ==
  LET s == IF subscription.deleted THEN Revived(subscription) ELSE subscription
  IN  IF HasEntitlement(s) THEN s.plan ELSE FreePlan

Another == decisions < MaxDecisions /\ decisions' = decisions + 1

Take(o, case) ==
  /\ office[o] = OffDuty
  /\ Another
  /\ office' = [office EXCEPT ![o] = case]
  /\ UNCHANGED <<subscription, planRow, day, decided, overruled>>

(* The row is written: those who have read it before are late. *)
Write(row) ==
  /\ subscription' = row
  /\ office' = [o \in Officer |->
       IF office[o].op \in {"decide", "edit", "revive"} THEN [office[o] EXCEPT !.late = TRUE]
       ELSE office[o]]

(* ... by officer o, whose request ends. *)
WriteBy(o, row) ==
  /\ subscription' = row
  /\ office' = [x \in Officer |->
       IF x = o THEN OffDuty
       ELSE IF office[x].op \in {"decide", "edit", "revive"} THEN [office[x] EXCEPT !.late = TRUE]
       ELSE office[x]]
  /\ overruled' = (overruled \/ office[o].late)

(* What change_user_plan makes of a row: the trial stays as it was. *)
Changed(s, p, status, ends) == [s EXCEPT !.plan = p, !.status = status, !.ends = ends]

Verdict(row) == IF row.status = "canceled" THEN FreePlan ELSE row.plan

-----------------------------------------------------------------------------
(* A plan is given by an administrator; only active ones are accepted. *)
BeginChangePlan(o, p, status, ends) ==
  /\ planRow[p] = "active" /\ ~subscription.deleted
  /\ Take(o, [op |-> "decide", late |-> FALSE, row |-> Changed(subscription, p, status, ends)])

(* The same for a deleted row: reviving it locks it until the commit. *)
ChangeRevived(p, status, ends) ==
  /\ planRow[p] = "active" /\ subscription.deleted
  /\ Another
  /\ Write(Changed(Revived(subscription), p, status, ends))
  /\ decided' = Verdict([plan |-> p, status |-> status])
  /\ UNCHANGED <<planRow, day, overruled>>

(* PATCH of the subscription with a status, or with dates alone. *)
BeginSetStatus(o, status) ==
  /\ ~subscription.deleted
  /\ Take(o, [op |-> "decide", late |-> FALSE, row |-> [subscription EXCEPT !.status = status]])
BeginSetDates(o, ends, trial) ==
  /\ ~subscription.deleted
  /\ Take(o, [op |-> "edit", late |-> FALSE,
              row |-> [subscription EXCEPT !.ends = ends, !.trial = trial]])

(* save(): every column, is_deleted too.  A plan that is gone is refused. *)
SaveSubscription(o) ==
  /\ office[o].op \in {"decide", "edit"}
  /\ UNCHANGED <<planRow, day, decisions>>
  /\ IF planRow[office[o].row.plan] = "none"
     THEN office' = [office EXCEPT ![o] = OffDuty] /\ UNCHANGED <<subscription, decided, overruled>>
     ELSE /\ WriteBy(o, office[o].row)
          /\ decided' = IF office[o].op = "decide" THEN Verdict(office[o].row) ELSE decided

(* cancel_user_subscription: the status column, of a revived row if need be. *)
CancelSubscription ==
  /\ Another
  /\ Write([IF subscription.deleted THEN Revived(subscription) ELSE subscription
            EXCEPT !.status = "canceled"])
  /\ decided' = FreePlan
  /\ UNCHANGED <<planRow, day, overruled>>

(* In the Django admin. *)
DeleteSubscription ==
  /\ ~subscription.deleted
  /\ Another
  /\ Write([subscription EXCEPT !.deleted = TRUE])
  /\ decided' = FreePlan
  /\ UNCHANGED <<planRow, day, overruled>>

(* Any request of the student asks for the subscription; a deleted one is read
   and then revived, without a lock. *)
BeginRevive(o) ==
  /\ subscription.deleted
  /\ Take(o, [op |-> "revive", late |-> FALSE, row |-> subscription])
FinishRevive(o) ==
  /\ office[o].op = "revive"
  /\ WriteBy(o, Revived(subscription))
  /\ UNCHANGED <<planRow, day, decisions, decided>>

-----------------------------------------------------------------------------
CreatePlan(p) ==
  /\ planRow[p] = "none"
  /\ Another
  /\ planRow' = [planRow EXCEPT ![p] = "active"]
  /\ UNCHANGED <<subscription, office, day, decided, overruled>>

(* PATCH of a plan; save() inserts one deleted meanwhile. *)
BeginEditPlan(o, p, active) ==
  /\ planRow[p] # "none"
  /\ Take(o, [op |-> "tariff", plan |-> p, active |-> active])
SavePlanRow(o) ==
  /\ office[o].op = "tariff"
  /\ planRow' = [planRow EXCEPT ![office[o].plan] = office[o].active]
  /\ office' = [office EXCEPT ![o] = OffDuty]
  /\ UNCHANGED <<subscription, day, decisions, decided, overruled>>

(* DELETE of a plan: one with subscribers, this student or another, is made
   inactive instead.  A deleted subscription is not seen there, but protects
   its plan from the deletion. *)
RetirePlan(p) ==
  /\ p # FreePlan /\ planRow[p] # "none"
  /\ Another
  /\ \/ planRow' = [planRow EXCEPT ![p] = "inactive"]
     \/ subscription.plan # p /\ planRow' = [planRow EXCEPT ![p] = "none"]
  /\ UNCHANGED <<subscription, office, day, decided, overruled>>

LoseOfficer(o) ==
  /\ office[o] # OffDuty
  /\ office' = [office EXCEPT ![o] = OffDuty]
  /\ UNCHANGED <<subscription, planRow, day, decisions, decided, overruled>>

PassDay ==
  /\ day < MaxDay
  /\ day' = day + 1
  /\ UNCHANGED <<subscription, planRow, office, decisions, decided, overruled>>

-----------------------------------------------------------------------------
SubscriptionStep(o) ==
  \/ \E p \in Plan, status \in SubscriptionStatus, ends \in Until : BeginChangePlan(o, p, status, ends)
  \/ \E status \in SubscriptionStatus : BeginSetStatus(o, status)
  \/ \E ends, trial \in Until : BeginSetDates(o, ends, trial)
  \/ SaveSubscription(o) \/ BeginRevive(o) \/ FinishRevive(o) \/ LoseOfficer(o)

PlanStep(o) ==
  \/ \E p \in Plan, active \in {"active", "inactive"} : BeginEditPlan(o, p, active)
  \/ SavePlanRow(o)

EntitlementNext ==
  \/ \E o \in Officer : SubscriptionStep(o) \/ PlanStep(o)
  \/ \E p \in Plan, status \in SubscriptionStatus, ends \in Until : ChangeRevived(p, status, ends)
  \/ CancelSubscription \/ DeleteSubscription \/ PassDay
  \/ \E p \in Plan : CreatePlan(p) \/ RetirePlan(p)

EntitlementSpec == EntitlementInit /\ [][EntitlementNext]_subscriptionVars

-----------------------------------------------------------------------------
(* The plan in force is what the last decision says (a plan given, a status
   set, a cancellation, a deletion) until its period or trial runs out:
   deletions and revivals, edits of dates and of plans, and the calendar do not
   bring back a plan that was taken away or take one that was given, unless a
   request saved a row that it had read before another wrote it. *)
PlanAsDecided ==
  \/ overruled
  \/ PlanInForce = decided
  \/ PlanInForce = FreePlan /\ RanOut(subscription)
=============================================================================
