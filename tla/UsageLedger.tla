---------------------------- MODULE UsageLedger ----------------------------
(***************************************************************************)
(* The AI allowance of one student (apps/subscriptions): the plan in       *)
(* force, the usage row of each month, and the immutable ledger of         *)
(* reserve, commit and refund entries.  Rows, entries and keys belong to   *)
(* one student and every service takes the student as its first argument,  *)
(* so one student is the whole component.                                  *)
(*                                                                         *)
(* Each of the three services locks the usage row of the current month     *)
(* (select_for_update) before it reads the ledger and keeps the lock until *)
(* the transaction ends, so each is one atomic step of its caller.         *)
(***************************************************************************)
EXTENDS Naturals, FiniteSets

CONSTANTS
  Character,          \* the AI characters with a usage counter
  Plan,               \* the subscription plans
  FreePlan,           \* the plan every student falls back to
  NoLimit,            \* a limit that is absent from a plan (None)
  MaxRequests,        \* Plan -> the plan's max_ai_requests_per_month
  MaxCharacterUse,    \* Plan -> Character -> the character's monthly limit
  CanUse,             \* Plan -> the characters its features allow
  OperationKey,       \* the idempotency keys of ledger operations
  MaxMonth            \* bound: the months 0..MaxMonth are explored

Limit == Nat \cup {NoLimit}
Month == 0..MaxMonth

ASSUME LedgerAssumption ==
  /\ FreePlan \in Plan
  /\ NoLimit \notin Nat
  /\ MaxRequests \in [Plan -> Limit]
  /\ MaxCharacterUse \in [Plan -> [Character -> Limit]]
  /\ CanUse \in [Plan -> SUBSET Character]
  /\ MaxMonth \in Nat

VARIABLES
  plan,               \* the plan get_user_plan answers with
  month,              \* the current month
  requestsUsed,       \* ai_requests_used of each month's usage row
  characterUsed,      \* the per-character counters of each month's usage row
  ledger              \* the set of UsageLedgerEntry rows

usageVars == <<plan, month, requestsUsed, characterUsed, ledger>>

Operation == {"reserve", "commit", "refund"}

LedgerEntry ==
  [operation : Operation, key : OperationKey, character : Character, period : Month]

UsageTypeOK ==
  /\ plan \in Plan
  /\ month \in Month
  /\ requestsUsed \in [Month -> Nat]
  /\ characterUsed \in [Month -> [Character -> Nat]]
  /\ ledger \subseteq LedgerEntry

UsageInit ==
  /\ plan = FreePlan
  /\ month = 0
  /\ requestsUsed = [m \in Month |-> 0]
  /\ characterUsed = [m \in Month |-> [c \in Character |-> 0]]
  /\ ledger = {}

-----------------------------------------------------------------------------
Recorded(op, k) == \E e \in ledger : e.operation = op /\ e.key = k

(* The operations recorded under a key. *)
Operations(k) == {e.operation : e \in {e \in ledger : e.key = k}}

EntryNow(op, k, c) ==
  [operation |-> op, key |-> k, character |-> c, period |-> month]

UnderLimit(used, limit) == limit # NoLimit => used < limit

(* Mutant: the general limit is not looked at. *)
AllowsAnotherOfCharacter(c) ==
  UnderLimit(characterUsed[month][c], MaxCharacterUse[plan][c])

AllowsAnother(c) ==
  /\ UnderLimit(requestsUsed[month], MaxRequests[plan])
  /\ UnderLimit(characterUsed[month][c], MaxCharacterUse[plan][c])

(* Mutant: the counter is not kept at zero or above. *)
LessOneUnfloored(n) == n - 1

LessOne(n) == IF n = 0 THEN 0 ELSE n - 1

(* reserve_character_request after its feature check: an operation key that
   is already reserved costs nothing, an exhausted allowance disables the
   step (the code raises and the transaction is rolled back). *)
ReserveCharacterRequest(k, c) ==
  /\ UNCHANGED <<plan, month>>
  /\ IF Recorded("reserve", k)
     THEN UNCHANGED <<requestsUsed, characterUsed, ledger>>
     ELSE /\ AllowsAnother(c)
          /\ requestsUsed' = [requestsUsed EXCEPT ![month] = @ + 1]
          /\ characterUsed' = [characterUsed EXCEPT ![month][c] = @ + 1]
          /\ ledger' = ledger \cup {EntryNow("reserve", k, c)}

CommitCharacterRequest(k, c) ==
  /\ ledger' = IF Recorded("commit", k) THEN ledger
               ELSE ledger \cup {EntryNow("commit", k, c)}
  /\ UNCHANGED <<plan, month, requestsUsed, characterUsed>>

(* Mutant: the character's counter is forgotten. *)
RefundTotalOnly(k, c) ==
  /\ UNCHANGED <<plan, month, characterUsed>>
  /\ IF Recorded("refund", k)
     THEN UNCHANGED <<requestsUsed, ledger>>
     ELSE /\ requestsUsed' = [requestsUsed EXCEPT ![month] = LessOne(@)]
          /\ ledger' = ledger \cup {EntryNow("refund", k, c)}

(* The counters that give the request back are those of the month the refund
   happens in, whatever month the request was reserved in. *)
RefundCharacterRequest(k, c) ==
  /\ UNCHANGED <<plan, month>>
  /\ IF Recorded("refund", k)
     THEN UNCHANGED <<requestsUsed, characterUsed, ledger>>
     ELSE /\ requestsUsed' = [requestsUsed EXCEPT ![month] = LessOne(@)]
          /\ characterUsed' = [characterUsed EXCEPT ![month][c] = LessOne(@)]
          /\ ledger' = ledger \cup {EntryNow("refund", k, c)}

-----------------------------------------------------------------------------
EntriesOf(op, m) == {e \in ledger : e.operation = op /\ e.period = m}

EntriesOfCharacter(op, m, c) == {e \in EntriesOf(op, m) : e.character = c}

(* max(reserved - refunded, 0) over the entries of one period. *)
Net(reserves, refunds) ==
  IF Cardinality(refunds) > Cardinality(reserves) THEN 0
  ELSE Cardinality(reserves) - Cardinality(refunds)

ReplayedRequests(m) == Net(EntriesOf("reserve", m), EntriesOf("refund", m))

ReplayedCharacter(m, c) ==
  Net(EntriesOfCharacter("reserve", m, c), EntriesOfCharacter("refund", m, c))

RebuildUsageProjection(m) ==
  /\ requestsUsed' = [requestsUsed EXCEPT ![m] = ReplayedRequests(m)]
  /\ characterUsed' = [characterUsed EXCEPT ![m] =
                          [c \in Character |-> ReplayedCharacter(m, c)]]
  /\ UNCHANGED <<plan, month, ledger>>

(* A plan change, a cancellation, an expired period or an expired trial: all
   that the allowance sees of them is the plan get_user_plan answers with. *)
ChangePlan(p) ==
  /\ p # plan
  /\ plan' = p
  /\ UNCHANGED <<month, requestsUsed, characterUsed, ledger>>

(* The next operation of the student falls in a later calendar month, whose
   usage row get_or_create_current_usage creates with zero counters. *)
NewMonth ==
  /\ month < MaxMonth
  /\ month' = month + 1
  /\ UNCHANGED <<plan, requestsUsed, characterUsed, ledger>>

=============================================================================
