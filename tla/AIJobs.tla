------------------------------- MODULE AIJobs -------------------------------
(***************************************************************************)
(* The AI jobs of one student (apps/ai_integration/services.py) over the   *)
(* student's allowance (UsageLedger).                                      *)
(*                                                                         *)
(* Every service that changes a job locks the job row and then, when it    *)
(* touches the allowance, the usage row, and holds both until it commits:  *)
(* update_job_progress, fail_job, complete_job and cancel_job are one      *)
(* action each.  create_ai_job reads before it locks (is there a live job  *)
(* with this key? does the plan allow the character?), so it is two        *)
(* actions, and other transactions run between them.                       *)
(*                                                                         *)
(* Who calls a service, and when, is left open here: every theorem holds   *)
(* for any caller.  AIJobDelivery adds the task queue, the AI service and  *)
(* the webhooks that call them in the deployed system.                     *)
(***************************************************************************)
EXTENDS UsageLedger

CONSTANTS
  Job,                \* the rows AIJob can have
  Request,            \* the contents a job can be asked for (the canonical key)
  CharacterOf,        \* Request -> the character its task type belongs to
  SourceBacked,       \* the requests that name a source or a collection
  ExternalId,         \* the job identifiers of the AI service
  NoExternalId,       \* external_job_id before the service has answered
  Caller,             \* the web workers that can be inside create_ai_job
  ForceFlags          \* bound: the values of force that callers pass

ASSUME JobAssumption ==
  /\ Request # {}
  /\ Job \cap Request = {}
  /\ OperationKey = Request \cup Job
  /\ CharacterOf \in [Request -> Character]
  /\ SourceBacked \subseteq Request
  /\ NoExternalId \notin ExternalId
  /\ ForceFlags \subseteq BOOLEAN

VARIABLES
  status,             \* AIJob.status, "none" for a row that does not exist
  request,            \* what the job was asked for
  forced,             \* created with force=True
  externalId,         \* AIJob.external_job_id
  reserved,           \* AIJob.credits_reserved
  committed,          \* AIJob.credits_committed
  results,            \* how many results were materialized for the job
  interaction,        \* the StudentSourceInteraction row of the job
  notified,           \* the Notification rows, by job and kind
  dispatchSent,       \* jobs whose dispatch_ai_job was sent on commit
  cancelSent,         \* identifiers whose cancel_external_ai_job was sent
  creating            \* create_ai_job calls between their reads and locks

jobVars == <<status, request, forced, externalId, reserved, committed,
             results, interaction, notified, dispatchSent, cancelSent>>
vars == <<usageVars, jobVars, creating>>

Terminal == {"completed", "failed", "canceled"}
Progress == {"submitted", "processing", "validating"}
Status == {"none", "queued"} \cup Progress \cup Terminal

(* JOB_PROGRESS_TRANSITIONS restricted to the statuses a row is stored with
   and a caller passes to update_job_progress. *)
ProgressFrom(s) ==
  CASE s = "queued"     -> {"submitted", "processing"}
    [] s = "submitted"  -> {"processing", "validating"}
    [] s = "processing" -> {"validating"}
    [] OTHER            -> {}

Creation == [caller : Caller, request : Request, forced : BOOLEAN]

TypeOK ==
  /\ UsageTypeOK
  /\ status \in [Job -> Status]
  /\ request \in [Job -> Request]
  /\ forced \in [Job -> BOOLEAN]
  /\ externalId \in [Job -> ExternalId \cup {NoExternalId}]
  /\ reserved \in [Job -> BOOLEAN]
  /\ committed \in [Job -> BOOLEAN]
  /\ results \in [Job -> Nat]
  /\ interaction \in [Job -> {"none", "created", "completed"}]
  /\ notified \subseteq Job \X {"completed", "failed"}
  /\ dispatchSent \subseteq Job
  /\ cancelSent \subseteq ExternalId
  /\ creating \subseteq Creation

Init ==
  /\ UsageInit
  /\ status = [j \in Job |-> "none"]
  /\ request = [j \in Job |-> CHOOSE r \in Request : TRUE]
  /\ forced = [j \in Job |-> FALSE]
  /\ externalId = [j \in Job |-> NoExternalId]
  /\ reserved = [j \in Job |-> FALSE]
  /\ committed = [j \in Job |-> FALSE]
  /\ results = [j \in Job |-> 0]
  /\ interaction = [j \in Job |-> "none"]
  /\ notified = {}
  /\ dispatchSent = {}
  /\ cancelSent = {}
  /\ creating = {}

-----------------------------------------------------------------------------
Exists(j) == status[j] # "none"

(* Mutants: a terminal status is missing from TERMINAL_JOB_STATUSES. *)
LiveOrCanceled(j) == status[j] \notin {"none", "completed", "failed"}
LiveOrCompleted(j) == status[j] \notin {"none", "canceled", "failed"}

Live(j) == Exists(j) /\ status[j] \notin Terminal

(* build_idempotency_key: the content of the request, or, for a forced job,
   its hash with the current time, which no other job has. *)
KeyFor(j, r, f) == IF f THEN j ELSE r
Key(j) == KeyFor(j, request[j], forced[j])
CharacterFor(j) == CharacterOf[request[j]]

(* Mutant: no unique constraint on the key. *)
KeyUnconstrained(k) == FALSE

KeyTaken(k) == \E j \in Job : Exists(j) /\ Key(j) = k
Reusable(k) ==
  \E j \in Job : Key(j) = k /\ status[j] \notin {"none", "failed", "canceled"}

(* create_ai_job up to its first lock.  A live or completed job with the same
   key is returned instead (no step), a character outside the plan raises.
   Bound: no call starts when every row of Job is in use. *)
BeginCreate(p, r, f) ==
  /\ \A w \in creating : w.caller # p
  /\ \E j \in Job : ~Exists(j)
  /\ f \/ ~Reusable(r)
  /\ CharacterOf[r] \in CanUse[plan]
  /\ creating' = creating \cup {[caller |-> p, request |-> r, forced |-> f]}
  /\ UNCHANGED <<usageVars, jobVars>>

(* The rest of create_ai_job: the INSERT passes the unique constraint on
   (user, idempotency_key), the reservation passes the limits. *)
FinishCreate(w, j) ==
  LET k == KeyFor(j, w.request, w.forced)
      backed == w.request \in SourceBacked
  IN
  /\ w \in creating
  /\ ~Exists(j)
  /\ ~KeyTaken(k)
  /\ ReserveCharacterRequest(k, CharacterOf[w.request])
  /\ creating' = creating \ {w}
  /\ status' = [status EXCEPT ![j] = "queued"]
  /\ request' = [request EXCEPT ![j] = w.request]
  /\ forced' = [forced EXCEPT ![j] = w.forced]
  /\ reserved' = [reserved EXCEPT ![j] = TRUE]
  /\ interaction' = [interaction EXCEPT ![j] = IF backed THEN "created" ELSE "none"]
  /\ dispatchSent' = dispatchSent \cup {j}
  /\ UNCHANGED <<externalId, committed, results, notified, cancelSent>>

(* An IntegrityError on the key or an exhausted limit rolls everything back. *)
AbortCreate(w) ==
  /\ w \in creating
  /\ \/ ~w.forced /\ KeyTaken(w.request)
     \/ ~AllowsAnother(CharacterOf[w.request])
  /\ creating' = creating \ {w}
  /\ UNCHANGED <<usageVars, jobVars>>

-----------------------------------------------------------------------------
(* An identifier comes with "submitted" only, from submit_job_to_service. *)
UpdateJobProgress(j, next, x) ==
  /\ Live(j)
  /\ next \in ProgressFrom(status[j])
  /\ x # NoExternalId => next = "submitted"
  /\ status' = [status EXCEPT ![j] = next]
  /\ externalId' = [externalId EXCEPT ![j] = IF x = NoExternalId THEN @ ELSE x]
  /\ UNCHANGED <<usageVars, request, forced, reserved, committed, results,
                 interaction, notified, dispatchSent, cancelSent, creating>>

(* Mutant: the flag is not cleared. *)
GiveBackKeepingFlag(j) ==
  /\ IF reserved[j] /\ ~committed[j]
     THEN RefundCharacterRequest(Key(j), CharacterFor(j))
     ELSE UNCHANGED usageVars
  /\ UNCHANGED reserved

GiveReservationBack(j) ==
  IF reserved[j] /\ ~committed[j]
  THEN /\ RefundCharacterRequest(Key(j), CharacterFor(j))
       /\ reserved' = [reserved EXCEPT ![j] = FALSE]
  ELSE UNCHANGED <<usageVars, reserved>>

(* The notice's key is unique, so a second notice would roll the step back. *)
FailJob(j) ==
  /\ Live(j)
  /\ <<j, "failed">> \notin notified
  /\ status' = [status EXCEPT ![j] = "failed"]
  /\ GiveReservationBack(j)
  /\ notified' = notified \cup {<<j, "failed">>}
  /\ UNCHANGED <<request, forced, externalId, committed, results, interaction,
                 dispatchSent, cancelSent, creating>>

(* complete_job with a result materialize_job accepts.  A result it rejects
   raises, the transaction is rolled back, and the job stays as it was. *)
CompleteJob(j) ==
  /\ Live(j)
  /\ <<j, "completed">> \notin notified
  /\ status' = [status EXCEPT ![j] = "completed"]
  /\ results' = [results EXCEPT ![j] = @ + 1]
  /\ IF reserved[j] /\ ~committed[j]
     THEN CommitCharacterRequest(Key(j), CharacterFor(j))
     ELSE UNCHANGED usageVars
  /\ committed' = [committed EXCEPT ![j] = TRUE]
  /\ interaction' = [interaction EXCEPT ![j] = IF @ = "none" THEN @ ELSE "completed"]
  /\ notified' = notified \cup {<<j, "completed">>}
  /\ UNCHANGED <<request, forced, externalId, reserved, dispatchSent,
                 cancelSent, creating>>

CancelJob(j) ==
  /\ Live(j)
  /\ status' = [status EXCEPT ![j] = "canceled"]
  /\ GiveReservationBack(j)
  /\ cancelSent' = cancelSent \cup ({externalId[j]} \ {NoExternalId})
  /\ UNCHANGED <<request, forced, externalId, committed, results, interaction,
                 notified, dispatchSent, creating>>

-----------------------------------------------------------------------------
CreateStep ==
  \/ \E p \in Caller, r \in Request, f \in ForceFlags : BeginCreate(p, r, f)
  \/ \E w \in creating : AbortCreate(w) \/ \E j \in Job : FinishCreate(w, j)

ServiceStep ==
  \E j \in Job :
    \/ \E next \in Progress, x \in ExternalId \cup {NoExternalId} :
         UpdateJobProgress(j, next, x)
    \/ FailJob(j)
    \/ CompleteJob(j)
    \/ CancelJob(j)

AllowanceStep ==
  /\ \/ \E p \in Plan : ChangePlan(p)
     \/ \E m \in Month : RebuildUsageProjection(m)
     \/ NewMonth
  /\ UNCHANGED <<jobVars, creating>>

Next == CreateStep \/ ServiceStep \/ AllowanceStep

Spec == Init /\ [][Next]_vars

-----------------------------------------------------------------------------
(* The ledger tells the story of every job: a job in flight holds one
   reservation, a completed one has been charged, a failed or canceled one has
   been given its request back, and never two of these; the flags on the row
   agree (create_ai_job, complete_job, fail_job, cancel_job). *)
SettledAs(j) ==
  /\ Live(j) =>
       Operations(Key(j)) = {"reserve"} /\ reserved[j] /\ ~committed[j]
  /\ status[j] = "completed" =>
       Operations(Key(j)) = {"reserve", "commit"} /\ committed[j]
  /\ status[j] \in {"failed", "canceled"} =>
       Operations(Key(j)) = {"reserve", "refund"} /\ ~reserved[j] /\ ~committed[j]

CreditsFollowOutcome == \A j \in Job : Exists(j) => SettledAs(j)

(* A student sees one result and one completion notice of a completed job, a
   failure notice of a failed one, and nothing else; the source's interaction
   is completed with the job (complete_job, fail_job). *)
OutcomeShown(j) ==
  /\ results[j] = IF status[j] = "completed" THEN 1 ELSE 0
  /\ \A kind \in {"completed", "failed"} :
       <<j, kind>> \in notified <=> status[j] = kind
  /\ interaction[j] = "completed" => status[j] = "completed"

OutcomeShownOnce == \A j \in Job : OutcomeShown(j)

(* Two concurrent or repeated requests for the same content never leave two
   jobs, so the second is not charged (the read in create_ai_job is not under
   a lock; the unique constraint on the key is what decides). *)
OneJobPerRequest ==
  \A i, j \in Job :
    /\ Exists(i) /\ Exists(j) /\ ~forced[i] /\ ~forced[j]
    /\ request[i] = request[j]
    => i = j

(* Every request given back in month m was reserved in month m.  A refund is
   booked in the month it happens in: one that crosses a month's end lowers a
   counter that never counted it. *)
OwnMonth(m) ==
  \A e \in EntriesOf("refund", m) : \E d \in EntriesOf("reserve", m) : d.key = e.key

(* The usage rows are what replaying the ledger gives, for every character and
   in every month that no refund has crossed into (models.py: the ledger is
   the replayable source). *)
ProjectionIsReplay ==
  \A m \in Month : OwnMonth(m) =>
    /\ requestsUsed[m] = ReplayedRequests(m)
    /\ \A c \in Character : characterUsed[m][c] = ReplayedCharacter(m, c)

(* The jobs that count against a month: reserved in it and not given back. *)
ReservedIn(j, m) ==
  \E e \in ledger : e.operation = "reserve" /\ e.key = Key(j) /\ e.period = m

ChargedJobs(m) ==
  {j \in Job : /\ status[j] \notin {"none", "failed", "canceled"}
               /\ ReservedIn(j, m)}

(* When a job is created, fewer jobs than the plan's limit are in flight or
   completed in that month, counted by the jobs themselves and not by the
   usage row (reserve_character_request: "prevent concurrent requests from
   exceeding a plan"). *)
CreatedWithinPlan(j) ==
  LET c == CharacterOf[request'[j]] IN
  /\ UnderLimit(Cardinality(ChargedJobs(month)), MaxRequests[plan])
  /\ UnderLimit(Cardinality({i \in ChargedJobs(month) : CharacterFor(i) = c}),
                MaxCharacterUse[plan][c])

PlanHonoured ==
  [][\A j \in Job : status[j] = "none" /\ status'[j] # "none"
                     => CreatedWithinPlan(j)]_vars

(* The same in the months that no refund has crossed into: there the lock on
   the usage row is enough, whatever callers race for the last request and
   whenever the projection is rebuilt. *)
PlanHonouredInOwnMonth ==
  [][\A j \in Job : status[j] = "none" /\ status'[j] # "none" /\ OwnMonth(month)
                     => CreatedWithinPlan(j)]_vars

(* A late result, failure or cancellation never reopens a settled job: its
   row, its results, its notices and its ledger entries stay as they were
   (AI_SERVICE_INTEGRATION.md, "a late result does not reopen a job"). *)
FrozenStep(j) ==
  /\ status'[j] = status[j]
  /\ externalId'[j] = externalId[j]
  /\ reserved'[j] = reserved[j]
  /\ results'[j] = results[j]
  /\ {e \in ledger' : e.key = Key(j)} = {e \in ledger : e.key = Key(j)}
  /\ {n \in notified' : n[1] = j} = {n \in notified : n[1] = j}

SettledJobsFrozen ==
  [][\A j \in Job : status[j] \in Terminal => FrozenStep(j)]_vars

(* A request whose only job failed or was canceled can be made again: unless
   the allowance is exhausted, create_ai_job does not give up on it.  The
   failure notice and error_message tell the student to try again. *)
RetryAfterFailure ==
  [][\A w \in creating \ creating' :
       /\ ~w.forced
       /\ ~Reusable(w.request)
       /\ AllowsAnother(CharacterOf[w.request])
       => \E j \in Job : ~Exists(j) /\ status'[j] = "queued"]_vars

-----------------------------------------------------------------------------
(* The refinement: what became of a job is read off its row, what became of
   its credit off the ledger alone. *)
OutcomeOf(j) ==
  CASE status[j] = "none"               -> "absent"
    [] status[j] = "completed"          -> "delivered"
    [] status[j] \in {"failed", "canceled"} -> "closed"
    [] OTHER                            -> "pending"

CreditOf(j) ==
  IF ~Exists(j) THEN "none"
  ELSE IF Recorded("commit", Key(j)) THEN "charged"
  ELSE IF Recorded("refund", Key(j)) THEN "released"
  ELSE "held"

Account == INSTANCE CreditAccount WITH
  outcome <- [j \in Job |-> OutcomeOf(j)],
  credit  <- [j \in Job |-> CreditOf(j)]

(* Charging and refunding happen in the very step that delivers or closes the
   job, once, whoever calls the services and however the months, the plan and
   the projection change meanwhile. *)
CreditPromise == Account!Spec

=============================================================================
