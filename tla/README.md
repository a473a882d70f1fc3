# Baraq back end: a TLA+ verification project

Baraq is a Django REST back end (PostgreSQL at READ COMMITTED, gunicorn with
several workers, Celery on Redis) for students: they upload sources, ask AI
characters for quizzes, summaries, audio and plans, answer quizzes and follow
study plans, within the monthly allowance of a subscription. The AI work itself
is done by an external service that is called over HTTP and reports back
through signed webhooks.

This directory models the parts whose correctness depends on the order in
which several actors do things. TLC checks the modules on small instances,
TLAPS proves the theorems for every value of the constants.

## 1. The system

| Component (`src/apps/...`) | State it keeps | Operations | Interacts with |
|---|---|---|---|
| AI usage ledger (`subscriptions/services.py`) | plan, usage row per month, immutable ledger | reserve, commit, refund, rebuild | called by the job services in their transaction |
| AI job services (`ai_integration/services.py`) | `AIJob` row: status, key, identifier, credit flags; results, notices, interaction | create, update progress, fail, complete, cancel | ledger (shared transaction), Celery (`on_commit`) |
| Dispatch, webhook, refresh (`ai_integration/tasks.py`, `views.py`, `client.py`) | Celery messages, `AIWebhookEvent` rows | dispatch, cancel task, webhook, refresh | job services, AI service over HTTP |
| Result materializers (`ai_integration/materializers.py`) | quiz, summary, audio, plan, recommendations | materialize | called by `complete_job` |
| AI feedback (`ai_integration/views.py`, `tasks.py`) | `AIFeedback` row, forwarded flag | put, forward task | AI service, Celery |
| Service signatures (`ai_integration/security.py`) | nonces in the shared cache | verify an internal call | every webhook and manifest request |
| Subscriptions (`subscriptions`) | subscription row, plans, event log | change, edit, cancel, delete, revive, expire, trial; plans | allowance, sources |
| Quizzes and attempts (`quizzes`) | quiz, questions, attempts, answers, log | create, edit, publish, archive, delete; start, answer, submit, abandon | materializers |
| Study plans (`study_plans`) | plan status and percentage, tasks | create, edit, complete, skip, reopen, delete | materializers |
| Sources (`sources`) | collections, sources, processing status, files | upload, edit, delete, process, use with a character | limits of subscriptions, Celery, AI jobs |
| Support (`support`) | ticket, messages | ask, reply, close, patch | administration |
| Users (`users`) | account, password, reset links | register, sign in, reset, change, edit | everything |
| Administration (`admin_dashboard`) | accounts, roles, assignments, audit log | create, edit, suspend and delete administrators; roles | users, subscriptions, support |
| Projects, subjects, notifications, summaries, audio, recommendations | rows with a status | create, edit, archive, read | sources and jobs name them |

### What is hard in it

* Requests run concurrently in several processes, with row locks
  (`select_for_update`) in some services and none in others. A read before the
  lock, or a lock on rows that do not exist yet, leaves a gap.
* Celery delivers at least once (`CELERY_TASK_ACKS_LATE`,
  `CELERY_TASK_REJECT_ON_WORKER_LOST`), retries, and is told about a job only
  after its transaction has committed.
* The AI service answers late, twice, out of order or not at all; a reply can
  be lost after the service has acted.
* Each request costs a student part of a monthly allowance, so doubling or
  losing an outcome is visible to them.

### What makes each component correct

* Ledger: the counters are what the ledger replays to; a plan's limits hold
  under concurrency; each operation takes effect once per key.
* Job services: the job's status, ledger entries, flags, results and notices
  agree; a settled job stays settled; the same request twice costs once.
* Delivery: only finished work is charged; a repeated dispatch neither
  redirects nor fails a job; an acknowledged event has had its effect; every
  dispatched job settles.
* Quizzes: at most one attempt in progress per student and quiz; a submitted
  attempt's score is the sum of its answers; a settled attempt stays settled; a
  published quiz is complete.
* Study plans: the percentage and the status follow the tasks.
* Sources: the limits of the plan hold under concurrency; files and rows agree;
  a source that waits is processed, and one that is ready has its text.
* Feedback: what a student last said reaches the AI service.
* Signatures: a call is let in once, however often it is delivered.
* Subscriptions: the plan in force is the one last decided, while it lasts.
* Support: the status of a ticket agrees with its messages.
* Accounts: a reset link is good for one password.
* Administration: a super admin remains, and only super admins make others (but
  for roles that take the code `super_admin`, see section 3).

`PROJECT.json` lists every component with its status, and every hazard at the
line where it bites with the properties that cover it or the reason why none
does.

## 2. The plan

Modules, most important behaviour first; all of them are written. Those of
one run share no state with each other.

| Module | Models | Composed with | State |
|---|---|---|---|
| `UsageLedger` | the allowance of a student: plan, months, counters, ledger | extended by `AIJobs` | checked, proved through `AIJobs` |
| `AIJobs` | the job services, one action per service, `create_ai_job` in two | extends `UsageLedger` | checked and proved |
| `CreditAccount` | abstract: what the credit system promises | refined by `AIJobs` | refinement checked and proved |
| `AIJobDelivery` | Celery, the AI service, webhooks, refresh, crashes | extends `AIJobs`, implements its `Spec` | checked; safety and refinement proved |
| `QuizAttempts` | attempts at a published quiz by overlapping requests | - | checked and proved |
| `StudyPlans` | a plan and its tasks under overlapping requests | - | checked and proved |
| `SourceLibrary` | uploads, limits, files, collections, projects | run `platform` | checked and proved |
| `QuizAuthoring` | drafts, questions, counts, publishing; stale saves | run `platform` | checked and proved |
| `Accounts` | sign-in, reset links, passwords, whole-row saves | run `platform` | checked and proved |
| `SourceProcessing` | one source and the workers that process it | run `work` | checked and proved, with liveness |
| `JobInputs` | what a job is created with and what is sent | run `work` | checked and proved |
| `FeedbackForwarding` | one feedback and the task that forwards it | run `work` | checked and proved |
| `ServiceGate` | time window and nonces of signed calls | run `work` | checked and proved |
| `SupportDesk` | one ticket under overlapping requests | run `work` | checked and proved |
| `Administration` | accounts, roles, permissions, deletions | run `work` | checked and proved |
| `Entitlement` | the subscription row, the plans, the plan in force | run `work` | checked and proved |

Abstract specifications: `CreditAccount`, and the services of `AIJobs` as the
abstraction of the deployed system (property `CallsOnlyServices`).

The proofs are in seven modules of their own, so that one step of a component
is proved beside its invariant: `AIJobs_proofs` and `AIJobDelivery_proofs`,
`QuizAttempts_proofs`, `StudyPlans_proofs`, `Platform_proofs` (library,
authoring, accounts and their composition), `AIService_proofs` (processing,
inputs, feedback, gate) and `Work_proofs` (desk, administration, subscription
and the composition of the seven components of the run `work`). `Sums` holds
lemmas about sums over a finite set that two of them need.

Every invariant and every action property that a run checks is proved; the two
liveness properties are checked only. What is left to do: one atomic request at
a time as the abstraction of `StudyPlans` and `QuizAttempts` for requests that
do not overlap, and of the library and the authoring in the same way.

## 3. The modules and the code

### `UsageLedger` and `AIJobs`

One student is the whole model: every row, entry and key belongs to one
student. `plan` is what `get_user_plan` answers; a change, cancellation or
expiry of the subscription is `ChangePlan`. `requestsUsed` and `characterUsed`
are the counters of the `SubscriptionUsage` row of each month, `ledger` the
`UsageLedgerEntry` rows. `ReserveCharacterRequest`, `CommitCharacterRequest`,
`RefundCharacterRequest` and `RebuildUsageProjection` are the services of the
same names in `subscriptions/services.py`. `rebuild_usage_projection` has no
caller in the repository; it may run at any time in the model.

`status`, `externalId`, `reserved` and `committed` are columns of `AIJob`.
`results`, `interaction` and `notified` stand for the rows that
`materialize_job`, the source interaction and `notify` write, `dispatchSent`
and `cancelSent` for what `transaction.on_commit` hands to Celery. The
services that lock the job row first (`update_job_progress`, `fail_job`,
`complete_job`, `cancel_job`) are one action each, the refund, commit and
notice they make included. `create_ai_job` reads before it locks, so it is
`BeginCreate` (is there a reusable job? is the character in the plan?) and
`FinishCreate` (the insert, the unique constraint on the key, the reservation)
or `AbortCreate` (an IntegrityError, which reaches the client as a 500, or an
exhausted limit; everything is rolled back). A forced job gets a key of its
own, which the model takes to be the row itself.

The month of a reservation is the month in which the ledger service runs. The
code picks the usage row just before it locks it; a request that crosses
midnight of the last day between the two would use the row of the month
before, and is not modelled.

### `CreditAccount`

What a student may rely on: a request is held when the job is accepted, charged
in the step that delivers the result, released in the step that closes the job
without one. The refinement mapping of `AIJobs` reads the outcome off the job
row and the credit off the ledger alone, so it also says that the two agree.

### `AIJobDelivery`

`broker`, `running` and `cancelQueue` are the Celery messages and the
executions of `dispatch_ai_job` and `cancel_external_ai_job`; `remote` and
`remoteFor` the AI service's jobs, `events` the webhooks it sends, `processed`
the `AIWebhookEvent` rows marked processed, `polled` a refresh between its
answer and its transaction. The AI service is external: it is modelled from
what `client.py` sends and from what the webhook and refresh views accept. Its
actions are to accept a job (the reply may be lost), to decline, to work in its
own order, and to stop a job.

Failures: a process lost between a commit and the send of its messages
(`lostSends`), a worker lost during or just after its work, a message delivered
twice while it is worked on, a retry sent although the message comes back, a
reply lost after the service has acted, webhooks late, repeated, reordered, or
applied without being marked. An event of an unknown job answers 404 and stays
unprocessed. The actions call the services of `AIJobs` and nothing else, which
is `CallsOnlyServices`, a refinement checked and proved.

### `QuizAttempts`

The attempts of one student at one published quiz. A request reads the attempt
without a lock (`get_object`), decides, and then writes; other
requests run in between, so each operation is a `Begin...` and a `Finish...`
action, and a submission has three (it writes its answers, grades them with
what is stored, and commits). Deadlines pass at any time (`Expire`), requests
may be lost at any time, the quiz may be archived and published again. The
database is taken at READ COMMITTED: `select_for_update` skips a row that has
been settled while it waited and does not see rows inserted later; a row
written in an open transaction (`Held`) makes its other writers wait. The quiz
and its questions do not change in this module; that is `QuizAuthoring`'s.

`contended` (attempts two requests were at together) and `startsOverlapped`
are history variables. The properties hold outside of them, and the code
really breaks them inside: with two requests at one attempt the last to save
wins, an answer may land after the submission has been graded, and an
abandonment may hide a result.

### `StudyPlans`

A plan and its tasks. A request reads its task with the plan, writes the task,
counts, and saves the whole plan row; task rows stay locked until the commit
(`Locked`), the plan row is not locked before it is saved. The two counts of
`update_plan_completion` are one step. The count for a new task uses the number
of tasks read with the plan: the plan of `POST tasks` comes with its tasks
prefetched, so `plan.tasks.count()` is the length of that cache, while the
filtered count asks the database. `stale` and `undisturbed` are history
variables: the percentage and the status may be wrong after requests that
overlapped, and after a task was added, until an undisturbed request counts
again.

### `SourceLibrary`

One student's sources, collections and projects, and the files in the storage.
An upload holds the user's row from the count to the commit (`BeginUpload`,
`FinishUpload`, `UserLocked`); it writes the file first, and its commit fails
when the collection has gone, with the file left behind. A PATCH reads a row
and later saves every column (`BeginPatch`, `FinishPatch`): a source deleted
meanwhile is inserted again. A deletion removes the row and then the file
(`BeginDelete`, `Unlink`). A collection is destroyed if it had no sources when
that was asked (`BeginDestroy`, `FinishDestroy`). `ChangePlanInForce` is all
this module sees of the subscription; `Entitlement` has the rest.

`revived` (sources a PATCH inserted again), `refiled` (collections moved to
another project) and `interrupted` (a request lost or refused half way) are
history variables. The code breaks the properties inside them: a revived
source has no file and was never counted, the sources of a moved collection
keep the old project, and nothing removes the file of a failed upload.

### `SourceProcessing`

One text source, the messages for it, and the executions of
`process_source_task`: they look at the row (`TakeMessage`), then lock it and
save the outcome (`Process`). `process_source` catches what goes wrong with the
file and saves it as failed, so the retries declared for OSError never run. But
its `try` stands inside the transaction: when the database itself refuses the
save of an outcome (PostgreSQL does, for a text with a NUL), the handler's save
fails too, everything is rolled back, and the message is acknowledged. The
source then stays uploaded with nothing under way until somebody asks for its
processing again; `refused` records that. `LoseWorker` is a worker that dies,
with late acknowledgement. `ReadForEdit` and `SaveEditedRow` are a PATCH, which
may put an older status back over a newer one (`overwritten`); the message of
an upload may not be sent (`unsent`).

### `JobInputs`

A job from the request to the call of the AI service. The request is checked
(`AskForJob`), the job is created with the input built from the rows
(`CreateJobWithInput`), and `dispatch_ai_job` reads the job (`TakeJob`) and
builds the input a second time (`BuildAndSend`); sources are deleted, moved and
processed at any point. `stirred` and `withdrawn` are history variables: rows
that changed since the creation, and a source or collection named by the job
that was deleted. A plan whose source was deleted before the dispatch is asked
for without any.

### `FeedbackForwarding`

`version` is the feedback row, by how often it was given; `forwarded` its flag,
`tasks` the messages by the retries spent, `received` what reached the AI
service. `overtaken` is where the code loses a version: the flag that an
earlier one has set stays, or is set by an execution that sent an earlier one.
`given_up` is a task not sent, or out of retries.

### `ServiceGate`

The check of internal calls (`_verify_hmac_v2`, `verify_internal_request`): the
stamp within `Skew` seconds of the clock, both ends inclusive, and the nonce
added to the cache for `NonceTtl` seconds. The network delivers a signed call
at any time and again; the cache may lose what it holds (`forgotten`).

### `SupportDesk`

One ticket. Each request reads it, posts its message in one transaction and
saves a status computed from what it read in another. `by_hand` is a status
chosen by a PATCH. A settled ticket has its time of resolution however requests
overlap. That a ticket waits for the student only after an answer fails in four
ways, and `crossed` is set in these alone: a question is posted to a ticket that
began to wait after the question read it; a reply saves its status after a newer
question; a PATCH without a status puts back that the ticket waits; a question
is lost before its status. Requests that merely overlap are not exempted.

### `QuizAuthoring`

Quizzes and questions of one student, written by hand or delivered by the AI
(`ReceiveQuiz`). No request locks the quiz. `question_count` is saved only when
the number counted differs from the one that was read (`Synced`), whatever the
row says by then. `raced` has the quizzes whose row or questions changed
between the look and the write of another request, where the code may leave a
published quiz with a wrong count or without questions, or bring a quiz back to
draft. `publish_quiz` takes an archived quiz too.

### `Accounts`

One account. A password is its salted hash, numbered as they are made; a reset
link carries what Django's token is computed from, the hash and the last
sign-in. Confirming a link checks the token and saves the password later
(`BeginConfirm`, `FinishPassword`); a PATCH of the own account or by an
administrator saves every column it read, the password included (`BeginMe`,
`BeginManage`, `FinishMe`). `muddled` (two confirmations at once) and `undone`
(a PATCH put an older password back) are history variables: in both cases the
code accepts more than one link for a password.

### `Administration`

Accounts, roles and assignments, with the checks of the dashboard's views and
of `services.py`: who may change a super admin, which roles may be given
(`MayAssign`), that a super admin is left (`MayDelete`). Each check is made
before the write and without a lock; roles are replaced in several statements
(`EndOtherRoles`, `StartRole`). Super admins are recognised by the code of a
role, and codes can be edited: a PATCH compares the code a role had with
`super_admin` and not the one it is given, and a POST takes any free code. So
once a super admin has renamed the role `super_admin`, another role can take the
code, and whoever has that role is a super admin without having been made one;
`recoded` records the roles that took it, and `SuperAdminsWereGranted` says that
no other way exists. `granted`, `recoded`, `audited`, `unguarded` and
`unlogged` are history variables. The system starts with its roles seeded; the
command that seeds them again is not modelled. Only a deletion counts the super admins: a
suspension, an edit of the account or of the role, or a replacement of roles
can leave none, and so can two deletions that overlap (`unguarded`).

### `Entitlement`

The subscription row with its period and trial, and the plans. `PlanInForce`
is `get_user_plan`. `decided` is what the last change of plan or status says;
`overruled` that a row read before another request wrote it was saved after.
A soft-deleted row is revived on the free plan, with the dates it had, by any
request that asks for the subscription. The event log and the renaming of the
free plan (which makes `get_default_plan` create another) are left out.

## 4. What TLC checks

| Run | Instance | Distinct states | Shows |
|---|---|---|---|
| `job_rows` | 2 job rows, 2 requests, 2 plans, 2 months, 2 callers, 1 identifier | 88,374 | credits, results, notices and status agree; one job per request; settled jobs frozen; the refinement of `CreditAccount` |
| `month_quota` | 3 job rows, 2 months, 2 callers, limits of 1 and 2 | 446,116 | in a month no refund has crossed into, counters are the replay of the ledger and a job is created only within the plan |
| `delivery` | 1 job, 2 remote jobs, 2 workers, 1 retry, 1 fault | 178,179 | charging, identifiers, cancellations and failures under loss, repetition and reordering; the refinement of `AIJobs`; liveness |
| `quiz_attempts` | 3 attempts, 2 overlapping requests, 2 questions | 2,031,704 | results, settled attempts, late answers, attempts in progress |
| `study_plan` | 2 tasks, 2 overlapping requests | 731,348 | percentage and status of a plan; cancelled plans |
| `platform` | library: 2 sources, 1 collection, 2 projects, 2 plans, 2 requests; authoring: 2 quizzes, 2 questions, 2 requests; account: 2 visitors, 3 passwords, 1 sign-in | 1,388,141 | limits, files and projects of sources; published quizzes; reset links |
| `work` | processing: 2 workers, 1 PATCH, 3 sends; inputs: 3 sources; feedback: 2 versions, 1 retry, 1 death; gate: 2 calls, skew 1, nonces for 2, clock to 5; desk: 2 requests, 4 posts; administration: 2 accounts, 2 roles, 4 requests; subscription: 2 plans, 2 requests, 3 decisions | 981,264 | what each of the seven promises; every source with work under way is processed, unless overwritten or refused |

Five more runs show that something the repository says does not hold:

* `retry_after_failure`: a request whose job failed cannot be made again; the
  failed row keeps the key and the insert hits the unique constraint.
* `refund_next_month` (`PlanHonoured` with two months): a refund lowers the
  counters of the current month, whatever month the job was reserved in, so
  more jobs than the plan allows run in the new month. `month_quota` and the
  proofs show that this is the only way: `OwnMonth` says of a month that every
  request given back in it was reserved in it, and there `ProjectionIsReplay`
  and `PlanHonouredInOwnMonth` hold.
* `resubmission`: the request that creates a remote job carries no
  Idempotency-Key, so a lost reply starts a second remote job.
* `quiz_double_start`: two overlapping starts leave two attempts in progress.
* `study_plan_add`: a task added to a completed plan leaves it completed at
  100 percent.

The bounds. Two job rows and two requests are enough for every pair of jobs
(same request, different request, forced) and three rows for a limit of two to
be reached with jobs of both characters; two callers are enough for a race of
`create_ai_job` with itself. One job suffices for delivery because deliveries
of different jobs share only the ledger, which the other runs cover; two
identifiers allow a second remote job for it, two workers two executions of
one dispatch, one retry the path with and without a retry left, and one fault
any single loss or repetition at any point. Three attempts are needed for a
start that submits an expired attempt and creates the next while another start
does the same. Two requests open at once are every pair of overlapping
operations. `MaxMonth`, `MaxFaults`, `MaxRetries`, `ForceFlags`, the number of
rows, and the guard of `BeginCreate` and `BeginStart` that a row is left are
the bounds; the theorems hold for all of their values.

`platform` and `work` each check components that share no state. A behaviour
works one of them, chosen by `focus` in the initial state, and the others stand
still: one run explores the sum of their states and not the product, and no
interleaving is lost, since a step of one component is neither enabled nor
disabled by another and no property speaks of two. Two requests (visitors,
authors, clerks, officers, workers) are every pair of overlapping operations.
Two sources of one and two bytes fill either plan; each plan is the narrower
one in something (the free one in sources and bytes in all, the paid one in
bytes per file), so an upload is refused for every reason there is; the free
plan has no collections and the paid one has one, so a collection is refused, and
one may outlive the plan it was made under. Three
sources of inputs are a recording and more texts than a job takes
(`MaxIds` = 1, 10 in the code). The gate is checked at the ratio of the
default settings (`NonceTtl` = 2 `Skew`), with a clock that lets a call be
admitted twice. `MaxCreated`, `MaxHash`, `MaxLogin`, `MaxSends`, `MaxVersion`,
`MaxDeaths`, `MaxClock`, `MaxPosts`, `MaxRequests`, `MaxDay` and
`MaxDecisions` bound what could go on for ever; `LoseWorker` counts as a send.

Deadlock is not checked for the two job runs, nor for `platform` and `work`:
when every row is settled and the bounds are reached, nothing is left to do.
Symmetry is used for job rows, callers, requests, tasks, quizzes and
questions, never in a run with a liveness property.

Every property has a mutant in `PROJECT.json`: a plausible bug in one mapped
definition (a dropped status, a forgotten counter, a mark written too early,
a count taken before the write) that makes TLC report that property.

### Fairness

Two properties need it. `EventuallyProcessed` assumes that each worker goes on
taking messages and ending executions (`WF` of `WorkerStep`, the Celery
workers of `docker-compose`); deaths of workers are bounded, uploads whose
message was not sent, rows a PATCH has overwritten and executions whose save the
database refused are exempted, as the code has no job that would look for them;
what a student asks for again is covered again. For `EventuallySettled`,
`DeliverySpec` assumes that Celery workers
keep running (`DispatchStep`), that the AI service finishes the jobs it has
accepted, and that it repeats the event of a finished job until it is
acknowledged. The first is how the service is deployed, the others what the
webhook contract asks of the AI service (it answers 404 and 500 to events it
has not processed, so that they are sent again). Nothing is assumed of
students, of refreshes, or of cancellations. The property exempts two kinds of
job the code really leaves open: those whose message was lost between the
commit and the send (`lostSends`; there is no periodic task that would send it
again), and those whose result `materialize_job` rejects, which keep their
reservation until the student cancels them.

`FailedByService` excludes executions of one dispatch that overlap: there the
code fails a job the other execution has already submitted.

## 5. What TLAPS proves

For any numbers of jobs, requests, callers, months, plans, workers, questions,
attempts, tasks, sources, quizzes, accounts, and of requests open at once, from
the assumptions named in the modules (`LedgerAssumption`, `JobAssumption`,
`DeliveryAssumption` and those of the other modules: finite sets where
something is counted, keys that are different from one another, limits that
are numbers or absent). Each component has a type invariant, an inductive
invariant, one lemma per action and a theorem for each property its run
checks; `PROJECT.json` lists the theorems.

`AIJobs_proofs`. `IInv` is inductive. `CreditsFollowOutcome` alone is not: it
says nothing of two jobs that share a key, where the refund of one would
change what the ledger says of the other, nor of an entry already written
under the key of a job yet to be created. So `IInv` adds `KeysDistinct` (the
unique constraint), `LedgerOwned` (every entry belongs to a job that exists)
and `RowsFresh` (a row not yet created is not committed). From it follow type
correctness, `CreditsFollowOutcome`, `OutcomeShownOnce`, `OneJobPerRequest`,
the action property `SettledJobsFrozen`, and `CreditPromise`: the initial
state maps to the initial state of `CreditAccount` and each step to a step of
it or to a stutter.

The counters need `LedgerInv` on top of it. A counter is the number of
reservations of its month less the refunds booked in it, and both
`ReserveCharacterRequest` and `max(n - 1, 0)` keep that only while the refunds
are no more than the reservations, for each character. So `LedgerInv` says that
a key is reserved and refunded once (`EntriesOnce`) and with the character of
its job (`EntriesOfJob`); in a month of its own (`OwnMonth`) the refunds then
map one to one into the reservations, and `ProjectionIsReplay` is inductive.
For the plan, the jobs in flight or completed map one to one into the
reservations that no refund gave back, hence there are no more of them than the
counter says (`ChargedWithinReplay`), and the limit the counter is compared
with under the lock is a limit on the jobs: `PlanHonouredInOwnMonth`. With
`MaxMonth = 0` every month is of its own (`OneMonthCorrect`).

`AIJobDelivery_proofs`. First the types together with `AnswersOwned` (an
execution that holds an identifier holds one of its own job), then, by cases
over the actions, that every step is a step of `AIJobs` or leaves its
variables alone: `DeliveryImplementsServices`, and with it every theorem about
`AIJobs` for the deployed system. `TieInv` then ties the two sides together:
stored identifiers belong to remote jobs created for that job, emitted and
polled reports are what the remote job has become and finished remote jobs do
not change, processed events are of stored identifiers. `ChargedForWork`,
`ProcessedTookEffect`, `CancelOnlyCanceled` and `IdentifierStable` follow.
`FailedByService` needs to know where the dispatch of a job is: `SoleInv` says
that, as long as nothing was delivered twice, it is one message or one
execution, never both, and that an execution under way finds no identifier
stored (`SoleDispatch`); and that only jobs whose dispatch was sent are
dispatched at all, so that a new job's message is the first. An execution that
gives up then fails a job without an identifier, of which the property does not
speak, and a job that has one is failed by a report only. `DeliveryKeepsAccounts` carries the theorems about `AIJobs`
over.

`QuizAttempts_proofs`. `AttemptInv` says what a request at an attempt that is
not contended may rely on: it is alone there (`Alone`), what it has read is
still so (`ReadIsCurrent`), the result it has computed is that of the answers
it will leave (`ComputedIsCurrent`), and a late request carries no answers
(`LateIsBlank`); a start that no other has overlapped has read every attempt
in progress (`StartsInv`). `ResultOfAnswers` is not inductive without them,
since a graded submission writes a result computed two steps earlier. The type
of a score is that of a sum over the questions (`Sums`).

`StudyPlans_proofs`. `PlanInv` has the same shape: the undisturbed request is
the only one open and what it carries follows from the rows as they are; while
any other request is open, `stale` holds. That a plan saved as completed has
only completed tasks is a fact about cardinalities (`CompletedIsDone`).

`Platform_proofs`, library. Limits are compared with the rows and the row is
committed in a later step, so `LibraryInv` counts the row about to be committed
with the others (`Counted`), and says that there is one such upload at most
(`OneUpload`: the lock on the user), that what a request has read still holds
when it writes (`RequestSound`) unless a late PATCH revived or moved the row,
and that a file without a row belongs to a request still open (`Orphans`).
`FilesMatchRows`, `LimitsHeld` and `FiledInItsProject` follow.

`Platform_proofs`, authoring. A quiz is published by a request that has looked
at its questions before. `AuthoringInv` says that they are still as they were
looked at, or the quiz is one that requests raced for (`PublishHolds`), that an
edit carries the status it read, that a question being added is added by one
request (`AsksApart`), and that questions belong to quizzes that exist.
`PublishedSound` and the action property `PublishedOnlyArchived` follow.

`Platform_proofs`, accounts. `AccountsInv` says, while no two confirmations
overlapped and no password was put back, that one confirmation at most is open,
for a password not yet reset, and that the account's own password was not reset.

`AIService_proofs`, processing. `ProcessingInv` adds to `ProcessingSound` that
the rows PATCH requests have read are sound, since one of them may be saved. A
source that waits has a message or an execution until an execution ends with an
outcome, which is terminal, or with nothing, which sets `refused`; only another
request clears that, and it sends a message.

`AIService_proofs`, inputs. `SentWithMaterial` speaks of an input built a second
time at the dispatch. `InputsInv` says what holds until then: while no row
changes, what was accepted is what would be built now (`AcceptedFits`), a
transcript names one recording, and a quiz of nothing had its material deleted
(`NamedMaterial`). That a collection gives its first sources and no more than
it may is the lemma `FirstSources`.

`AIService_proofs`, feedback. `ForwardInv`: what an execution says was told is
what it had read, and a version the service does not know has a message, or an
execution that read it, unless it was overtaken or given up.

`AIService_proofs`, gate. An admission is compared with all earlier ones, of
which the code keeps only a nonce. `GateInv` says of every admission that it
lies within the skew of the stamp and that its nonce is held until `NonceTtl`
after it. `AdmittedApart` follows, and `AdmissionsOnce`: with `NonceTtl > 2 *
Skew` a call is let in once. The defaults, 600 and 300 seconds, do not satisfy
that: a call delivered again exactly 600 seconds later, stamped half way
between, is let in a second time.

`Work_proofs`, desk. `DeskInv` adds to the two properties that every row about to
be saved says when the ticket was settled (`RowsDated`). The rest goes by the
step: whatever makes a ticket wait, or makes the student the last to have
written, either keeps `WaitingMeansAnswered` or sets `crossed`.

`Work_proofs`, administration. `AdminInv`: whoever is marked a super admin, or has
the role seeded with the code while that role has kept it (`Kept`), was granted it
(`GrantsKnown`); any other role with the code took it (`CodesKnown`, kept by
`SaveRoleCodes` where rows of roles are saved); what an open request will write
was allowed when it was checked, and a deletion is in the log before the account
goes (`ErrandSound`); and, unless deletions ran unguarded, one is open at most
and leaves a super admin (`Guarded`).

`Work_proofs`, subscription. `EntitlementInv` says that a request that is not
late carries a row which follows the last decision or is one, and that a revival
that is not late still finds the row deleted.

Compositions. `PlatformComponents` and `WorkComponents`: every step of the
composed system is a step of one component and leaves the others alone, so it
implements each of them, and what is proved of a component holds of the whole.

`Sums`. `Bytes` of the library and the scores of the quiz are folds over a set
that choose an element at a time. Induction over the set, which the library's
theorems state with an operator as parameter, is replaced by a minimal
counterexample (`Smallest`, from the well-foundedness of strict inclusion). A
sum is shown to be the number of elements of a set with `f[x]` units for each
`x` (`SumIsUnits`), and what is known of cardinalities then gives that a sum
grows with its set and by what is added (`SumGrows`).

Only model-checked: `EventuallySettled` and `EventuallyProcessed` (liveness and
ENABLED are out of the prover's reach). What the five violation runs show is
false for the constants they use, so there is nothing to prove of it;
`OneMonthCorrect`, `OneActive` and `PlanTrue` say when three of them hold.
`IdentifierStable` is proved and not checked by a run.

## 6. What is not modelled

* The contents of results, answers and texts; formatting, pagination,
  serialization, validation of single fields. The materializers are modelled
  by what `complete_job` needs of them: they create the result or raise.
* The computation of signatures and digests: `ServiceGate` takes every call to
  be signed by the service, and models time and nonces. JWTs and their
  rotation belong to a library.
* Two students: nothing but the AI service and the queue is shared by them.
  `Administration` has the accounts of several people, and no students.
* Projects, subjects, summaries, audio, recommendations, notifications: rows
  of one owner with a status, written once or in one statement, and read. So
  are registration, student profiles, reports, lists and the manifests that
  the AI service reads. `seed_demo_data` is one transaction of upserts.
* The `subject_ids` of a plan (`build_khota_job_input`): those of the request
  are used at the creation, and the subject of the source, if it has one, at
  the dispatch; `JobInputs` models sources only.
* Edits through the Django admin site, which saves rows without the checks of the
  API, and the management commands that seed roles, permissions and plans again.
* What is left of the plan is at the end of section 2.
