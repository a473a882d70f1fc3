--------------------------- MODULE AIJobDelivery ---------------------------
(***************************************************************************)
(* How the services of AIJobs are called in the deployed system: Celery    *)
(* workers run dispatch_ai_job and cancel_external_ai_job                  *)
(* (apps/ai_integration/tasks.py), the AI service works on remote jobs and *)
(* reports through signed webhooks, and a student may refresh a job        *)
(* (views.py).  The queue delivers at least once (CELERY_TASK_ACKS_LATE,   *)
(* REJECT_ON_WORKER_LOST), reports arrive late, repeated or out of order,  *)
(* and a reply of the AI service can be lost after the service has acted.  *)
(* The AI service itself is external: it is modelled from what client.py   *)
(* sends it and what the webhook and refresh accept from it.               *)
(***************************************************************************)
EXTENDS AIJobs

CONSTANTS
  Worker,             \* Celery worker slots
  ReportedProgress,   \* the intermediate statuses the AI service reports
  MaxRetries,         \* max_retries of the tasks
  MaxFaults           \* bound: lost processes and doubled dispatches explored

ASSUME DeliveryAssumption ==
  /\ Job # {}
  /\ ReportedProgress \subseteq Progress
  /\ MaxRetries \in Nat
  /\ MaxFaults \in Nat

VARIABLES
  broker,             \* dispatch_ai_job messages waiting for a worker
  running,            \* the dispatch each worker is in, or Idle
  cancelQueue,        \* cancel_external_ai_job messages waiting
  lostSends,          \* jobs committed whose message was never sent
  remote,             \* the AI service's view of each of its jobs
  remoteFor,          \* the client_job_id each remote job was created with
  events,             \* webhook events the service has emitted
  processed,          \* AIWebhookEvent rows with processed = True
  polled,             \* the remote status a refresh has read and not applied
  crashes,            \* losses so far
  redeliveries        \* dispatches doubled so far

remoteVars == <<remote, remoteFor, events>>
queueVars == <<broker, running, cancelQueue, lostSends>>
faultVars == <<crashes, redeliveries>>
deliveryVars == <<vars, queueVars, remoteVars, processed, polled, faultVars>>

Message == [job : Job, attempt : 0..MaxRetries]
Idle == [pc |-> "idle"]
Pc == {"calling", "accepted", "unavailable", "refused"}
Execution == [pc : Pc, message : Message, id : ExternalId \cup {NoExternalId}]

(* "invalid" is a completed job whose result materialize_job rejects. *)
Finished == {"completed", "invalid", "failed", "canceled"}
RemoteStatus == {"none"} \cup Progress \cup Finished
Event == ExternalId \X (RemoteStatus \ {"none"})

DeliveryTypeOK ==
  /\ TypeOK
  /\ broker \subseteq Message
  /\ running \in [Worker -> Execution \cup {Idle}]
  /\ cancelQueue \subseteq ExternalId
  /\ lostSends \subseteq Job
  /\ remote \in [ExternalId -> RemoteStatus]
  /\ remoteFor \in [ExternalId -> Job]
  /\ events \subseteq Event
  /\ processed \subseteq events
  /\ polled \in [Job -> RemoteStatus]
  /\ crashes \in 0..MaxFaults
  /\ redeliveries \in 0..MaxFaults

DeliveryInit ==
  /\ Init
  /\ broker = {}
  /\ running = [w \in Worker |-> Idle]
  /\ cancelQueue = {}
  /\ lostSends = {}
  /\ remote = [x \in ExternalId |-> "none"]
  /\ remoteFor = [x \in ExternalId |-> CHOOSE j \in Job : TRUE]
  /\ events = {}
  /\ processed = {}
  /\ polled = [j \in Job |-> "none"]
  /\ crashes = 0
  /\ redeliveries = 0

-----------------------------------------------------------------------------
(* transaction.on_commit runs after the commit, outside it: the messages of
   the step reach the broker, or the process is lost in between. *)
NewDispatches == dispatchSent' \ dispatchSent
NewCancels == cancelSent' \ cancelSent

MessagesSent ==
  /\ broker' = broker \cup {[job |-> j, attempt |-> 0] : j \in NewDispatches}
  /\ cancelQueue' = cancelQueue \cup NewCancels
  /\ UNCHANGED lostSends

MessagesLost ==
  /\ NewDispatches \cup NewCancels # {}
  /\ lostSends' = lostSends \cup NewDispatches
  /\ UNCHANGED <<broker, cancelQueue>>

FaultLeft == crashes + redeliveries < MaxFaults

ProcessLost == FaultLeft /\ crashes' = crashes + 1

DispatchDoubled == FaultLeft /\ redeliveries' = redeliveries + 1

SendCommitted ==
  \/ MessagesSent /\ UNCHANGED crashes
  \/ MessagesLost /\ ProcessLost

(* Students and administrators: create, cancel, change plan. *)
StudentStep ==
  /\ \/ CreateStep
     \/ \E j \in Job : CancelJob(j)
     \/ AllowanceStep
  /\ SendCommitted
  /\ UNCHANGED <<running, remoteVars, processed, polled, redeliveries>>

-----------------------------------------------------------------------------
(* Mutant: the task does not look at the status. *)
StartDispatchUnchecked(w, m) ==
  /\ m \in broker /\ running[w] = Idle
  /\ broker' = broker \ {m}
  /\ running' = [running EXCEPT ![w] =
                   [pc |-> "calling", message |-> m, id |-> NoExternalId]]
  /\ UNCHANGED <<vars, cancelQueue, lostSends, remoteVars, processed, polled, faultVars>>

(* dispatch_ai_job: the status is read without a lock; a job that has left
   the queue is acknowledged and dropped. *)
StartDispatch(w, m) ==
  /\ m \in broker /\ running[w] = Idle
  /\ broker' = broker \ {m}
  /\ running' = IF status[m.job] = "queued"
                THEN [running EXCEPT ![w] =
                        [pc |-> "calling", message |-> m, id |-> NoExternalId]]
                ELSE running
  /\ UNCHANGED <<vars, cancelQueue, lostSends, remoteVars, processed, polled, faultVars>>

Answer(w, pc, x) ==
  running' = [running EXCEPT ![w] = [@ EXCEPT !.pc = pc, !.id = x]]

(* POST create_job reaches the AI service, which starts a new remote job:
   the request carries no Idempotency-Key.  The reply may carry the job's
   identifier, be lost to a timeout, or be unusable. *)
RemoteAccepts(w, x) ==
  /\ running[w].pc = "calling"
  /\ remote[x] = "none"
  /\ remote' = [remote EXCEPT ![x] = "submitted"]
  /\ remoteFor' = [remoteFor EXCEPT ![x] = running[w].message.job]
  /\ \/ Answer(w, "accepted", x)
     \/ Answer(w, "unavailable", NoExternalId)
     \/ Answer(w, "refused", NoExternalId)
  /\ UNCHANGED <<vars, broker, cancelQueue, lostSends, events, processed, polled,
                 faultVars>>

(* The service is down or busy (retryable), or it rejects the request, is
   disabled, or the payload cannot be built any more (not retryable). *)
RemoteDeclines(w) ==
  /\ running[w].pc = "calling"
  /\ \/ Answer(w, "unavailable", NoExternalId)
     \/ Answer(w, "refused", NoExternalId)
  /\ UNCHANGED <<vars, broker, cancelQueue, lostSends, remoteVars, processed, polled, faultVars>>

(* Mutant: the identifier is stored whatever the job's status. *)
StoreIdentifierAnyway(j, x) ==
  /\ externalId' = [externalId EXCEPT ![j] = x]
  /\ status' = IF status[j] = "queued" THEN [status EXCEPT ![j] = "submitted"] ELSE status
  /\ UNCHANGED <<usageVars, request, forced, reserved, committed, results,
                 interaction, notified, dispatchSent, cancelSent, creating>>

(* submit_job_to_service: update_job_progress drops the identifier when the
   job is settled or already past "queued". *)
StoreIdentifier(j, x) ==
  IF Live(j) /\ "submitted" \in ProgressFrom(status[j])
  THEN UpdateJobProgress(j, "submitted", x)
  ELSE UNCHANGED vars

(* Mutants: the task only raises; the task saves the status itself. *)
GiveUpSilently(j) == UNCHANGED vars
GiveUpWithoutService(j) ==
  /\ status' = [status EXCEPT ![j] = IF @ = "queued" THEN "failed" ELSE @]
  /\ UNCHANGED <<usageVars, request, forced, externalId, reserved, committed,
                 results, interaction, notified, dispatchSent, cancelSent, creating>>

GiveUp(j) == IF Live(j) THEN FailJob(j) ELSE UNCHANGED vars

(* Mutant: one retry too many. *)
OneRetryTooMany(m) == m.attempt > MaxRetries

LastAttempt(m) == m.attempt = MaxRetries

(* What dispatch_ai_job does with the answer; follow is the retry it sends. *)
AfterAnswer(w, m, follow) ==
  \/ /\ running[w].pc = "accepted"
     /\ StoreIdentifier(m.job, running[w].id)
     /\ follow = {}
  \/ /\ running[w].pc = "unavailable" /\ ~LastAttempt(m)
     /\ follow = {[m EXCEPT !.attempt = @ + 1]}
     /\ UNCHANGED vars
  \/ /\ running[w].pc = "refused" \/ (running[w].pc = "unavailable" /\ LastAttempt(m))
     /\ GiveUp(m.job)
     /\ follow = {}

(* The message is acknowledged after the work (acks_late): a worker lost in
   between gets it delivered again.  Lost after sending a retry, it leaves two
   messages for one dispatch. *)
FinishDispatch(w) ==
  LET m == running[w].message IN
  /\ running[w].pc \in {"accepted", "unavailable", "refused"}
  /\ running' = [running EXCEPT ![w] = Idle]
  /\ \E follow \in {{}, {[m EXCEPT !.attempt = @ + 1]}} :
       /\ AfterAnswer(w, m, follow)
       /\ \/ broker' = broker \cup follow /\ UNCHANGED faultVars
          \/ /\ broker' = broker \cup follow \cup {m}
             /\ IF follow = {}
                THEN ProcessLost /\ UNCHANGED redeliveries
                ELSE DispatchDoubled /\ UNCHANGED crashes
  /\ UNCHANGED <<cancelQueue, lostSends, remoteVars, processed, polled>>

(* A lost worker's message is rejected and delivered again. *)
WorkerLost(w) ==
  /\ running[w] # Idle
  /\ ProcessLost
  /\ broker' = broker \cup {running[w].message}
  /\ running' = [running EXCEPT ![w] = Idle]
  /\ UNCHANGED <<vars, cancelQueue, lostSends, remoteVars, processed, polled, redeliveries>>

(* An unacknowledged message is delivered a second time while the first
   delivery is still being worked on. *)
Redeliver(w) ==
  /\ running[w] # Idle
  /\ DispatchDoubled
  /\ broker' = broker \cup {running[w].message}
  /\ UNCHANGED <<vars, running, cancelQueue, lostSends, remoteVars, processed, polled, crashes>>

(* cancel_external_ai_job: the service stops a job it has not finished, or
   the task gives up (retries exhausted, request rejected). *)
CancelRemote(x) ==
  /\ x \in cancelQueue
  /\ cancelQueue' = cancelQueue \ {x}
  /\ \/ /\ remote[x] \in Progress
        /\ remote' = [remote EXCEPT ![x] = "canceled"]
        /\ events' = events \cup {<<x, "canceled">>}
     \/ UNCHANGED <<remote, events>>
  /\ UNCHANGED <<vars, broker, running, lostSends, remoteFor, processed, polled, faultVars>>

-----------------------------------------------------------------------------
(* The AI service works, in its own order, and emits an event per change. *)
RemoteWorks(x) ==
  /\ remote[x] \in Progress
  /\ \E s \in Finished \cup (ReportedProgress \cap ProgressFrom(remote[x])) :
       /\ remote' = [remote EXCEPT ![x] = s]
       /\ events' = events \cup {<<x, s>>}
  /\ UNCHANGED <<vars, queueVars, remoteFor, processed, polled, faultVars>>

Ignored(j, s) ==
  \/ status[j] \in Terminal
  \/ s \in Progress /\ s \notin ProgressFrom(status[j])

(* Mutant: a result is adopted without being validated. *)
ApplyReportUnvalidated(j, s) ==
  \/ s \in {"completed", "invalid"} /\ CompleteJob(j)
  \/ s = "failed" /\ FailJob(j)
  \/ s = "canceled" /\ CancelJob(j)
  \/ s \in Progress /\ UpdateJobProgress(j, s, NoExternalId)
  \/ Ignored(j, s) /\ UNCHANGED vars

(* What the webhook and the refresh do with a reported status. *)
ApplyReport(j, s) ==
  \/ s = "completed" /\ CompleteJob(j)
  \/ s = "failed" /\ FailJob(j)
  \/ s = "canceled" /\ CancelJob(j)
  \/ s \in Progress /\ UpdateJobProgress(j, s, NoExternalId)
  \/ Ignored(j, s) /\ UNCHANGED vars

(* Mutant: the event is marked before the service is called. *)
DeliverWebhookMarkedFirst(e) ==
  /\ e \in events \ processed
  /\ \E j \in Job :
       /\ externalId[j] = e[1] /\ Exists(j)
       /\ \/ ApplyReport(j, e[2]) /\ MessagesSent /\ UNCHANGED crashes
          \/ UNCHANGED <<vars, broker, cancelQueue, lostSends>> /\ ProcessLost
  /\ processed' = processed \cup {e}
  /\ UNCHANGED <<running, remoteVars, polled, redeliveries>>

(* AIWebhookView.post: a processed event is only acknowledged, an event of an
   unknown job answers 404 and stays unprocessed, an invalid result raises and
   stays unprocessed; the mark is written after the service has committed, so
   the process may be lost before it. *)
DeliverWebhook(e) ==
  /\ e \in events \ processed
  /\ \E j \in Job : externalId[j] = e[1] /\ Exists(j) /\ ApplyReport(j, e[2])
  /\ \/ MessagesSent /\ processed' = processed \cup {e} /\ UNCHANGED crashes
     \/ (MessagesSent \/ MessagesLost) /\ UNCHANGED processed /\ ProcessLost
  /\ UNCHANGED <<running, remoteVars, polled, redeliveries>>

(* refresh: the row is read without a lock, the service is asked, and the
   answer is applied later. *)
RefreshRead(j) ==
  /\ Live(j) /\ externalId[j] # NoExternalId
  /\ polled[j] = "none"
  /\ polled' = [polled EXCEPT ![j] = remote[externalId[j]]]
  /\ UNCHANGED <<vars, queueVars, remoteVars, processed, faultVars>>

RefreshApply(j) ==
  /\ polled[j] # "none"
  /\ polled' = [polled EXCEPT ![j] = "none"]
  /\ \/ ApplyReport(j, polled[j])
     \/ polled[j] = "invalid" /\ UNCHANGED vars
  /\ SendCommitted
  /\ UNCHANGED <<running, remoteVars, processed, redeliveries>>

-----------------------------------------------------------------------------
DispatchStep(w) ==
  \/ \E m \in broker : StartDispatch(w, m)
  \/ \E x \in ExternalId : RemoteAccepts(w, x)
  \/ RemoteDeclines(w)
  \/ FinishDispatch(w)

DeliveryNext ==
  \/ StudentStep
  \/ \E w \in Worker : DispatchStep(w) \/ WorkerLost(w) \/ Redeliver(w)
  \/ \E x \in ExternalId : CancelRemote(x) \/ RemoteWorks(x)
  \/ \E e \in events : DeliverWebhook(e)
  \/ \E j \in Job : RefreshRead(j) \/ RefreshApply(j)

(* Workers keep running, the AI service finishes what it accepted, and it
   repeats an event until it is acknowledged.  Nothing is assumed of students
   and of the web requests they make. *)
Fairness ==
  /\ \A w \in Worker : WF_deliveryVars(DispatchStep(w))
  /\ \A x \in ExternalId : WF_deliveryVars(RemoteWorks(x))
  /\ \A x \in ExternalId, s \in Finished :
       WF_deliveryVars(<<x, s>> \in events /\ DeliverWebhook(<<x, s>>))

DeliverySpec == DeliveryInit /\ [][DeliveryNext]_deliveryVars /\ Fairness

-----------------------------------------------------------------------------
(* A student is charged only for work the AI service did for that very job:
   a completed job's identifier is a remote job created for it that
   completed, whatever was lost, repeated or reordered on the way. *)
ChargedForWork ==
  \A j \in Job : status[j] = "completed" =>
    \E x \in ExternalId :
      externalId[j] = x /\ remoteFor[x] = j /\ remote[x] = "completed"

(* The first identifier stored is the job's for good: a repeated dispatch
   cannot redirect the job to another remote job (update_job_progress). *)
IdentifierStable ==
  [][\A j \in Job : externalId[j] # NoExternalId
        => externalId'[j] = externalId[j]]_deliveryVars

(* An event marked processed has had its effect: the job it reported finished
   is settled, even if the process was lost during an earlier delivery. *)
ProcessedTookEffect ==
  \A e \in processed, j \in Job :
    externalId[j] = e[1] /\ e[2] \in Finished => status[j] \in Terminal

(* The AI service is asked to stop only remote work whose own job has been
   canceled (cancel_job). *)
CancelOnlyCanceled ==
  \A x \in cancelSent : status[remoteFor[x]] = "canceled" /\ externalId[remoteFor[x]] = x

(* Unless two dispatches of one job run at the same time, a job with a stored
   identifier fails only when the AI service says its remote job failed:
   retries and lost workers never fail work that is under way. *)
FailedByService ==
  redeliveries = 0 =>
    \A j \in Job : status[j] = "failed" /\ externalId[j] # NoExternalId
                     => remote[externalId[j]] = "failed"

(* The deployed system changes jobs and allowance through the services only,
   so every theorem about AIJobs holds of it. *)
CallsOnlyServices == Spec

(* Every job whose dispatch was sent settles, and with it its credit, unless
   the service's result cannot be materialized: such a job keeps its
   reservation until the student cancels it. *)
ResultRejected(j) ==
  \E x \in ExternalId : externalId[j] = x /\ remote[x] = "invalid"

EventuallySettled ==
  \A j \in Job :
    Live(j) /\ j \notin lostSends ~> status[j] \in Terminal \/ ResultRejected(j)

(* The requests sent to the AI service carry an Idempotency-Key
   (AI_SERVICE_INTEGRATION.md), so a repeated submission of one job does not
   start a second remote job. *)
OneRemotePerJob ==
  \A x, y \in ExternalId :
    remote[x] # "none" /\ remote[y] # "none" /\ remoteFor[x] = remoteFor[y] => x = y

=============================================================================
