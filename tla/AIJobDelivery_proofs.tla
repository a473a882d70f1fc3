------------------------ MODULE AIJobDelivery_proofs ------------------------
(***************************************************************************)
(* What the deployed system guarantees for every number of jobs, workers,  *)
(* remote jobs, retries, lost processes and doubled dispatches.  First,    *)
(* that it changes jobs and allowance through the services only, so that   *)
(* every theorem of AIJobs_proofs holds of it; then what ties a job to the *)
(* remote job it is charged for (TieInv); and, as long as nothing was      *)
(* doubled, that a job has one dispatch at a time (SoleInv), so that no    *)
(* second one fails a job the first has handed to the AI service.          *)
(***************************************************************************)
EXTENDS AIJobDelivery, AIJobs_proofs

LEMMA ReportCallsService ==
  ASSUME NEW j \in Job, NEW s, ApplyReport(j, s)
  PROVE  Next \/ UNCHANGED vars
BY DEF ApplyReport, Next, ServiceStep

LEMMA AnswerCallsService ==
  ASSUME NEW w, NEW m, NEW follow, m.job \in Job,
         AfterAnswer(w, m, follow), running[w].pc = "accepted" => running[w].id \in ExternalId
  PROVE  Next \/ UNCHANGED vars
<1>1. CASE running[w].pc = "accepted" /\ StoreIdentifier(m.job, running[w].id)
  BY <1>1 DEF StoreIdentifier, Next, ServiceStep, Progress
<1>2. CASE UNCHANGED vars
  BY <1>2
<1>3. CASE GiveUp(m.job)
  BY <1>3 DEF GiveUp, Next, ServiceStep
<1> QED BY <1>1, <1>2, <1>3 DEF AfterAnswer

(* An accepted dispatch carries the identifier of a remote job that was
   created for the job it dispatches. *)
AnswerOwned(w) ==
  running[w].pc = "accepted" =>
    /\ running[w].id \in ExternalId
    /\ remote[running[w].id] # "none"
    /\ remoteFor[running[w].id] = running[w].message.job

AnswersOwned == \A w \in Worker : AnswerOwned(w)

WorkInv == DeliveryTypeOK /\ LedgerFinite /\ AnswersOwned

(* A worker that is not idle is at work on a message. *)
LEMMA AtWork ==
  ASSUME DeliveryTypeOK, NEW w \in Worker, running[w] # Idle
  PROVE  running[w] \in Execution /\ running[w].message \in Message
                                 /\ running[w].message.job \in Job
BY DEF DeliveryTypeOK, Execution, Message

LEMMA BusyNotIdle ==
  ASSUME NEW w \in Worker, running[w].pc # "idle" PROVE running[w] # Idle
BY DEF Idle

(* Whoever runs, jobs and allowance are changed by the services. *)
LEMMA ServicesOnly == WorkInv /\ [DeliveryNext]_deliveryVars => [Next]_vars
<1> SUFFICES ASSUME WorkInv, [DeliveryNext]_deliveryVars PROVE Next \/ UNCHANGED vars
  OBVIOUS
<1> USE DEF WorkInv
<1>1. CASE StudentStep
  BY <1>1 DEF StudentStep, Next, ServiceStep
<1>2. ASSUME NEW w \in Worker, DispatchStep(w) PROVE Next \/ UNCHANGED vars
  <2>1. CASE \E m \in broker : StartDispatch(w, m)
    BY <2>1 DEF StartDispatch
  <2>2. CASE (\E x \in ExternalId : RemoteAccepts(w, x)) \/ RemoteDeclines(w)
    BY <2>2 DEF RemoteAccepts, RemoteDeclines
  <2>3. CASE FinishDispatch(w)
    <3>1. running[w].message.job \in Job
      BY <2>3, AtWork, BusyNotIdle DEF FinishDispatch
    <3>2. PICK follow : AfterAnswer(w, running[w].message, follow)
      BY <2>3 DEF FinishDispatch
    <3>3. PICK m : m = running[w].message
      OBVIOUS
    <3>4. running[w].pc = "accepted" => running[w].id \in ExternalId
      BY DEF AnswersOwned, AnswerOwned
    <3> QED BY <3>1, <3>2, <3>3, <3>4, AnswerCallsService
  <2> QED BY <1>2, <2>1, <2>2, <2>3 DEF DispatchStep
<1>3. ASSUME NEW w \in Worker, WorkerLost(w) \/ Redeliver(w) PROVE UNCHANGED vars
  BY <1>3 DEF WorkerLost, Redeliver
<1>4. ASSUME NEW x \in ExternalId, CancelRemote(x) \/ RemoteWorks(x) PROVE UNCHANGED vars
  BY <1>4 DEF CancelRemote, RemoteWorks
<1>5. ASSUME NEW e \in events, DeliverWebhook(e) PROVE Next \/ UNCHANGED vars
  BY <1>5, ReportCallsService DEF DeliverWebhook
<1>6. ASSUME NEW j \in Job, RefreshRead(j) PROVE UNCHANGED vars
  BY <1>6 DEF RefreshRead
<1>7. ASSUME NEW j \in Job, RefreshApply(j) PROVE Next \/ UNCHANGED vars
  <2>1. PICK s : s = polled[j]
    OBVIOUS
  <2> QED BY <1>7, <2>1, ReportCallsService DEF RefreshApply
<1>8. CASE UNCHANGED deliveryVars
  BY <1>8 DEF deliveryVars
<1> QED BY <1>1, <1>2, <1>3, <1>4, <1>5, <1>6, <1>7, <1>8 DEF DeliveryNext

-----------------------------------------------------------------------------
(* What on_commit sends are well-typed messages. *)
LEMMA MessagesType ==
  ASSUME DeliveryTypeOK, TypeOK', MessagesSent \/ MessagesLost
  PROVE  broker' \subseteq Message /\ cancelQueue' \subseteq ExternalId
                                  /\ lostSends' \subseteq Job
<1>1. NewDispatches \subseteq Job /\ NewCancels \subseteq ExternalId
  BY DEF NewDispatches, NewCancels, TypeOK
<1>2. {[job |-> j, attempt |-> 0] : j \in NewDispatches} \subseteq Message
  BY <1>1, DeliveryAssumption DEF Message
<1> QED BY <1>1, <1>2 DEF MessagesSent, MessagesLost, DeliveryTypeOK

(* The bound on faults keeps both counters in range. *)
LEMMA FaultsType ==
  ASSUME DeliveryTypeOK
  PROVE  /\ ProcessLost => crashes' \in 0..MaxFaults
         /\ DispatchDoubled => redeliveries' \in 0..MaxFaults
BY DeliveryAssumption DEF DeliveryTypeOK, ProcessLost, DispatchDoubled, FaultLeft

(* The parts of DeliveryTypeOK about the queue and the faults. *)
QueueTypeOK ==
  /\ broker \subseteq Message
  /\ running \in [Worker -> Execution \cup {Idle}]
  /\ cancelQueue \subseteq ExternalId
  /\ lostSends \subseteq Job
  /\ crashes \in 0..MaxFaults
  /\ redeliveries \in 0..MaxFaults

(* The parts about the AI service and what it reported. *)
RemoteTypeOK ==
  /\ remote \in [ExternalId -> RemoteStatus]
  /\ remoteFor \in [ExternalId -> Job]
  /\ events \subseteq Event
  /\ processed \subseteq events
  /\ polled \in [Job -> RemoteStatus]

LEMMA QueueTypeStep ==
  ASSUME WorkInv, TypeOK', DeliveryNext
  PROVE  QueueTypeOK'
<1> USE DEF WorkInv
<1>0. QueueTypeOK
  BY DEF DeliveryTypeOK, QueueTypeOK
<1>1. CASE StudentStep
  <2>1. SendCommitted /\ UNCHANGED <<running, redeliveries>>
    BY <1>1 DEF StudentStep
  <2> QED BY <1>0, <2>1, MessagesType, FaultsType DEF SendCommitted, QueueTypeOK
<1>2. ASSUME NEW w \in Worker, NEW m \in broker, StartDispatch(w, m) PROVE QueueTypeOK'
  <2>1. [pc |-> "calling", message |-> m, id |-> NoExternalId] \in Execution
    BY <1>0 DEF QueueTypeOK, Execution, Pc
  <2> QED BY <1>0, <1>2, <2>1 DEF StartDispatch, QueueTypeOK, faultVars
<1>3. ASSUME NEW w \in Worker, running[w].pc = "calling",
             NEW pc \in Pc, NEW x \in ExternalId \cup {NoExternalId}, Answer(w, pc, x)
      PROVE  running' \in [Worker -> Execution \cup {Idle}]
  <2>1. running[w] \in Execution
    BY <1>3, AtWork, BusyNotIdle
  <2>2. [running[w] EXCEPT !.pc = pc, !.id = x] \in Execution
    BY <1>3, <2>1 DEF Execution
  <2> QED BY <1>0, <1>3, <2>2 DEF Answer, QueueTypeOK
<1>4. ASSUME NEW w \in Worker, NEW x \in ExternalId, RemoteAccepts(w, x) PROVE QueueTypeOK'
  <2>1. running' \in [Worker -> Execution \cup {Idle}]
    BY <1>3, <1>4 DEF RemoteAccepts, Pc
  <2> QED BY <1>0, <1>4, <2>1 DEF RemoteAccepts, QueueTypeOK, faultVars
<1>5. ASSUME NEW w \in Worker, RemoteDeclines(w) PROVE QueueTypeOK'
  <2>1. running' \in [Worker -> Execution \cup {Idle}]
    BY <1>3, <1>5 DEF RemoteDeclines, Pc
  <2> QED BY <1>0, <1>5, <2>1 DEF RemoteDeclines, QueueTypeOK, faultVars
<1>6. ASSUME NEW w \in Worker, FinishDispatch(w) PROVE QueueTypeOK'
  <2> DEFINE m == running[w].message
  <2>1. m \in Message
    BY <1>6, AtWork, BusyNotIdle DEF FinishDispatch
  <2>2. PICK follow :
          /\ AfterAnswer(w, m, follow)
          /\ \/ broker' = broker \cup follow /\ UNCHANGED faultVars
             \/ /\ broker' = broker \cup follow \cup {m}
                /\ \/ ProcessLost /\ UNCHANGED redeliveries
                   \/ DispatchDoubled /\ UNCHANGED crashes
    BY <1>6 DEF FinishDispatch
  <2>3. follow \subseteq Message
    <3>1. CASE follow = {}
      BY <3>1
    <3>2. CASE ~LastAttempt(m) /\ follow = {[m EXCEPT !.attempt = @ + 1]}
      BY <2>1, <3>2, DeliveryAssumption DEF LastAttempt, Message
    <3> HIDE DEF m
    <3> QED BY <2>2, <3>1, <3>2 DEF AfterAnswer
  <2>4. broker' \subseteq Message
    BY <1>0, <2>1, <2>2, <2>3 DEF QueueTypeOK
  <2>5. running' \in [Worker -> Execution \cup {Idle}]
    BY <1>0, <1>6 DEF FinishDispatch, QueueTypeOK
  <2>6. crashes' \in 0..MaxFaults /\ redeliveries' \in 0..MaxFaults
    BY <1>0, <2>2, FaultsType DEF QueueTypeOK, faultVars
  <2> QED BY <1>0, <1>6, <2>4, <2>5, <2>6 DEF FinishDispatch, QueueTypeOK
<1>7. ASSUME NEW w \in Worker, WorkerLost(w) \/ Redeliver(w) PROVE QueueTypeOK'
  <2>1. running[w].message \in Message
    BY <1>7, AtWork DEF WorkerLost, Redeliver
  <2> QED BY <1>0, <1>7, <2>1, FaultsType DEF WorkerLost, Redeliver, QueueTypeOK
<1>8. ASSUME NEW x \in ExternalId, CancelRemote(x) \/ RemoteWorks(x) PROVE QueueTypeOK'
  BY <1>0, <1>8 DEF CancelRemote, RemoteWorks, QueueTypeOK, queueVars, faultVars
<1>9. ASSUME NEW e \in events, DeliverWebhook(e) PROVE QueueTypeOK'
  BY <1>0, <1>9, MessagesType, FaultsType DEF DeliverWebhook, QueueTypeOK
<1>10. ASSUME NEW j \in Job, RefreshRead(j) PROVE QueueTypeOK'
  BY <1>0, <1>10 DEF RefreshRead, QueueTypeOK, queueVars, faultVars
<1>11. ASSUME NEW j \in Job, RefreshApply(j) PROVE QueueTypeOK'
  <2>1. SendCommitted /\ UNCHANGED <<running, redeliveries>>
    BY <1>11 DEF RefreshApply
  <2> QED BY <1>0, <2>1, MessagesType, FaultsType DEF SendCommitted, QueueTypeOK
<1> QED BY <1>1, <1>2, <1>4, <1>5, <1>6, <1>7, <1>8, <1>9, <1>10, <1>11
        DEF DeliveryNext, DispatchStep

(* What the AI service has started or finished stays so, and an event stays
   emitted. *)
RemoteGrows ==
  /\ \A x \in ExternalId : remote[x] # "none" =>
       /\ remoteFor'[x] = remoteFor[x]
       /\ remote'[x] # "none"
       /\ remote[x] \in Finished => remote'[x] = remote[x]
  /\ events \subseteq events'

LEMMA RemoteTypeStep ==
  ASSUME WorkInv, DeliveryNext
  PROVE  RemoteTypeOK' /\ RemoteGrows
<1> USE DEF WorkInv
<1>0. RemoteTypeOK
  BY DEF DeliveryTypeOK, RemoteTypeOK
<1>1. ASSUME UNCHANGED <<remoteVars, processed, polled>> PROVE RemoteTypeOK' /\ RemoteGrows
  BY <1>0, <1>1 DEF RemoteTypeOK, RemoteGrows, remoteVars
<1>2. ASSUME NEW w \in Worker, NEW x \in ExternalId, RemoteAccepts(w, x)
      PROVE  RemoteTypeOK' /\ RemoteGrows
  <2>1. running[w].message.job \in Job
    BY <1>2, AtWork, BusyNotIdle DEF RemoteAccepts
  <2>2. RemoteTypeOK'
    BY <1>0, <1>2, <2>1 DEF RemoteAccepts, RemoteTypeOK, RemoteStatus, Progress
  <2>3. RemoteGrows
    BY <1>0, <1>2 DEF RemoteAccepts, RemoteTypeOK, RemoteGrows
  <2> QED BY <2>2, <2>3
<1>3. ASSUME NEW x \in ExternalId, remote[x] \in Progress,
             NEW s \in RemoteStatus \ {"none"}, remote' = [remote EXCEPT ![x] = s],
             events' = events \cup {<<x, s>>},
             UNCHANGED <<remoteFor, processed, polled>>
      PROVE  RemoteTypeOK' /\ RemoteGrows
  <2>1. RemoteTypeOK'
    BY <1>0, <1>3 DEF RemoteTypeOK, Event
  <2>2. RemoteGrows
    BY <1>0, <1>3 DEF RemoteTypeOK, RemoteGrows, Progress, Finished
  <2> QED BY <2>1, <2>2
<1>4. ASSUME NEW x \in ExternalId, CancelRemote(x) PROVE RemoteTypeOK' /\ RemoteGrows
  <2>1. CASE UNCHANGED <<remote, events>>
    BY <1>1, <1>4, <2>1 DEF CancelRemote, remoteVars
  <2>2. CASE remote[x] \in Progress
    BY <1>1, <1>3, <1>4, <2>2 DEF CancelRemote, RemoteStatus, Finished, remoteVars
  <2> QED BY <1>4, <2>1, <2>2 DEF CancelRemote
<1>5. ASSUME NEW x \in ExternalId, RemoteWorks(x) PROVE RemoteTypeOK' /\ RemoteGrows
  <2>1. PICK s \in Finished \cup (ReportedProgress \cap ProgressFrom(remote[x])) :
          /\ remote' = [remote EXCEPT ![x] = s]
          /\ events' = events \cup {<<x, s>>}
    BY <1>5 DEF RemoteWorks
  <2>2. s \in RemoteStatus \ {"none"}
    BY <2>1, DeliveryAssumption DEF RemoteStatus, Finished, Progress
  <2> QED BY <1>3, <1>5, <2>1, <2>2 DEF RemoteWorks
<1>6. ASSUME NEW e \in events, DeliverWebhook(e) PROVE RemoteTypeOK' /\ RemoteGrows
  BY <1>0, <1>6 DEF DeliverWebhook, RemoteTypeOK, RemoteGrows, remoteVars
<1>7. ASSUME NEW j \in Job, RefreshRead(j) PROVE RemoteTypeOK' /\ RemoteGrows
  <2>1. externalId[j] \in ExternalId
    BY <1>7 DEF RefreshRead, DeliveryTypeOK, TypeOK
  <2>2. RemoteTypeOK'
    BY <1>0, <1>7, <2>1 DEF RefreshRead, RemoteTypeOK, remoteVars
  <2> QED BY <1>7, <2>2 DEF RefreshRead, RemoteGrows, remoteVars
<1>8. ASSUME NEW j \in Job, RefreshApply(j) PROVE RemoteTypeOK' /\ RemoteGrows
  <2>1. polled' = [polled EXCEPT ![j] = "none"] /\ UNCHANGED <<remoteVars, processed>>
    BY <1>8 DEF RefreshApply
  <2> QED BY <1>0, <2>1 DEF RemoteTypeOK, RemoteGrows, remoteVars, RemoteStatus
<1> QED BY <1>1, <1>2, <1>4, <1>5, <1>6, <1>7, <1>8
        DEF DeliveryNext, StudentStep, DispatchStep, StartDispatch, RemoteDeclines,
            FinishDispatch, WorkerLost, Redeliver

LEMMA AnswersStep ==
  ASSUME WorkInv, DeliveryNext
  PROVE  AnswersOwned'
<1> USE DEF WorkInv
<1>0. RemoteGrows /\ RemoteTypeOK /\ running \in [Worker -> Execution \cup {Idle}]
  BY RemoteTypeStep DEF DeliveryTypeOK, RemoteTypeOK
<1>1. ASSUME NEW w \in Worker, running'[w] = running[w] PROVE AnswerOwned(w)'
  BY <1>0, <1>1 DEF AnswersOwned, AnswerOwned, RemoteGrows
<1>2. ASSUME NEW w \in Worker, running'[w].pc # "accepted" PROVE AnswerOwned(w)'
  BY <1>2 DEF AnswerOwned
<1>3. ASSUME UNCHANGED running PROVE AnswersOwned'
  BY <1>1, <1>3 DEF AnswersOwned
<1>4. ASSUME NEW w \in Worker, \A v \in Worker \ {w} : running'[v] = running[v],
             running'[w].pc # "accepted" \/ AnswerOwned(w)'
      PROVE  AnswersOwned'
  BY <1>1, <1>2, <1>4 DEF AnswersOwned
<1>5. ASSUME NEW w \in Worker, NEW m \in broker, StartDispatch(w, m) PROVE AnswersOwned'
  <2>1. \A v \in Worker \ {w} : running'[v] = running[v]
    BY <1>0, <1>5 DEF StartDispatch
  <2>2. running'[w].pc # "accepted"
    BY <1>0, <1>5 DEF StartDispatch, Idle
  <2> QED BY <1>4, <2>1, <2>2
<1>6. ASSUME NEW w \in Worker, NEW x \in ExternalId, RemoteAccepts(w, x) PROVE AnswersOwned'
  <2>1. \A v \in Worker \ {w} : running'[v] = running[v]
    BY <1>0, <1>6 DEF RemoteAccepts, Answer
  <2>2. running[w] \in Execution
    BY <1>6, AtWork, BusyNotIdle DEF RemoteAccepts
  <2>3. /\ remote'[x] = "submitted"
        /\ remoteFor'[x] = running[w].message.job
    BY <1>0, <1>6 DEF RemoteAccepts, RemoteTypeOK
  <2>4. running'[w].pc # "accepted" \/
          (running'[w].id = x /\ running'[w].message = running[w].message)
    <3>1. \A pc, y : Answer(w, pc, y) =>
            /\ running'[w].pc = pc /\ running'[w].id = y
            /\ running'[w].message = running[w].message
      BY <1>0, <2>2 DEF Answer, Execution
    <3> QED BY <1>6, <3>1 DEF RemoteAccepts
  <2>5. running'[w].pc # "accepted" \/ AnswerOwned(w)'
    BY <2>3, <2>4 DEF AnswerOwned
  <2> QED BY <1>4, <2>1, <2>5
<1>7. ASSUME NEW w \in Worker, RemoteDeclines(w) PROVE AnswersOwned'
  <2>1. \A v \in Worker \ {w} : running'[v] = running[v]
    BY <1>0, <1>7 DEF RemoteDeclines, Answer
  <2>2. running[w] \in Execution
    BY <1>7, AtWork, BusyNotIdle DEF RemoteDeclines
  <2>3. running'[w].pc # "accepted"
    BY <1>0, <1>7, <2>2 DEF RemoteDeclines, Answer, Execution
  <2> QED BY <1>4, <2>1, <2>3
<1>8. ASSUME NEW w \in Worker, running' = [running EXCEPT ![w] = Idle] PROVE AnswersOwned'
  <2>1. \A v \in Worker \ {w} : running'[v] = running[v]
    BY <1>0, <1>8
  <2>2. running'[w].pc # "accepted"
    BY <1>0, <1>8 DEF Idle
  <2> QED BY <1>4, <2>1, <2>2
<1> QED BY <1>3, <1>5, <1>6, <1>7, <1>8
        DEF DeliveryNext, DispatchStep, StudentStep, FinishDispatch, WorkerLost, Redeliver,
            CancelRemote, RemoteWorks, queueVars, DeliverWebhook, RefreshRead, RefreshApply

LEMMA WorkStep == WorkInv /\ [DeliveryNext]_deliveryVars => WorkInv'
<1> SUFFICES ASSUME WorkInv, [DeliveryNext]_deliveryVars PROVE WorkInv'
  OBVIOUS
<1>1. TypeOK' /\ LedgerFinite'
  BY ServicesOnly, TypeStep DEF WorkInv, DeliveryTypeOK, TypeInv
<1>2. CASE DeliveryNext
  BY <1>1, <1>2, QueueTypeStep, RemoteTypeStep, AnswersStep
     DEF WorkInv, DeliveryTypeOK, QueueTypeOK, RemoteTypeOK
<1>3. CASE UNCHANGED deliveryVars
  BY <1>1, <1>3 DEF deliveryVars, queueVars, remoteVars, faultVars, WorkInv,
                    DeliveryTypeOK, AnswersOwned, AnswerOwned
<1> QED BY <1>2, <1>3

LEMMA WorkInit == DeliveryInit => WorkInv
<1> SUFFICES ASSUME DeliveryInit PROVE WorkInv
  OBVIOUS
<1>1. TypeOK /\ LedgerFinite
  BY TypeInit DEF DeliveryInit, TypeInv
<1>2. (CHOOSE j \in Job : TRUE) \in Job
  BY DeliveryAssumption
<1>3. DeliveryTypeOK
  BY <1>1, <1>2, DeliveryAssumption DEF DeliveryInit, DeliveryTypeOK, RemoteStatus
<1>4. AnswersOwned
  BY DEF DeliveryInit, AnswersOwned, AnswerOwned, Idle
<1> QED BY <1>1, <1>3, <1>4 DEF WorkInv

LEMMA Working == DeliverySpec => []WorkInv
BY WorkInit, WorkStep, PTL DEF DeliverySpec

(* Every reachable state of the deployed system has the declared types. *)
THEOREM DeliveryTypeCorrect == DeliverySpec => []DeliveryTypeOK
<1>1. WorkInv => DeliveryTypeOK
  BY DEF WorkInv
<1> QED BY <1>1, Working, PTL

(* The deployed system changes jobs and allowance through the services of
   AIJobs only. *)
THEOREM DeliveryImplementsServices == DeliverySpec => CallsOnlyServices
<1>1. DeliveryInit => Init
  BY DEF DeliveryInit
<1> QED BY <1>1, ServicesOnly, Working, PTL DEF DeliverySpec, CallsOnlyServices, Spec

(* So credits keep their promise whatever the queue loses or repeats and in
   whatever order the AI service reports. *)
THEOREM DeliveryKeepsCreditPromise == DeliverySpec => CreditPromise
BY DeliveryImplementsServices, CreditsKeepTheirPromise DEF CallsOnlyServices

(* And so do the ledger, the rows and the counters: each job is settled in one
   way and for good, no request is doubled, the usage rows are the replay of
   the ledger and the plan is honoured in every month no refund has crossed
   into, under any loss, repetition or delay of messages. *)
THEOREM DeliveryKeepsAccounts ==
  DeliverySpec =>
    /\ []CreditsFollowOutcome /\ []OutcomeShownOnce /\ []OneJobPerRequest
    /\ []ProjectionIsReplay
    /\ SettledJobsFrozen /\ PlanHonouredInOwnMonth
BY DeliveryImplementsServices, CreditsCorrect, OutcomeCorrect, RequestsNotDoubled,
   ReplayCorrect, SettledStaysSettled, PlanKept, PTL DEF CallsOnlyServices

LEMMA DeliveryInductive == DeliverySpec => []IInv
BY DeliveryImplementsServices, Inductive DEF CallsOnlyServices

-----------------------------------------------------------------------------
(* A service call never replaces an identifier nor moves a settled job. *)
LEMMA RowsStable ==
  ASSUME IInv, [Next]_vars, NEW j \in Job
  PROVE  /\ externalId[j] # NoExternalId => externalId'[j] = externalId[j]
         /\ status[j] \in Terminal => status'[j] = status[j]
<1> USE DEF IInv, TypeInv, TypeOK
<1>1. ASSUME NEW i \in Job, NEW next \in Progress, NEW x \in ExternalId \cup {NoExternalId},
             UpdateJobProgress(i, next, x), externalId[j] # NoExternalId
      PROVE  externalId'[j] = externalId[j]
  <2>1. CASE x = NoExternalId \/ i # j
    BY <1>1, <2>1 DEF UpdateJobProgress
  <2>2. CASE x # NoExternalId /\ i = j
    <3>1. next = "submitted" /\ Live(j) /\ next \in ProgressFrom(status[j])
      BY <1>1, <2>2 DEF UpdateJobProgress
    <3>2. status[j] = "queued"
      BY <3>1 DEF ProgressFrom, Live, Exists, Terminal, Status, Progress
    <3> QED BY <1>1, <3>2 DEF RowsFresh
  <2> QED BY <2>1, <2>2
<1>2. externalId[j] # NoExternalId => externalId'[j] = externalId[j]
  BY <1>1 DEF Next, CreateStep, BeginCreate, AbortCreate, FinishCreate, ServiceStep, FailJob,
              CompleteJob, CancelJob, AllowanceStep, jobVars, vars
<1>3. status[j] \in Terminal => status'[j] = status[j]
  BY SettledFrozenStep DEF FrozenStep
<1> QED BY <1>2, <1>3

(* The first identifier stored is the job's for good. *)
THEOREM IdentifierKept == DeliverySpec => IdentifierStable
<1>1. IInv /\ WorkInv /\ [DeliveryNext]_deliveryVars =>
        [\A j \in Job : externalId[j] # NoExternalId
           => externalId'[j] = externalId[j]]_deliveryVars
  BY RowsStable, ServicesOnly
<1> QED BY <1>1, Working, DeliveryInductive, PTL DEF DeliverySpec, IdentifierStable

-----------------------------------------------------------------------------
(* What ties a job to the remote job it is charged for: a stored identifier
   is a remote job created for it, an event or an answer that says a remote
   job finished is true, and an event is marked only once its job has the
   identifier. *)
IdsOwned ==
  \A j \in Job : externalId[j] # NoExternalId =>
    remote[externalId[j]] # "none" /\ remoteFor[externalId[j]] = j

EventsTrue ==
  \A e \in events : remote[e[1]] # "none" /\ (e[2] \in Finished => remote[e[1]] = e[2])

PolledTrue ==
  \A j \in Job : polled[j] \in Finished =>
    externalId[j] # NoExternalId /\ remote[externalId[j]] = polled[j]

ProcessedStored == \A e \in processed : externalId[remoteFor[e[1]]] = e[1]

TieInv ==
  /\ IInv /\ WorkInv
  /\ IdsOwned /\ EventsTrue /\ PolledTrue /\ ProcessedStored
  /\ ChargedForWork /\ ProcessedTookEffect /\ CancelOnlyCanceled

(* A step of the running system that calls the services, seen from TieInv. *)
LEMMA TieFacts ==
  ASSUME TieInv, DeliveryNext
  PROVE  /\ RemoteGrows /\ RemoteTypeOK /\ RemoteTypeOK'
         /\ \A j \in Job :
              /\ externalId[j] # NoExternalId => externalId'[j] = externalId[j]
              /\ status[j] \in Terminal => status'[j] = status[j]
         /\ NoExternalId \notin ExternalId
         /\ externalId \in [Job -> ExternalId \cup {NoExternalId}]
BY RemoteTypeStep, RowsStable, ServicesOnly, JobAssumption
   DEF TieInv, WorkInv, DeliveryTypeOK, TypeOK, RemoteTypeOK

(* Applying a report changes no identifier, completes only on "completed", and
   settles the job whenever the report says the remote job finished. *)
LEMMA ReportEffect ==
  ASSUME TypeOK, NEW j \in Job, NEW s \in RemoteStatus, ApplyReport(j, s)
  PROVE  /\ externalId' = externalId
         /\ \A i \in Job : status'[i] # status[i] /\ status'[i] = "completed"
                             => i = j /\ s = "completed"
         /\ s \in Finished => status'[j] \in Terminal
         /\ cancelSent' = cancelSent \/ CancelJob(j)
<1> USE DEF TypeOK
<1>1. CASE s = "completed" /\ CompleteJob(j)
  BY <1>1 DEF CompleteJob, Terminal
<1>2. CASE s = "failed" /\ FailJob(j)
  BY <1>2 DEF FailJob, Terminal
<1>3. CASE s = "canceled" /\ CancelJob(j)
  BY <1>3 DEF CancelJob, Terminal
<1>4. CASE s \in Progress /\ UpdateJobProgress(j, s, NoExternalId)
  BY <1>4 DEF UpdateJobProgress, Progress, Finished
<1>5. CASE Ignored(j, s) /\ UNCHANGED vars
  BY <1>5 DEF Ignored, vars, jobVars, Progress, Finished
<1> QED BY <1>1, <1>2, <1>3, <1>4, <1>5 DEF ApplyReport

(* An identifier appears only from an accepted dispatch of that very job. *)
LEMMA NewIdentifier ==
  ASSUME TieInv, DeliveryNext, NEW j \in Job, externalId'[j] # externalId[j]
  PROVE  /\ externalId[j] = NoExternalId
         /\ externalId'[j] \in ExternalId
         /\ remote[externalId'[j]] # "none"
         /\ remoteFor[externalId'[j]] = j
         /\ processed' = processed
<1> USE DEF TieInv, WorkInv, DeliveryTypeOK, TypeOK
<1>1. externalId[j] = NoExternalId
  BY TieFacts
<1>2. ASSUME UNCHANGED externalId PROVE FALSE
  BY <1>2
<1>3. ASSUME NEW w \in Worker, FinishDispatch(w)
      PROVE  /\ externalId'[j] = running[w].id /\ running[w].message.job = j
             /\ running[w].pc = "accepted" /\ processed' = processed
  <2> DEFINE m == running[w].message
  <2>1. \/ running[w].pc = "accepted" /\ StoreIdentifier(m.job, running[w].id)
        \/ UNCHANGED vars
        \/ GiveUp(m.job)
    BY <1>3 DEF FinishDispatch, AfterAnswer
  <2>2. CASE running[w].pc = "accepted" /\ StoreIdentifier(m.job, running[w].id)
    <3>1. running[w].id \in ExternalId
      BY <2>2 DEF AnswersOwned, AnswerOwned
    <3>2. running[w].message.job \in Job
      BY <2>2, AtWork, BusyNotIdle
    <3>3. externalId' = [externalId EXCEPT ![m.job] = running[w].id]
      BY <1>2, <2>2, <3>1, JobAssumption
         DEF StoreIdentifier, UpdateJobProgress, vars, jobVars
    <3>4. m.job = j
      BY <3>3
    <3> QED BY <1>3, <2>2, <3>2, <3>3, <3>4 DEF FinishDispatch
  <2>3. CASE UNCHANGED vars
    BY <1>2, <2>3 DEF vars, jobVars
  <2>4. CASE GiveUp(m.job)
    BY <1>2, <2>4 DEF GiveUp, FailJob, vars, jobVars
  <2> QED BY <2>1, <2>2, <2>3, <2>4
<1>4. ASSUME NEW w \in Worker, FinishDispatch(w)
      PROVE  /\ externalId'[j] \in ExternalId
             /\ remote[externalId'[j]] # "none"
             /\ remoteFor[externalId'[j]] = j
             /\ processed' = processed
  BY <1>3, <1>4 DEF AnswersOwned, AnswerOwned
<1>5. ASSUME NEW e \in events, DeliverWebhook(e) PROVE FALSE
  BY <1>2, <1>5 DEF DeliverWebhook, ApplyReport, CompleteJob, FailJob, CancelJob,
                    UpdateJobProgress, vars, jobVars
<1>6. ASSUME NEW i \in Job, RefreshApply(i) PROVE FALSE
  BY <1>2, <1>6 DEF RefreshApply, ApplyReport, CompleteJob, FailJob, CancelJob,
                    UpdateJobProgress, vars, jobVars
<1>7. ASSUME StudentStep PROVE FALSE
  BY <1>2, <1>7 DEF StudentStep, CreateStep, BeginCreate, AbortCreate, FinishCreate,
                    CancelJob, AllowanceStep, jobVars
<1>8. ASSUME UNCHANGED vars PROVE FALSE
  BY <1>2, <1>8 DEF vars, jobVars
<1> QED BY <1>1, <1>4, <1>5, <1>6, <1>7, <1>8
        DEF DeliveryNext, DispatchStep, StartDispatch, RemoteAccepts, RemoteDeclines,
            WorkerLost, Redeliver, CancelRemote, RemoteWorks, RefreshRead

(* A job completes only on a report that its own remote job completed. *)
LEMMA NewlyCompleted ==
  ASSUME TieInv, DeliveryNext, NEW j \in Job,
         status'[j] # status[j], status'[j] = "completed"
  PROVE  externalId[j] # NoExternalId /\ remote[externalId[j]] = "completed"
<1> USE DEF TieInv, WorkInv, DeliveryTypeOK, TypeOK
<1>1. ASSUME UNCHANGED status PROVE FALSE
  BY <1>1
<1>2. ASSUME NEW e \in events, DeliverWebhook(e)
      PROVE  externalId[j] # NoExternalId /\ remote[externalId[j]] = "completed"
  <2>1. PICK i \in Job : externalId[i] = e[1] /\ ApplyReport(i, e[2])
    BY <1>2 DEF DeliverWebhook
  <2>2. e[1] \in ExternalId /\ e[2] \in RemoteStatus
    BY DEF Event
  <2>3. i = j /\ e[2] = "completed"
    BY <2>1, <2>2, ReportEffect
  <2> QED BY <2>1, <2>2, <2>3, JobAssumption DEF EventsTrue, Finished
<1>3. ASSUME NEW i \in Job, RefreshApply(i)
      PROVE  externalId[j] # NoExternalId /\ remote[externalId[j]] = "completed"
  <2>1. ApplyReport(i, polled[i])
    BY <1>1, <1>3 DEF RefreshApply, vars, jobVars
  <2>2. PICK s \in RemoteStatus : s = polled[i]
    OBVIOUS
  <2>3. i = j /\ s = "completed"
    BY <2>1, <2>2, ReportEffect
  <2> QED BY <2>2, <2>3 DEF PolledTrue, Finished
<1>4. ASSUME NEW w \in Worker, FinishDispatch(w) PROVE FALSE
  <2>1. PICK i \in Job : i = running[w].message.job
    BY <1>4, AtWork, BusyNotIdle DEF FinishDispatch
  <2> QED BY <1>1, <1>4, <2>1 DEF FinishDispatch, AfterAnswer, StoreIdentifier, GiveUp,
                    UpdateJobProgress, FailJob, vars, jobVars
<1>5. ASSUME StudentStep PROVE FALSE
  BY <1>1, <1>5 DEF StudentStep, CreateStep, BeginCreate, AbortCreate, FinishCreate,
                    CancelJob, AllowanceStep, jobVars
<1>6. ASSUME UNCHANGED vars PROVE FALSE
  BY <1>1, <1>6 DEF vars, jobVars
<1> QED BY <1>2, <1>3, <1>4, <1>5, <1>6
        DEF DeliveryNext, DispatchStep, StartDispatch, RemoteAccepts, RemoteDeclines,
            WorkerLost, Redeliver, CancelRemote, RemoteWorks, RefreshRead

(* Identifiers the AI service was asked to stop are those of canceled jobs. *)
LEMMA NewlyStopped ==
  ASSUME TieInv, DeliveryNext, NEW x \in cancelSent', x \notin cancelSent
  PROVE  \E j \in Job : externalId[j] = x /\ externalId[j] # NoExternalId
                        /\ status'[j] = "canceled"
<1> USE DEF TieInv, WorkInv, DeliveryTypeOK, TypeOK
<1>1. ASSUME UNCHANGED cancelSent PROVE FALSE
  BY <1>1
<1>2. ASSUME NEW j \in Job, CancelJob(j)
      PROVE  externalId[j] = x /\ externalId[j] # NoExternalId /\ status'[j] = "canceled"
  BY <1>2 DEF CancelJob
<1>3. ASSUME StudentStep PROVE \E j \in Job : CancelJob(j)
  BY <1>1, <1>3 DEF StudentStep, CreateStep, BeginCreate, AbortCreate, FinishCreate,
                    AllowanceStep, jobVars
<1>4. ASSUME NEW e \in events, DeliverWebhook(e) PROVE \E j \in Job : CancelJob(j)
  <2>1. PICK i \in Job : ApplyReport(i, e[2])
    BY <1>4 DEF DeliverWebhook
  <2>2. e[2] \in RemoteStatus
    BY DEF Event
  <2> QED BY <1>1, <2>1, <2>2, ReportEffect
<1>5. ASSUME NEW i \in Job, RefreshApply(i) PROVE \E j \in Job : CancelJob(j)
  <2>1. ApplyReport(i, polled[i])
    BY <1>1, <1>5 DEF RefreshApply, vars, jobVars
  <2>2. PICK s \in RemoteStatus : s = polled[i]
    OBVIOUS
  <2> QED BY <1>1, <2>1, <2>2, ReportEffect
<1>6. ASSUME NEW w \in Worker, FinishDispatch(w) PROVE FALSE
  BY <1>1, <1>6 DEF FinishDispatch, AfterAnswer, StoreIdentifier, GiveUp,
                    UpdateJobProgress, FailJob, vars, jobVars
<1>7. ASSUME UNCHANGED vars PROVE FALSE
  BY <1>1, <1>7 DEF vars, jobVars
<1> QED BY <1>2, <1>3, <1>4, <1>5, <1>6, <1>7
        DEF DeliveryNext, DispatchStep, StartDispatch, RemoteAccepts, RemoteDeclines,
            WorkerLost, Redeliver, CancelRemote, RemoteWorks, RefreshRead

LEMMA EventsTrueStep == ASSUME TieInv, DeliveryNext PROVE EventsTrue'
<1> USE DEF TieInv
<1>0. RemoteGrows /\ RemoteTypeOK
  BY TieFacts
<1>1. ASSUME UNCHANGED events PROVE EventsTrue'
  BY <1>0, <1>1 DEF EventsTrue, RemoteGrows, RemoteTypeOK, Event
<1>2. ASSUME NEW x \in ExternalId, NEW s \in RemoteStatus \ {"none"},
             remote' = [remote EXCEPT ![x] = s], events' = events \cup {<<x, s>>}
      PROVE  EventsTrue'
  BY <1>0, <1>2 DEF EventsTrue, RemoteGrows, RemoteTypeOK, Event
<1>3. ASSUME NEW x \in ExternalId, CancelRemote(x) PROVE EventsTrue'
  BY <1>1, <1>2, <1>3 DEF CancelRemote, RemoteStatus, Finished
<1>4. ASSUME NEW x \in ExternalId, RemoteWorks(x) PROVE EventsTrue'
  <2>1. PICK s \in Finished \cup (ReportedProgress \cap ProgressFrom(remote[x])) :
          /\ remote' = [remote EXCEPT ![x] = s]
          /\ events' = events \cup {<<x, s>>}
    BY <1>4 DEF RemoteWorks
  <2>2. s \in RemoteStatus \ {"none"}
    BY <2>1, DeliveryAssumption DEF RemoteStatus, Finished, Progress
  <2> QED BY <1>2, <2>1, <2>2
<1> QED BY <1>1, <1>3, <1>4
        DEF DeliveryNext, DispatchStep, StudentStep, StartDispatch, RemoteAccepts,
            RemoteDeclines, FinishDispatch, WorkerLost, Redeliver, remoteVars,
            DeliverWebhook, RefreshRead, RefreshApply

LEMMA PolledTrueStep == ASSUME TieInv, DeliveryNext PROVE PolledTrue'
<1> USE DEF TieInv, RemoteTypeOK
<1>0. RemoteGrows /\ RemoteTypeOK
      /\ \A j \in Job : externalId[j] # NoExternalId => externalId'[j] = externalId[j]
      /\ externalId \in [Job -> ExternalId \cup {NoExternalId}]
  BY TieFacts
<1>1. ASSUME NEW j \in Job, polled'[j] = polled[j], polled'[j] \in Finished
      PROVE  externalId'[j] # NoExternalId /\ remote'[externalId'[j]] = polled'[j]
  BY <1>0, <1>1 DEF PolledTrue, RemoteGrows, Finished
<1>2. ASSUME UNCHANGED polled PROVE PolledTrue'
  BY <1>1, <1>2 DEF PolledTrue
<1>3. ASSUME NEW j \in Job, RefreshRead(j) PROVE PolledTrue'
  <2>1. UNCHANGED <<externalId, remote>> /\ externalId[j] # NoExternalId
    BY <1>3 DEF RefreshRead, vars, jobVars, remoteVars
  <2> QED BY <1>0, <1>3, <2>1 DEF RefreshRead, PolledTrue
<1>4. ASSUME NEW j \in Job, RefreshApply(j) PROVE PolledTrue'
  <2>1. polled'[j] \notin Finished
    BY <1>0, <1>4 DEF RefreshApply, Finished
  <2>2. \A i \in Job \ {j} : polled'[i] = polled[i]
    BY <1>0, <1>4 DEF RefreshApply
  <2> QED BY <1>1, <2>1, <2>2 DEF PolledTrue
<1> QED BY <1>2, <1>3, <1>4
        DEF DeliveryNext, DispatchStep, StudentStep, StartDispatch, RemoteAccepts,
            RemoteDeclines, FinishDispatch, WorkerLost, Redeliver, CancelRemote, RemoteWorks,
            DeliverWebhook

LEMMA IdsOwnedStep == ASSUME TieInv, DeliveryNext PROVE IdsOwned'
<1> SUFFICES ASSUME NEW j \in Job, externalId'[j] # NoExternalId
             PROVE  remote'[externalId'[j]] # "none" /\ remoteFor'[externalId'[j]] = j
  BY DEF IdsOwned
<1>1. CASE externalId'[j] = externalId[j]
  BY <1>1, TieFacts DEF TieInv, IdsOwned, RemoteGrows
<1>2. CASE externalId'[j] # externalId[j]
  BY <1>2, NewIdentifier, TieFacts DEF RemoteGrows
<1> QED BY <1>1, <1>2

(* An event newly marked processed was applied to the job whose identifier it
   names. *)
LEMMA NewlyProcessed ==
  ASSUME TieInv, DeliveryNext, NEW e \in processed', e \notin processed
  PROVE  /\ externalId' = externalId
         /\ \E j \in Job : /\ externalId[j] = e[1]
                           /\ e[2] \in Finished => status'[j] \in Terminal
<1> USE DEF TieInv, WorkInv, DeliveryTypeOK
<1>1. ASSUME UNCHANGED processed PROVE FALSE
  BY <1>1
<1>2. PICK d \in events : DeliverWebhook(d)
  BY <1>1 DEF DeliveryNext, DispatchStep, StudentStep, StartDispatch, RemoteAccepts,
              RemoteDeclines, FinishDispatch, WorkerLost, Redeliver, CancelRemote,
              RemoteWorks, RefreshRead, RefreshApply
<1>3. e = d
  BY <1>2 DEF DeliverWebhook
<1>4. PICK j \in Job : externalId[j] = e[1] /\ ApplyReport(j, e[2])
  BY <1>2, <1>3 DEF DeliverWebhook
<1>5. e[2] \in RemoteStatus
  BY <1>2, <1>3 DEF Event
<1> QED BY <1>4, <1>5, ReportEffect

LEMMA ProcessedStoredStep == ASSUME TieInv, DeliveryNext PROVE ProcessedStored'
<1> SUFFICES ASSUME NEW e \in processed'
             PROVE  externalId'[remoteFor'[e[1]]] = e[1]
  BY DEF ProcessedStored
<1> USE DEF TieInv
<1>0. e[1] \in ExternalId /\ e[1] # NoExternalId
  BY TieFacts DEF RemoteTypeOK, Event
<1>1. CASE e \in processed
  <2>1. externalId[remoteFor[e[1]]] = e[1] /\ remote[e[1]] # "none" /\ remoteFor[e[1]] \in Job
    BY <1>0, <1>1, TieFacts DEF ProcessedStored, EventsTrue, RemoteTypeOK
  <2>2. remoteFor'[e[1]] = remoteFor[e[1]]
    BY <1>0, <2>1, TieFacts DEF RemoteGrows
  <2> QED BY <1>0, <2>1, <2>2, TieFacts
<1>2. CASE e \notin processed
  <2>1. PICK j \in Job : externalId[j] = e[1] /\ externalId' = externalId
    BY <1>2, NewlyProcessed
  <2>2. remote[e[1]] # "none" /\ remoteFor[e[1]] = j
    BY <1>0, <2>1 DEF IdsOwned
  <2>3. remoteFor'[e[1]] = j
    BY <1>0, <2>2, TieFacts DEF RemoteGrows
  <2> QED BY <2>1, <2>3
<1> QED BY <1>1, <1>2

LEMMA ChargedStep == ASSUME TieInv, DeliveryNext PROVE ChargedForWork'
<1> SUFFICES ASSUME NEW j \in Job, status'[j] = "completed"
             PROVE  \E x \in ExternalId :
                      externalId'[j] = x /\ remoteFor'[x] = j /\ remote'[x] = "completed"
  BY DEF ChargedForWork
<1> USE DEF TieInv
<1>1. /\ externalId[j] \in ExternalId
      /\ remoteFor[externalId[j]] = j /\ remote[externalId[j]] = "completed"
  <2>1. CASE status[j] = "completed"
    BY <2>1 DEF ChargedForWork
  <2>2. CASE status[j] # "completed"
    BY <2>2, NewlyCompleted, TieFacts DEF IdsOwned
  <2> QED BY <2>1, <2>2
<1>2. externalId'[j] = externalId[j]
  BY <1>1, TieFacts
<1> QED BY <1>1, <1>2, TieFacts DEF RemoteGrows, Finished

LEMMA TookEffectStep == ASSUME TieInv, DeliveryNext PROVE ProcessedTookEffect'
<1> SUFFICES ASSUME NEW e \in processed', NEW j \in Job, externalId'[j] = e[1],
                    e[2] \in Finished
             PROVE  status'[j] \in Terminal
  BY DEF ProcessedTookEffect
<1> USE DEF TieInv
<1>0. e[1] \in ExternalId /\ e[1] # NoExternalId
  BY TieFacts DEF RemoteTypeOK, Event
<1>1. CASE e \in processed
  <2>1. externalId[j] = e[1]
    <3>1. CASE externalId'[j] = externalId[j]
      BY <3>1
    <3>2. CASE externalId'[j] # externalId[j]
      BY <1>1, <3>2, NewIdentifier DEF ProcessedStored
    <3> QED BY <3>1, <3>2
  <2> QED BY <1>1, <2>1, TieFacts DEF ProcessedTookEffect
<1>2. CASE e \notin processed
  <2>1. PICK i \in Job : /\ externalId' = externalId /\ externalId[i] = e[1]
                        /\ status'[i] \in Terminal
    BY <1>2, NewlyProcessed
  <2>2. i = j
    BY <1>0, <2>1 DEF IdsOwned
  <2> QED BY <2>1, <2>2
<1> QED BY <1>1, <1>2

LEMMA StoppedStep == ASSUME TieInv, DeliveryNext PROVE CancelOnlyCanceled'
<1> SUFFICES ASSUME NEW x \in cancelSent'
             PROVE  status'[remoteFor'[x]] = "canceled" /\ externalId'[remoteFor'[x]] = x
  BY DEF CancelOnlyCanceled
<1> USE DEF TieInv
<1>1. PICK j \in Job : /\ externalId[j] = x /\ x # NoExternalId
                      /\ status'[j] = "canceled"
  <2>1. CASE x \in cancelSent
    <3>1. x \in ExternalId
      BY <2>1 DEF WorkInv, DeliveryTypeOK, TypeOK
    <3> QED BY <2>1, <3>1, TieFacts DEF CancelOnlyCanceled, RemoteTypeOK, Terminal
  <2>2. CASE x \notin cancelSent
    BY <2>2, NewlyStopped
  <2> QED BY <2>1, <2>2
<1>2. x \in ExternalId
  BY <1>1, TieFacts
<1>3. remote[x] # "none" /\ remoteFor[x] = j
  BY <1>1 DEF IdsOwned
<1>4. remoteFor'[x] = j /\ externalId'[j] = x
  BY <1>1, <1>2, <1>3, TieFacts DEF RemoteGrows
<1> QED BY <1>1, <1>4

LEMMA TieStep == TieInv /\ [DeliveryNext]_deliveryVars => TieInv'
<1> SUFFICES ASSUME TieInv, [DeliveryNext]_deliveryVars PROVE TieInv'
  OBVIOUS
<1>1. IInv' /\ WorkInv'
  BY ServicesOnly, IInvStep, WorkStep DEF TieInv
<1>2. CASE DeliveryNext
  BY <1>1, <1>2, IdsOwnedStep, EventsTrueStep, PolledTrueStep, ProcessedStoredStep,
     ChargedStep, TookEffectStep, StoppedStep DEF TieInv
<1>3. CASE UNCHANGED deliveryVars
  BY <1>1, <1>3 DEF deliveryVars, remoteVars, vars, jobVars, TieInv, IdsOwned, EventsTrue,
     PolledTrue, ProcessedStored, ChargedForWork, ProcessedTookEffect, CancelOnlyCanceled
<1> QED BY <1>2, <1>3

LEMMA TieInit == DeliveryInit => TieInv
<1> SUFFICES ASSUME DeliveryInit PROVE TieInv
  OBVIOUS
<1>1. IInv /\ WorkInv
  BY IInvInit, WorkInit DEF DeliveryInit
<1>2. IdsOwned /\ ChargedForWork
  BY DEF DeliveryInit, Init, IdsOwned, ChargedForWork
<1>3. EventsTrue /\ PolledTrue /\ ProcessedStored /\ ProcessedTookEffect /\ CancelOnlyCanceled
  BY DEF DeliveryInit, Init, EventsTrue, PolledTrue, ProcessedStored, ProcessedTookEffect,
         CancelOnlyCanceled, Finished
<1> QED BY <1>1, <1>2, <1>3 DEF TieInv

LEMMA Tied == DeliverySpec => []TieInv
BY TieInit, TieStep, PTL DEF DeliverySpec

(* A student is charged only for work the AI service completed for that job. *)
THEOREM ChargedOnlyForWork == DeliverySpec => []ChargedForWork
<1>1. TieInv => ChargedForWork
  BY DEF TieInv
<1> QED BY <1>1, Tied, PTL

(* An event marked processed has settled the job it reports finished. *)
THEOREM ProcessedMeansSettled == DeliverySpec => []ProcessedTookEffect
<1>1. TieInv => ProcessedTookEffect
  BY DEF TieInv
<1> QED BY <1>1, Tied, PTL

(* Only the remote work of a canceled job is stopped. *)
THEOREM OnlyCanceledStopped == DeliverySpec => []CancelOnlyCanceled
<1>1. TieInv => CancelOnlyCanceled
  BY DEF TieInv
<1> QED BY <1>1, Tied, PTL

-----------------------------------------------------------------------------
(* Who works on the dispatch of which job. *)
Dispatching(w) == running[w] # Idle
JobOf(w) == running[w].message.job

(* Only jobs whose dispatch was sent are dispatched. *)
DispatchesSent ==
  /\ \A m \in broker : m.job \in dispatchSent
  /\ \A w \in Worker : Dispatching(w) => JobOf(w) \in dispatchSent

(* As long as nothing was doubled, the dispatch of a job is one message, or
   one execution, that is the first to bring an identifier. *)
SoleDispatch ==
  /\ \A m, n \in broker : m.job = n.job => m = n
  /\ \A v, w \in Worker : Dispatching(v) /\ Dispatching(w) /\ JobOf(v) = JobOf(w) => v = w
  /\ \A w \in Worker, m \in broker : Dispatching(w) => JobOf(w) # m.job
  /\ \A w \in Worker : Dispatching(w) => externalId[JobOf(w)] = NoExternalId

SoleInv ==
  /\ TieInv
  /\ DispatchesSent
  /\ redeliveries = 0 => SoleDispatch
  /\ FailedByService

(* A dispatch stays with the worker it is with, and the messages change by
   what is sent for the first time. *)
LEMMA SameDispatches ==
  ASSUME DispatchesSent, redeliveries = 0 => SoleDispatch,
         redeliveries' = redeliveries, dispatchSent \subseteq dispatchSent',
         \A w \in Worker :
           /\ Dispatching(w)' <=> Dispatching(w)
           /\ Dispatching(w) => JobOf(w)' = JobOf(w) /\ externalId'[JobOf(w)] = externalId[JobOf(w)],
         broker' \subseteq broker \cup
                   {[job |-> j, attempt |-> 0] : j \in dispatchSent' \ dispatchSent}
  PROVE  DispatchesSent' /\ (redeliveries' = 0 => SoleDispatch')
<1>1. \A m \in broker' : m \in broker \/
        (m = [job |-> m.job, attempt |-> 0] /\ m.job \in dispatchSent' \ dispatchSent)
  OBVIOUS
<1>2. DispatchesSent'
  BY <1>1 DEF DispatchesSent
<1>3. ASSUME redeliveries' = 0 PROVE SoleDispatch'
  <2>1. SoleDispatch
    BY <1>3
  <2>2. \A m, n \in broker' : m.job = n.job => m = n
    BY <1>1, <2>1 DEF SoleDispatch, DispatchesSent
  <2>3. \A w \in Worker, m \in broker' : Dispatching(w)' => JobOf(w)' # m.job
    BY <1>1, <2>1 DEF SoleDispatch, DispatchesSent
  <2> QED BY <2>1, <2>2, <2>3 DEF SoleDispatch
<1> QED BY <1>2, <1>3

(* A worker ends its execution, for good or leaving one message behind. *)
LEMMA DispatchEnds ==
  ASSUME DispatchesSent, redeliveries = 0 => SoleDispatch,
         running \in [Worker -> Execution \cup {Idle}],
         redeliveries' = redeliveries, dispatchSent' = dispatchSent,
         NEW w \in Worker, Dispatching(w), running' = [running EXCEPT ![w] = Idle],
         \A j \in Job : j # JobOf(w) => externalId'[j] = externalId[j],
         NEW n, n.job = JobOf(w), broker' \subseteq broker \cup {n}
  PROVE  DispatchesSent' /\ (redeliveries' = 0 => SoleDispatch')
<1>1. /\ ~Dispatching(w)'
      /\ \A v \in Worker : Dispatching(v)' =>
           /\ v # w /\ Dispatching(v) /\ JobOf(v)' = JobOf(v)
           /\ JobOf(v) \in Job
  BY DEF Dispatching, JobOf, Execution, Message
<1>2. DispatchesSent'
  BY <1>1 DEF DispatchesSent
<1>3. ASSUME redeliveries' = 0 PROVE SoleDispatch'
  BY <1>1, <1>3 DEF SoleDispatch
<1> QED BY <1>2, <1>3

(* A job that has left the queue is not dispatched again: the worker that
   takes a message finds no identifier stored. *)
LEMMA DispatchStarts ==
  ASSUME TieInv, DispatchesSent, redeliveries = 0 => SoleDispatch,
         NEW w \in Worker, NEW m \in broker, StartDispatch(w, m)
  PROVE  DispatchesSent' /\ (redeliveries' = 0 => SoleDispatch')
<1> DEFINE e == [pc |-> "calling", message |-> m, id |-> NoExternalId]
<1>1. /\ running \in [Worker -> Execution \cup {Idle}] /\ broker \subseteq Message
      /\ running[w] = Idle /\ broker' = broker \ {m} /\ redeliveries' = redeliveries
      /\ UNCHANGED <<dispatchSent, externalId>>
  BY DEF TieInv, WorkInv, DeliveryTypeOK, StartDispatch, vars, jobVars, faultVars
<1>2. CASE status[m.job] = "queued" /\ running' = [running EXCEPT ![w] = e]
  <2>1. externalId[m.job] = NoExternalId
    BY <1>1, <1>2 DEF TieInv, IInv, RowsFresh, Message
  <2>2. e # Idle /\ e.message = m
    BY DEF Idle
  <2> HIDE DEF e
  <2>3. /\ \A v \in Worker \ {w} : running'[v] = running[v]
        /\ running'[w] = e
    BY <1>1, <1>2
  <2>4. /\ ~Dispatching(w) /\ Dispatching(w)' /\ JobOf(w)' = m.job
        /\ \A v \in Worker \ {w} :
             (Dispatching(v)' <=> Dispatching(v)) /\ JobOf(v)' = JobOf(v)
    BY <1>1, <2>2, <2>3 DEF Dispatching, JobOf
  <2>5. DispatchesSent'
    BY <1>1, <2>4 DEF DispatchesSent
  <2>6. ASSUME redeliveries' = 0 PROVE SoleDispatch'
    BY <1>1, <2>1, <2>4, <2>6 DEF SoleDispatch
  <2> QED BY <2>5, <2>6
<1>3. CASE running' = running
  BY <1>1, <1>3, SameDispatches DEF Dispatching, JobOf
<1> QED BY <1>2, <1>3 DEF StartDispatch

(* Services called for a report send no dispatch and store no identifier. *)
LEMMA NothingSent ==
  ASSUME TypeOK, NEW j \in Job, NEW s, ApplyReport(j, s) \/ UNCHANGED vars
  PROVE  dispatchSent' = dispatchSent /\ externalId' = externalId
<1>1. CASE UpdateJobProgress(j, s, NoExternalId)
  BY <1>1 DEF UpdateJobProgress, TypeOK
<1>2. CASE CompleteJob(j) \/ FailJob(j) \/ CancelJob(j) \/ UNCHANGED vars
  BY <1>2 DEF CompleteJob, FailJob, CancelJob, vars, jobVars
<1> QED BY <1>1, <1>2 DEF ApplyReport

LEMMA SoleStep ==
  ASSUME SoleInv, DeliveryNext
  PROVE  DispatchesSent' /\ (redeliveries' = 0 => SoleDispatch')
<1>0. /\ TieInv /\ DispatchesSent /\ (redeliveries = 0 => SoleDispatch)
      /\ running \in [Worker -> Execution \cup {Idle}]
      /\ redeliveries \in Nat /\ DeliveryTypeOK
  BY DEF SoleInv, TieInv, WorkInv, DeliveryTypeOK
<1>1. ASSUME redeliveries' = redeliveries + 1, UNCHANGED <<running, dispatchSent>>,
             broker' \subseteq broker \cup {running[w].message : w \in {v \in Worker : Dispatching(v)}}
      PROVE  DispatchesSent' /\ (redeliveries' = 0 => SoleDispatch')
  BY <1>0, <1>1 DEF DispatchesSent, Dispatching, JobOf
<1>2. CASE StudentStep
  <2>1. /\ UNCHANGED <<running, redeliveries, externalId>> /\ dispatchSent \subseteq dispatchSent'
    BY <1>2 DEF StudentStep, CreateStep, BeginCreate, AbortCreate, FinishCreate, CancelJob,
                AllowanceStep, jobVars
  <2>2. broker' \subseteq broker \cup
                  {[job |-> j, attempt |-> 0] : j \in dispatchSent' \ dispatchSent}
    BY <1>2 DEF StudentStep, SendCommitted, MessagesSent, MessagesLost, NewDispatches
  <2> QED BY <1>0, <2>1, <2>2, SameDispatches DEF Dispatching, JobOf
<1>3. ASSUME NEW e \in events, DeliverWebhook(e)
      PROVE  DispatchesSent' /\ (redeliveries' = 0 => SoleDispatch')
  <2>1. PICK j \in Job : ApplyReport(j, e[2])
    BY <1>3 DEF DeliverWebhook
  <2>2. dispatchSent' = dispatchSent /\ externalId' = externalId
    <3>1. PICK s : s = e[2]
      OBVIOUS
    <3>2. TypeOK
      BY <1>0 DEF DeliveryTypeOK
    <3> QED BY <2>1, <3>1, <3>2, NothingSent
  <2>3. broker' = broker
    BY <1>3, <2>2 DEF DeliverWebhook, MessagesSent, MessagesLost, NewDispatches
  <2> QED BY <1>0, <1>3, <2>2, <2>3, SameDispatches DEF DeliverWebhook, Dispatching, JobOf
<1>4. ASSUME NEW j \in Job, RefreshApply(j)
      PROVE  DispatchesSent' /\ (redeliveries' = 0 => SoleDispatch')
  <2>1. ApplyReport(j, polled[j]) \/ UNCHANGED vars
    BY <1>4 DEF RefreshApply
  <2>2. dispatchSent' = dispatchSent /\ externalId' = externalId
    <3>1. PICK s : s = polled[j]
      OBVIOUS
    <3>2. TypeOK
      BY <1>0 DEF DeliveryTypeOK
    <3> QED BY <2>1, <3>1, <3>2, NothingSent
  <2>3. broker' = broker
    BY <1>4, <2>2 DEF RefreshApply, SendCommitted, MessagesSent, MessagesLost, NewDispatches
  <2> QED BY <1>0, <1>4, <2>2, <2>3, SameDispatches DEF RefreshApply, Dispatching, JobOf
<1>5. ASSUME UNCHANGED <<vars, broker, running, redeliveries>>
      PROVE  DispatchesSent' /\ (redeliveries' = 0 => SoleDispatch')
  BY <1>0, <1>5, SameDispatches DEF Dispatching, JobOf, vars, jobVars
<1>6. ASSUME NEW w \in Worker,
             RemoteDeclines(w) \/ \E x \in ExternalId : RemoteAccepts(w, x)
      PROVE  DispatchesSent' /\ (redeliveries' = 0 => SoleDispatch')
  <2>1. running[w] \in Execution /\ Dispatching(w)
    BY <1>0, <1>6, AtWork, BusyNotIdle DEF RemoteAccepts, RemoteDeclines, Dispatching
  <2>2. PICK pc \in Pc, x \in ExternalId \cup {NoExternalId} : Answer(w, pc, x)
    BY <1>6 DEF RemoteAccepts, RemoteDeclines, Pc
  <2> DEFINE e == [running[w] EXCEPT !.pc = pc, !.id = x]
  <2>3. e.message = running[w].message /\ e.pc = pc
    BY <2>1 DEF Execution
  <2> HIDE DEF e
  <2>4. running' = [running EXCEPT ![w] = e]
    BY <2>2 DEF Answer, e
  <2>5. e # Idle
    BY <2>3 DEF Idle, Pc
  <2>6. \A v \in Worker : (Dispatching(v)' <=> Dispatching(v)) /\ JobOf(v)' = JobOf(v)
    BY <1>0, <2>1, <2>3, <2>4, <2>5 DEF Dispatching, JobOf
  <2>7. UNCHANGED <<broker, externalId, dispatchSent, redeliveries>>
    BY <1>6 DEF RemoteAccepts, RemoteDeclines, vars, jobVars, faultVars
  <2> QED BY <1>0, <2>6, <2>7, SameDispatches
<1>7. ASSUME NEW w \in Worker, FinishDispatch(w)
      PROVE  DispatchesSent' /\ (redeliveries' = 0 => SoleDispatch')
  <2> DEFINE m == running[w].message
  <2>1. Dispatching(w) /\ m \in Message /\ m.job \in Job /\ m.job = JobOf(w)
    BY <1>0, <1>7, AtWork, BusyNotIdle DEF FinishDispatch, Dispatching, JobOf
  <2>2. running' = [running EXCEPT ![w] = Idle]
    BY <1>7 DEF FinishDispatch
  <2>3. PICK follow \in {{}, {[m EXCEPT !.attempt = @ + 1]}} :
          /\ AfterAnswer(w, m, follow)
          /\ \/ broker' = broker \cup follow /\ UNCHANGED faultVars
             \/ /\ broker' = broker \cup follow \cup {m}
                /\ IF follow = {}
                   THEN ProcessLost /\ UNCHANGED redeliveries
                   ELSE DispatchDoubled /\ UNCHANGED crashes
    BY <1>7 DEF FinishDispatch
  <2>4. \A n \in follow : n.job = m.job
    BY <2>1 DEF Message
  <2>5. dispatchSent' = dispatchSent /\ \A j \in Job : j # JobOf(w) => externalId'[j] = externalId[j]
    <3>1. PICK i \in Job : i = m.job
      BY <2>1
    <3>2. dispatchSent' = dispatchSent /\ \A j \in Job : j # i => externalId'[j] = externalId[j]
      <4>1. AfterAnswer(w, m, follow)
        BY <2>3
      <4>2. externalId \in [Job -> ExternalId \cup {NoExternalId}]
        BY <1>0 DEF DeliveryTypeOK, TypeOK
      <4> QED BY <3>1, <4>1, <4>2 DEF AfterAnswer, StoreIdentifier, GiveUp, UpdateJobProgress, FailJob,
                                 vars, jobVars
    <3> QED BY <2>1, <3>1, <3>2
  <2> HIDE DEF m
  <2>6. ASSUME NEW n, n.job = m.job, broker' \subseteq broker \cup {n}, redeliveries' = redeliveries
        PROVE  DispatchesSent' /\ (redeliveries' = 0 => SoleDispatch')
    BY <1>0, <2>1, <2>2, <2>5, <2>6, DispatchEnds
  <2>7. CASE broker' = broker \cup follow /\ UNCHANGED faultVars
    <3>1. redeliveries' = redeliveries
      BY <2>7 DEF faultVars
    <3>2. PICK n : n.job = m.job /\ broker' \subseteq broker \cup {n}
      BY <2>3, <2>4, <2>7
    <3> QED BY <2>6, <3>1, <3>2
  <2>8. CASE broker' = broker \cup follow \cup {m} /\ follow = {} /\ ProcessLost /\ UNCHANGED redeliveries
    BY <2>6, <2>8
  <2>9. CASE broker' = broker \cup follow \cup {m} /\ DispatchDoubled
    <3>1. redeliveries' # 0
      BY <1>0, <2>9 DEF DispatchDoubled
    <3>2. JobOf(w) \in dispatchSent
      BY <1>0, <2>1 DEF DispatchesSent
    <3>3. \A v \in Worker : Dispatching(v)' => Dispatching(v) /\ JobOf(v)' = JobOf(v)
      BY <1>0, <2>2 DEF Dispatching, JobOf
    <3>4. DispatchesSent'
      BY <1>0, <2>1, <2>4, <2>5, <2>9, <3>2, <3>3 DEF DispatchesSent
    <3> QED BY <3>1, <3>4
  <2> QED BY <2>3, <2>7, <2>8, <2>9
<1>8. ASSUME NEW w \in Worker, WorkerLost(w)
      PROVE  DispatchesSent' /\ (redeliveries' = 0 => SoleDispatch')
  <2>1. PICK n : n = running[w].message
    OBVIOUS
  <2>2. /\ Dispatching(w) /\ n.job = JobOf(w) /\ broker' \subseteq broker \cup {n}
        /\ running' = [running EXCEPT ![w] = Idle]
        /\ UNCHANGED <<externalId, dispatchSent, redeliveries>>
    BY <1>8, <2>1 DEF WorkerLost, Dispatching, JobOf, vars, jobVars
  <2> QED BY <1>0, <2>2, DispatchEnds
<1>9. ASSUME NEW w \in Worker, Redeliver(w)
      PROVE  DispatchesSent' /\ (redeliveries' = 0 => SoleDispatch')
  BY <1>1, <1>9 DEF Redeliver, DispatchDoubled, Dispatching, vars, jobVars
<1>10. ASSUME NEW w \in Worker, NEW m \in broker, StartDispatch(w, m)
      PROVE  DispatchesSent' /\ (redeliveries' = 0 => SoleDispatch')
  BY <1>0, <1>10, DispatchStarts
<1> QED BY <1>2, <1>3, <1>4, <1>5, <1>6, <1>7, <1>8, <1>9, <1>10
        DEF DeliveryNext, DispatchStep, CancelRemote, RemoteWorks, RefreshRead, queueVars, faultVars

(* Applying a report fails only the job it is about, and only on "failed". *)
LEMMA ReportFails ==
  ASSUME TypeOK, NEW j \in Job, NEW s, ApplyReport(j, s),
         NEW i \in Job, status'[i] # status[i], status'[i] = "failed"
  PROVE  i = j /\ s = "failed" /\ externalId' = externalId
BY DEF TypeOK, ApplyReport, CompleteJob, FailJob, CancelJob, UpdateJobProgress, Progress, vars, jobVars

(* A job with an identifier fails only on a report that its remote job did. *)
LEMMA NewlyFailed ==
  ASSUME SoleInv, DeliveryNext, redeliveries = 0,
         NEW j \in Job, status'[j] # status[j], status'[j] = "failed",
         externalId'[j] # NoExternalId
  PROVE  externalId'[j] = externalId[j] /\ remote[externalId[j]] = "failed"
<1> USE DEF SoleInv, TieInv, WorkInv, DeliveryTypeOK
<1>1. ASSUME UNCHANGED status PROVE FALSE
  BY <1>1
<1>2. ASSUME NEW e \in events, DeliverWebhook(e)
      PROVE  externalId'[j] = externalId[j] /\ remote[externalId[j]] = "failed"
  <2>1. PICK i \in Job : externalId[i] = e[1] /\ ApplyReport(i, e[2])
    BY <1>2 DEF DeliverWebhook
  <2>2. i = j /\ e[2] = "failed" /\ externalId' = externalId
    BY <2>1, ReportFails
  <2> QED BY <2>1, <2>2 DEF EventsTrue, Finished
<1>3. ASSUME NEW i \in Job, RefreshApply(i)
      PROVE  externalId'[j] = externalId[j] /\ remote[externalId[j]] = "failed"
  <2>1. ApplyReport(i, polled[i])
    BY <1>1, <1>3 DEF RefreshApply, vars, jobVars
  <2>2. PICK s : s = polled[i]
    OBVIOUS
  <2>3. i = j /\ s = "failed" /\ externalId' = externalId
    BY <2>1, <2>2, ReportFails
  <2> QED BY <2>2, <2>3 DEF PolledTrue, Finished
<1>4. ASSUME NEW w \in Worker, FinishDispatch(w) PROVE FALSE
  <2>1. PICK i \in Job : i = running[w].message.job
    BY <1>4, AtWork, BusyNotIdle DEF FinishDispatch
  <2>2. i = JobOf(w) /\ Dispatching(w)
    BY <1>4, <2>1, BusyNotIdle DEF FinishDispatch, JobOf, Dispatching
  <2>3. externalId[i] = NoExternalId
    BY <2>2 DEF SoleDispatch
  <2>4. i = j /\ externalId' = externalId
    BY <1>1, <1>4, <2>1 DEF FinishDispatch, AfterAnswer, StoreIdentifier, GiveUp,
                    UpdateJobProgress, FailJob, vars, jobVars, TypeOK
  <2> QED BY <2>3, <2>4
<1>5. ASSUME StudentStep PROVE FALSE
  BY <1>1, <1>5 DEF StudentStep, CreateStep, BeginCreate, AbortCreate, FinishCreate,
                    CancelJob, AllowanceStep, jobVars, TypeOK
<1>6. ASSUME UNCHANGED vars PROVE FALSE
  BY <1>1, <1>6 DEF vars, jobVars
<1> QED BY <1>2, <1>3, <1>4, <1>5, <1>6
        DEF DeliveryNext, DispatchStep, StartDispatch, RemoteAccepts, RemoteDeclines,
            WorkerLost, Redeliver, CancelRemote, RemoteWorks, RefreshRead

LEMMA FailedStep == ASSUME SoleInv, DeliveryNext PROVE FailedByService'
<1> SUFFICES ASSUME redeliveries' = 0, NEW j \in Job, status'[j] = "failed",
                    externalId'[j] # NoExternalId
             PROVE  remote'[externalId'[j]] = "failed"
  BY DEF FailedByService
<1>1. redeliveries = 0
  <2>1. redeliveries \in Nat
    BY DEF SoleInv, TieInv, WorkInv, DeliveryTypeOK
  <2>2. redeliveries' = redeliveries \/ redeliveries' = redeliveries + 1
    BY DEF DeliveryNext, StudentStep, DispatchStep, StartDispatch, RemoteAccepts, RemoteDeclines,
           FinishDispatch, WorkerLost, Redeliver, CancelRemote, RemoteWorks, DeliverWebhook,
           RefreshRead, RefreshApply, DispatchDoubled, faultVars
  <2> QED BY <2>1, <2>2
<1>2. externalId'[j] = externalId[j] /\ remote[externalId[j]] = "failed"
  <2>1. CASE status[j] = "failed"
    <3>1. externalId'[j] = externalId[j]
      BY <2>1, ServicesOnly, SettledFrozenStep DEF SoleInv, TieInv, FrozenStep, Terminal
    <3> QED BY <1>1, <2>1, <3>1 DEF SoleInv, FailedByService
  <2>2. CASE status[j] # "failed"
    BY <1>1, <2>2, NewlyFailed
  <2> QED BY <2>1, <2>2
<1>3. RemoteGrows /\ externalId[j] \in ExternalId
  BY <1>2, TieFacts DEF SoleInv
<1> QED BY <1>2, <1>3 DEF RemoteGrows, Finished

LEMMA SoleInvStep == SoleInv /\ [DeliveryNext]_deliveryVars => SoleInv'
<1> SUFFICES ASSUME SoleInv, [DeliveryNext]_deliveryVars PROVE SoleInv'
  OBVIOUS
<1>1. TieInv'
  BY TieStep DEF SoleInv
<1>2. CASE DeliveryNext
  BY <1>1, <1>2, SoleStep, FailedStep DEF SoleInv
<1>3. CASE UNCHANGED deliveryVars
  BY <1>1, <1>3 DEF deliveryVars, remoteVars, queueVars, faultVars, vars, jobVars, SoleInv,
     DispatchesSent, SoleDispatch, FailedByService, Dispatching, JobOf
<1> QED BY <1>2, <1>3

LEMMA SoleInvInit == DeliveryInit => SoleInv
<1> SUFFICES ASSUME DeliveryInit PROVE SoleInv
  OBVIOUS
<1>1. \A w \in Worker : ~Dispatching(w)
  BY DEF DeliveryInit, Dispatching
<1>2. broker = {} /\ \A j \in Job : externalId[j] = NoExternalId
  BY DEF DeliveryInit, Init
<1> QED BY <1>1, <1>2, TieInit DEF SoleInv, DispatchesSent, SoleDispatch, FailedByService

(* Unless a dispatch was doubled, a job whose identifier is stored fails only
   when the AI service says so: no retry, loss or reordering fails work that
   is under way. *)
THEOREM FailsOnlyByService == DeliverySpec => []FailedByService
<1>1. SoleInv => FailedByService
  BY DEF SoleInv
<1> QED BY <1>1, SoleInvInit, SoleInvStep, PTL DEF DeliverySpec
=============================================================================
