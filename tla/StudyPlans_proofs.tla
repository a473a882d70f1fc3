-------------------------- MODULE StudyPlans_proofs --------------------------
(***************************************************************************)
(* Proofs about StudyPlans, for any finite set of tasks and any number of  *)
(* requests open at once.                                                  *)
(*                                                                         *)
(* PlanFollowsTasks is not inductive alone: what a request will save was   *)
(* computed from what it read.  PlanInv adds that the request no other has *)
(* overlapped is the only one open, and that what it carries is still what *)
(* the rows say; while any other request is open, stale holds.             *)
(***************************************************************************)
EXTENDS StudyPlans, FiniteSetTheorems, TLAPS

(* An undisturbed request is the only one open; without one, stale holds. *)
Alone ==
  \A p \in Request :
    /\ p \in undisturbed => Busy(p) /\ Others(p) = {}
    /\ Busy(p) /\ p \notin undisturbed => stale

(* The task an undisturbed request is for is as it was read. *)
TaskAsRead(p) ==
  LET r == request[p] IN
  /\ r.op \in {"set", "remove"} => ~Adds(p) /\ r.task \in Task
  /\ r.op = "touch" => r.task \in Task /\ r.task_status = taskStatus[r.task]
  /\ r.op = "add" => Adds(p) /\ r.task \in Task
  /\ r.op = "counted" => r.task \in Task

(* The plan an undisturbed request is to save follows from the rows. *)
PlanAsRead(p) ==
  LET r == request[p] IN
  /\ r.op \in {"set", "remove", "add"} => r.plan_status = planStatus
  /\ r.op = "edit" =>
       r.counts = progress /\ (r.plan_status = planStatus \/ MayBecome(r.plan_status))
  /\ r.op = "counted" =>
       /\ r.plan_status = StatusFrom(planStatus, r.counts)
       /\ ~Adds(p) => r.counts = Counted([taskStatus EXCEPT ![r.task] = r.task_status])

ReadIsCurrent == \A p \in undisturbed : TaskAsRead(p) /\ PlanAsRead(p)

(* Every request but an edit is for a task. *)
TaskOps ==
  \A p \in Request : Busy(p) /\ request[p].op # "edit" => request[p].task \in Task

PlanInv == TypeOK /\ TaskOps /\ Alone /\ ReadIsCurrent /\ PlanFollowsTasks

-----------------------------------------------------------------------------
(* What is counted is within Counts. *)
LEMMA CountedType == ASSUME NEW tasks PROVE Counted(tasks) \in Counts
<1>1. Rows(tasks) \in SUBSET Task /\ Done(tasks) \in SUBSET Task
  BY DEF Rows, Done
<1>2. IsFiniteSet(Task)
  BY PlanAssumption
<1>3. /\ Cardinality(Rows(tasks)) \in Nat /\ Cardinality(Rows(tasks)) <= Cardinality(Task)
      /\ Cardinality(Done(tasks)) \in Nat /\ Cardinality(Done(tasks)) <= Cardinality(Task)
      /\ Cardinality(Task) \in Nat
  BY <1>1, <1>2, FS_Subset, FS_CardinalityType
<1> QED BY <1>3 DEF Counted, Counts

(* A plan that is saved as completed after a count has only completed tasks. *)
LEMMA CompletedIsDone ==
  ASSUME NEW tasks, NEW s, StatusFrom(s, Counted(tasks)) = "completed"
  PROVE  Rows(tasks) = Done(tasks)
<1>1. Rows(tasks) \in SUBSET Task /\ Done(tasks) \in SUBSET Rows(tasks)
  BY DEF Rows, Done
<1>2. IsFiniteSet(Rows(tasks))
  BY <1>1, PlanAssumption, FS_Subset
<1>3. /\ Cardinality(Rows(tasks)) \in Nat /\ Cardinality(Done(tasks)) \in Nat
      /\ Cardinality(Done(tasks)) <= Cardinality(Rows(tasks))
  BY <1>1, <1>2, FS_Subset, FS_CardinalityType
<1>4. Cardinality(Rows(tasks)) = Cardinality(Done(tasks))
  BY <1>3 DEF StatusFrom, Counted
<1> QED BY <1>1, <1>2, <1>4, FS_Subset

LEMMA StatusFromType ==
  ASSUME NEW s \in PlanStatus, NEW counts PROVE StatusFrom(s, counts) \in PlanStatus
BY DEF StatusFrom, PlanStatus

-----------------------------------------------------------------------------
LEMMA InitInv == Init => PlanInv
<1> SUFFICES ASSUME Init PROVE PlanInv
  OBVIOUS
<1>1. taskStatus \in [Task -> TaskStatus \cup {"none"}]
  BY DEF Init, TaskStatus
<1>2. TypeOK
  BY <1>1, CountedType DEF Init, TypeOK, PlanStatus
<1>3. TaskOps /\ Alone /\ ReadIsCurrent /\ PlanFollowsTasks
  BY DEF Init, TaskOps, Alone, ReadIsCurrent, PlanFollowsTasks, Busy
<1> QED BY <1>2, <1>3 DEF PlanInv

(* A request is opened: what it carries is what it has just read. *)
LEMMA OpenKeepsInv ==
  ASSUME PlanInv, NEW p \in Request,
         NEW r \in Open, ~Busy(p), request' = [request EXCEPT ![p] = r],
         r.op # "edit" => r.task \in Task,
         undisturbed' = IF Others(p) = {} THEN {p} ELSE {},
         stale' = (stale \/ Others(p) # {}), UNCHANGED rowVars,
         TaskAsRead(p)', PlanAsRead(p)'
  PROVE  PlanInv'
<1>0. TypeOK /\ TaskOps /\ Alone /\ ReadIsCurrent /\ PlanFollowsTasks
  BY DEF PlanInv
<1>1. request'[p] = r /\ \A o \in Request \ {p} : request'[o] = request[o]
  BY <1>0 DEF TypeOK
<1>2. r # Idle /\ Busy(p)' /\ \A o \in Request \ {p} : Busy(o)' = Busy(o)
  BY <1>1 DEF Busy, Open, Idle
<1>3. TypeOK'
  BY <1>0 DEF TypeOK, rowVars
<1>4. TaskOps'
  BY <1>0, <1>1, <1>2 DEF TaskOps
<1>5. Alone'
  <2>1. Others(p)' = Others(p)
    BY <1>2 DEF Others
  <2> QED BY <1>0, <1>2, <2>1 DEF Alone, Others
<1>6. ReadIsCurrent'
  BY DEF ReadIsCurrent
<1>7. PlanFollowsTasks'
  BY <1>0 DEF PlanFollowsTasks, rowVars
<1> QED BY <1>3, <1>4, <1>5, <1>6, <1>7 DEF PlanInv

LEMMA BeginKeepsInv ==
  ASSUME PlanInv, NEW p \in Request,
         BeginStep(p) \/ \E v \in PlanStatus : BeginEdit(p, v)
  PROVE  PlanInv'
<1>0. TypeOK
  BY DEF PlanInv
<1>1. Uncounted \in Counts /\ Counted(taskStatus) \in Counts /\ progress \in Counts
  <2>1. Cardinality(Task) \in Nat
    BY PlanAssumption, FS_CardinalityType
  <2> QED BY <1>0, <2>1, CountedType DEF TypeOK, Uncounted, Counts
<1>2. ASSUME NEW op \in {"set", "touch", "add", "remove", "edit"},
             NEW t \in Task \cup {NoTask}, NEW s \in TaskStatus \cup {"none"},
             NEW v \in PlanStatus, NEW counts \in Counts,
             OpenRequest(p, op, t, s, v, counts), op # "edit" => t \in Task,
             op \in {"set", "remove"} => ~(s # "none" /\ taskStatus[t] = "none"),
             op = "touch" => s = taskStatus[t],
             op = "add" => s # "none" /\ taskStatus[t] = "none",
             op # "edit" => v = planStatus,
             op = "edit" => counts = progress /\ (v = planStatus \/ MayBecome(v))
      PROVE  PlanInv'
  <2> DEFINE r == [op |-> op, task |-> t, task_status |-> s, plan_status |-> v,
                   counts |-> counts]
  <2>1. /\ r \in Open /\ ~Busy(p) /\ request' = [request EXCEPT ![p] = r]
        /\ undisturbed' = IF Others(p) = {} THEN {p} ELSE {}
        /\ stale' = (stale \/ Others(p) # {}) /\ UNCHANGED rowVars
    BY <1>2 DEF OpenRequest, Open
  <2>2. request'[p] = r
    BY <1>0, <2>1 DEF TypeOK
  <2>3. TaskAsRead(p)'
    BY <1>2, <2>1, <2>2 DEF TaskAsRead, Adds, rowVars
  <2>4. PlanAsRead(p)'
    BY <1>2, <2>1, <2>2 DEF PlanAsRead, MayBecome, Rows, Done, rowVars
  <2> HIDE DEF r
  <2>5. r.op # "edit" => r.task \in Task
    BY <1>2 DEF r
  <2> QED BY <2>1, <2>3, <2>4, <2>5, OpenKeepsInv
<1>3. ASSUME NEW t \in Task, NEW s \in TaskStatus, BeginSet(p, t, s) PROVE PlanInv'
  BY <1>0, <1>1, <1>2, <1>3 DEF BeginSet, TypeOK
<1>4. ASSUME NEW t \in Task, BeginTouch(p, t) PROVE PlanInv'
  BY <1>0, <1>1, <1>2, <1>4 DEF BeginTouch, TypeOK
<1>5. ASSUME NEW t \in Task, BeginRemove(p, t) PROVE PlanInv'
  BY <1>0, <1>1, <1>2, <1>5 DEF BeginRemove, TypeOK
<1>6. ASSUME NEW t \in Task, BeginAdd(p, t) PROVE PlanInv'
  BY <1>0, <1>1, <1>2, <1>6 DEF BeginAdd, TypeOK, TaskStatus
<1>7. ASSUME NEW v \in PlanStatus, BeginEdit(p, v) PROVE PlanInv'
  BY <1>0, <1>1, <1>2, <1>7 DEF BeginEdit, TypeOK
<1> QED BY <1>3, <1>4, <1>5, <1>6, <1>7 DEF BeginStep

(* The task is written: an undisturbed request counts what it will leave. *)
LEMMA WriteTaskKeepsInv ==
  ASSUME PlanInv, NEW p \in Request, WriteTask(p) PROVE PlanInv'
<1> DEFINE r == request[p]
           tasks == [taskStatus EXCEPT ![r.task] = r.task_status]
           counts == CountsFor(r, tasks)
           written == [r EXCEPT !.op = "counted", !.counts = counts,
                                !.plan_status = StatusFrom(r.plan_status, counts)]
<1>0. TypeOK /\ TaskOps /\ Alone /\ ReadIsCurrent /\ PlanFollowsTasks
  BY DEF PlanInv
<1>1. /\ r.op \in {"set", "add", "remove"} /\ request' = [request EXCEPT ![p] = written]
      /\ UNCHANGED <<rowVars, historyVars>>
  BY DEF WriteTask
<1>2. r \in Open /\ Busy(p) /\ r.task \in Task
  BY <1>0, <1>1 DEF TypeOK, Idle, Busy, TaskOps
<1>3. counts \in Counts
  <2>1. Counted(tasks) \in Counts
    BY CountedType
  <2> QED BY <1>2, <2>1 DEF CountsFor, Counts, Open
<1>4. /\ written \in Open /\ written.op = "counted" /\ written.task = r.task
      /\ written.task_status = r.task_status /\ written.counts = counts
      /\ written.plan_status = StatusFrom(r.plan_status, counts)
  <2>1. StatusFrom(r.plan_status, counts) \in PlanStatus
    BY <1>2, StatusFromType DEF Open
  <2> QED BY <1>2, <1>3, <2>1 DEF Open
<1> HIDE DEF written
<1>5. request'[p] = written /\ \A o \in Request \ {p} : request'[o] = request[o]
  BY <1>0, <1>1 DEF TypeOK
<1>6. \A o \in Request : Busy(o)' = Busy(o)
  BY <1>2, <1>4, <1>5 DEF Busy, Idle, Open
<1>7. TypeOK'
  BY <1>0, <1>1, <1>4 DEF TypeOK, rowVars, historyVars
<1>8. TaskOps'
  BY <1>0, <1>2, <1>4, <1>5, <1>6 DEF TaskOps
<1>9. Alone'
  BY <1>0, <1>1, <1>6 DEF Alone, Others, historyVars
<1>10. ReadIsCurrent'
  <2> SUFFICES ASSUME NEW o \in undisturbed PROVE TaskAsRead(o)' /\ PlanAsRead(o)'
    BY <1>1 DEF ReadIsCurrent, historyVars
  <2>1. o = p
    BY <1>0, <1>2 DEF TypeOK, Alone, Others
  <2>2. TaskAsRead(p) /\ PlanAsRead(p)
    BY <1>0, <2>1 DEF ReadIsCurrent
  <2>3. TaskAsRead(p)'
    BY <1>2, <1>4, <1>5 DEF TaskAsRead
  <2>4. Adds(p)' = Adds(p) /\ (~Adds(p) => counts = Counted(tasks))
    BY <1>1, <1>4, <1>5, <2>2 DEF Adds, rowVars, CountsFor, TaskAsRead
  <2>5. r.plan_status = planStatus
    BY <1>1, <2>2 DEF PlanAsRead
  <2> QED BY <1>1, <1>4, <1>5, <2>1, <2>3, <2>4, <2>5 DEF PlanAsRead, rowVars
<1>11. PlanFollowsTasks'
  BY <1>0, <1>1 DEF PlanFollowsTasks, rowVars, historyVars
<1> QED BY <1>7, <1>8, <1>9, <1>10, <1>11 DEF PlanInv

(* A request is closed.  The rows it leaves need only be true to each other
   if stale is false, and then no other request is open. *)
LEMMA CloseKeepsInv ==
  ASSUME PlanInv, NEW p \in Request, Busy(p), CloseRequest(p),
         taskStatus' \in [Task -> TaskStatus \cup {"none"}],
         planStatus' \in PlanStatus, progress' \in Counts, stale' \in BOOLEAN,
         p \notin undisturbed => (stale' <=> stale),
         PlanFollowsTasks'
  PROVE  PlanInv'
<1>0. TypeOK /\ TaskOps /\ Alone /\ ReadIsCurrent /\ PlanFollowsTasks
  BY DEF PlanInv
<1>1. request'[p] = Idle /\ \A o \in Request \ {p} : request'[o] = request[o]
  BY <1>0 DEF TypeOK, CloseRequest
<1>2. ~Busy(p)' /\ \A o \in Request \ {p} : Busy(o)' = Busy(o)
  BY <1>1 DEF Busy
<1>3. TypeOK'
  BY <1>0 DEF TypeOK, CloseRequest
<1>4. TaskOps'
  BY <1>0, <1>1, <1>2 DEF TaskOps
<1>5. undisturbed' = {}
  <2> SUFFICES ASSUME NEW o \in undisturbed, o # p PROVE FALSE
    BY DEF CloseRequest
  <2> QED BY <1>0 DEF TypeOK, Alone, Others
<1>6. Alone'
  <2> SUFFICES ASSUME NEW o \in Request, Busy(o)' PROVE stale'
    BY <1>5 DEF Alone
  <2>1. o # p /\ Busy(o) /\ p \notin undisturbed
    BY <1>0, <1>2 DEF Alone, Others
  <2>2. stale
    BY <1>0, <2>1 DEF Alone
  <2> QED BY <2>1, <2>2
<1>7. ReadIsCurrent'
  BY <1>5 DEF ReadIsCurrent
<1> QED BY <1>3, <1>4, <1>6, <1>7 DEF PlanInv

LEMMA SavePlanKeepsInv ==
  ASSUME PlanInv, NEW p \in Request, SavePlan(p) PROVE PlanInv'
<1> DEFINE r == request[p]
<1>0. TypeOK /\ TaskOps /\ Alone /\ ReadIsCurrent /\ PlanFollowsTasks
  BY DEF PlanInv
<1>1. /\ r.op = "counted" /\ CloseRequest(p)
      /\ taskStatus' = [taskStatus EXCEPT ![r.task] = r.task_status]
      /\ planStatus' = r.plan_status /\ progress' = r.counts
      /\ stale' = IF p \in undisturbed THEN Adds(p) ELSE stale
  BY DEF SavePlan
<1>2. r \in Open /\ Busy(p) /\ r.task \in Task
  BY <1>0, <1>1 DEF TypeOK, Idle, Busy, TaskOps
<1>3. /\ taskStatus' \in [Task -> TaskStatus \cup {"none"}]
      /\ planStatus' \in PlanStatus /\ progress' \in Counts
  BY <1>0, <1>1, <1>2 DEF TypeOK, Open
<1>4. stale' \in BOOLEAN
  BY <1>0, <1>1 DEF TypeOK, Adds
<1>5. PlanFollowsTasks'
  <2> SUFFICES ASSUME ~stale'
               PROVE  /\ progress' = Counted(taskStatus')
                      /\ planStatus' = "completed" => Rows(taskStatus') = Done(taskStatus')
    BY DEF PlanFollowsTasks, Counted, Rows, Done
  <2>1. p \in undisturbed /\ ~Adds(p)
    BY <1>0, <1>1, <1>2 DEF Alone
  <2>2. /\ r.plan_status = StatusFrom(planStatus, r.counts)
        /\ r.counts = Counted(taskStatus')
    BY <1>0, <1>1, <2>1 DEF ReadIsCurrent, PlanAsRead
  <2> QED BY <1>1, <2>2, CompletedIsDone
<1> QED BY <1>1, <1>2, <1>3, <1>4, <1>5, CloseKeepsInv

LEMMA SaveTaskKeepsInv ==
  ASSUME PlanInv, NEW p \in Request, SaveTask(p) PROVE PlanInv'
<1> DEFINE r == request[p]
<1>0. TypeOK /\ TaskOps /\ Alone /\ ReadIsCurrent /\ PlanFollowsTasks
  BY DEF PlanInv
<1>1. /\ r.op = "touch" /\ CloseRequest(p) /\ UNCHANGED <<planStatus, progress, stale>>
      /\ taskStatus' = [taskStatus EXCEPT ![r.task] = r.task_status]
  BY DEF SaveTask
<1>2. r \in Open /\ Busy(p) /\ r.task \in Task
  BY <1>0, <1>1 DEF TypeOK, Idle, Busy, TaskOps
<1>3. /\ taskStatus' \in [Task -> TaskStatus \cup {"none"}]
      /\ planStatus' \in PlanStatus /\ progress' \in Counts /\ stale' \in BOOLEAN
  BY <1>0, <1>1, <1>2 DEF TypeOK, Open
<1>4. PlanFollowsTasks'
  <2>1. p \in undisturbed => taskStatus' = taskStatus
    BY <1>0, <1>1 DEF ReadIsCurrent, TaskAsRead, TypeOK
  <2>2. ~stale => p \in undisturbed
    BY <1>0, <1>2 DEF Alone
  <2> QED BY <1>0, <1>1, <2>1, <2>2 DEF PlanFollowsTasks, Counted, Rows, Done
<1> QED BY <1>1, <1>2, <1>3, <1>4, CloseKeepsInv

LEMMA SaveEditKeepsInv ==
  ASSUME PlanInv, NEW p \in Request, SaveEdit(p) PROVE PlanInv'
<1> DEFINE r == request[p]
<1>0. TypeOK /\ TaskOps /\ Alone /\ ReadIsCurrent /\ PlanFollowsTasks
  BY DEF PlanInv
<1>1. /\ r.op = "edit" /\ CloseRequest(p) /\ UNCHANGED <<taskStatus, stale>>
      /\ planStatus' = r.plan_status /\ progress' = r.counts
  BY DEF SaveEdit
<1>2. r \in Open /\ Busy(p)
  BY <1>0, <1>1 DEF TypeOK, Idle, Busy
<1>3. /\ taskStatus' \in [Task -> TaskStatus \cup {"none"}]
      /\ planStatus' \in PlanStatus /\ progress' \in Counts /\ stale' \in BOOLEAN
  BY <1>0, <1>1, <1>2 DEF TypeOK, Open
<1>4. PlanFollowsTasks'
  <2>1. ~stale => p \in undisturbed
    BY <1>0, <1>2 DEF Alone
  <2>2. p \in undisturbed =>
          r.counts = progress /\ (r.plan_status = planStatus \/ MayBecome(r.plan_status))
    BY <1>0, <1>1 DEF ReadIsCurrent, PlanAsRead
  <2> QED BY <1>0, <1>1, <2>1, <2>2 DEF PlanFollowsTasks, MayBecome, Counted, Rows, Done
<1> QED BY <1>1, <1>2, <1>3, <1>4, CloseKeepsInv

LEMMA LoseKeepsInv ==
  ASSUME PlanInv, NEW p \in Request, LoseRequest(p) PROVE PlanInv'
<1>1. Busy(p) /\ CloseRequest(p) /\ UNCHANGED <<rowVars, stale>>
  BY DEF LoseRequest
<1>2. /\ taskStatus' \in [Task -> TaskStatus \cup {"none"}]
      /\ planStatus' \in PlanStatus /\ progress' \in Counts /\ stale' \in BOOLEAN
  BY <1>1 DEF PlanInv, TypeOK, rowVars
<1>3. PlanFollowsTasks'
  BY <1>1 DEF PlanInv, PlanFollowsTasks, Counted, Rows, Done, rowVars
<1> QED BY <1>1, <1>2, <1>3, CloseKeepsInv

THEOREM Invariance == Spec => []PlanInv
<1>1. PlanInv /\ [Next]_vars => PlanInv'
  <2> SUFFICES ASSUME PlanInv, [Next]_vars PROVE PlanInv'
    OBVIOUS
  <2>1. CASE UNCHANGED vars
    BY <2>1 DEF PlanInv, vars, rowVars, historyVars, TypeOK, TaskOps, Alone, ReadIsCurrent,
         PlanFollowsTasks, Busy, Others, TaskAsRead, PlanAsRead, Adds, MayBecome, Counted,
         Rows, Done
  <2>2. CASE Next
    BY <2>2, BeginKeepsInv, WriteTaskKeepsInv, SavePlanKeepsInv, SaveTaskKeepsInv,
       SaveEditKeepsInv, LoseKeepsInv DEF Next
  <2> QED BY <2>1, <2>2
<1> QED BY <1>1, InitInv, PTL DEF Spec

-----------------------------------------------------------------------------
(* Every variable keeps its type; the counts never exceed the tasks. *)
THEOREM TypeCorrect == Spec => []TypeOK
<1>1. PlanInv => TypeOK
  BY DEF PlanInv
<1> QED BY <1>1, Invariance, PTL

(* Percentage and status follow the tasks unless requests overlapped or a
   task was added. *)
THEOREM PlanTrue == Spec => []PlanFollowsTasks
<1>1. PlanInv => PlanFollowsTasks
  BY DEF PlanInv
<1> QED BY <1>1, Invariance, PTL

(* Only an edit, or a request that was overlapped, revives a cancelled plan. *)
THEOREM CancelledStays == Spec => CancelledKept
<1> DEFINE Kept == planStatus = "cancelled" /\ planStatus' # "cancelled" =>
              \E p \in Request :
                /\ Busy(p) /\ ~Busy(p)'
                /\ request[p].op = "edit" \/ p \notin undisturbed
<1>1. PlanInv /\ [Next]_vars => [Kept]_vars
  <2> SUFFICES ASSUME PlanInv, Next, planStatus = "cancelled", planStatus' # "cancelled"
               PROVE  Kept
    BY DEF vars, rowVars
  <2>1. PICK p \in Request : SavePlan(p) \/ SaveEdit(p)
    BY DEF Next, BeginStep, BeginSet, BeginTouch, BeginRemove, BeginAdd, BeginEdit,
           OpenRequest, WriteTask, SaveTask, LoseRequest, rowVars
  <2>2. Busy(p) /\ ~Busy(p)'
    BY <2>1 DEF SavePlan, SaveEdit, CloseRequest, Busy, Idle, PlanInv, TypeOK
  <2>3. SavePlan(p) => p \notin undisturbed
    BY DEF SavePlan, PlanInv, ReadIsCurrent, PlanAsRead, StatusFrom
  <2>4. SaveEdit(p) => request[p].op = "edit"
    BY DEF SaveEdit
  <2> QED BY <2>1, <2>2, <2>3, <2>4
<1> QED BY <1>1, Invariance, PTL DEF Spec, CancelledKept
=============================================================================
