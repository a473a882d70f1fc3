----------------------------- MODULE StudyPlans -----------------------------
(***************************************************************************)
(* One study plan and its tasks (apps/study_plans/services.py).  The plan  *)
(* stores how far it has come (completion_percentage) and a status, which  *)
(* update_plan_completion derives from the tasks after each change.        *)
(*                                                                         *)
(* A request reads its task and the plan (get_object), then writes the     *)
(* task, counts, and saves the whole plan row from the object it has read. *)
(* Nothing locks the plan: another request may commit between the reading, *)
(* the counting and the save.  Two requests never write one task at once,  *)
(* since the row stays locked until the transaction ends.                  *)
(***************************************************************************)
EXTENDS Naturals, FiniteSets

CONSTANTS
  Task,               \* the rows StudyTask can have
  NoTask,             \* the task of a request for the plan itself
  Request             \* the requests that can be open at the same time

ASSUME PlanAssumption == IsFiniteSet(Task) /\ Task # {} /\ NoTask \notin Task

VARIABLES
  taskStatus,         \* StudyTask.status, "none" where there is no row
  planStatus,         \* StudyPlan.status
  progress,           \* the counts completion_percentage was computed from
  request,            \* the open requests, or Idle
  undisturbed,        \* history: open requests no other has overlapped
  stale               \* history: requests have overlapped, or a task was
                      \* added, since an undisturbed request last counted

rowVars == <<taskStatus, planStatus, progress>>
historyVars == <<undisturbed, stale>>
vars == <<rowVars, request, historyVars>>

TaskStatus == {"pending", "in_progress", "completed", "skipped"}
PlanStatus == {"draft", "active", "completed", "cancelled"}
Counts == [done : 0..Cardinality(Task), total : 0..Cardinality(Task)]

Rows(tasks) == {t \in Task : tasks[t] # "none"}
Done(tasks) == {t \in Task : tasks[t] = "completed"}

(* The percentage is done over total, or zero for a plan without tasks. *)
Counted(tasks) ==
  [done |-> Cardinality(Done(tasks)), total |-> Cardinality(Rows(tasks))]

Idle == [op |-> "idle"]
Open ==
  [op : {"set", "touch", "add", "remove", "edit", "counted"},
   task : Task \cup {NoTask},
   task_status : TaskStatus \cup {"none"},  \* what the task is saved with
   plan_status : PlanStatus,                \* the plan as read, then as saved
   counts : Counts]                         \* as read, then as saved

TypeOK ==
  /\ taskStatus \in [Task -> TaskStatus \cup {"none"}]
  /\ planStatus \in PlanStatus
  /\ progress \in Counts
  /\ request \in [Request -> Open \cup {Idle}]
  /\ undisturbed \subseteq Request
  /\ stale \in BOOLEAN

(* create_manual_plan: an active plan with its generated tasks, pending. *)
Init ==
  /\ \E S \in SUBSET Task \ {{}} :
       taskStatus = [t \in Task |-> IF t \in S THEN "pending" ELSE "none"]
  /\ planStatus = "active"
  /\ progress = Counted(taskStatus)
  /\ request = [p \in Request |-> Idle]
  /\ undisturbed = {}
  /\ stale = FALSE

-----------------------------------------------------------------------------
Busy(p) == request[p] # Idle
Others(p) == {o \in Request \ {p} : Busy(o)}

(* get_object: the request for task t is to save it with status s and the
   plan with status v.  Only an edit and a new task use the counts read. *)
OpenRequest(p, op, t, s, v, counts) ==
  /\ ~Busy(p)
  /\ request' = [request EXCEPT ![p] =
       [op |-> op, task |-> t, task_status |-> s, plan_status |-> v, counts |-> counts]]
  /\ undisturbed' = IF Others(p) = {} THEN {p} ELSE {}
  /\ stale' = (stale \/ Others(p) # {})
  /\ UNCHANGED rowVars

Uncounted == [done |-> 0, total |-> 0]

(* complete, skip, reopen and a PATCH with another status: nothing is done
   when the task read has that status already. *)
BeginSet(p, t, s) ==
  /\ taskStatus[t] \notin {"none", s}
  /\ OpenRequest(p, "set", t, s, planStatus, Uncounted)

(* A PATCH of other fields saves the task as it was read. *)
BeginTouch(p, t) ==
  /\ taskStatus[t] # "none"
  /\ OpenRequest(p, "touch", t, taskStatus[t], planStatus, Uncounted)

(* DELETE of the task. *)
BeginRemove(p, t) ==
  /\ taskStatus[t] # "none"
  /\ OpenRequest(p, "remove", t, "none", planStatus, Uncounted)

(* POST tasks: the plan is read with its tasks (a prefetch). *)
BeginAdd(p, t) ==
  /\ taskStatus[t] = "none"
  /\ \A o \in Others(p) : request[o].task # t
  /\ OpenRequest(p, "add", t, "pending", planStatus, Counted(taskStatus))

(* validate_status. *)
MayBecome(v) == v = "completed" => Rows(taskStatus) = Done(taskStatus)

(* PATCH of the plan, of its status (v) or of other fields (v as read). *)
BeginEdit(p, v) ==
  /\ v = planStatus \/ MayBecome(v)
  /\ OpenRequest(p, "edit", NoTask, "none", v, progress)

-----------------------------------------------------------------------------
(* A row written in a transaction that has not ended. *)
Locked(t) == \E o \in Request : Busy(o) /\ request[o].op = "counted" /\ request[o].task = t

(* Mutant: a cancelled plan is treated as any other. *)
StatusRevivingCancelled(status, counts) ==
  IF counts.total > 0 /\ counts.done = counts.total THEN "completed"
  ELSE IF status \in {"completed", "cancelled"} /\ counts.done < counts.total
  THEN "active" ELSE status

(* update_plan_completion: the status the plan is saved with. *)
StatusFrom(status, counts) ==
  IF status = "cancelled" THEN "cancelled"
  ELSE IF counts.total > 0 /\ counts.done = counts.total THEN "completed"
  ELSE IF status = "completed" /\ counts.done < counts.total THEN "active"
  ELSE status

(* Mutant: the tasks are counted before the task is written. *)
CountsBefore(r, tasks) == Counted(taskStatus)

(* Mutant: a new task is counted twice. *)
CountsTwice(r, tasks) ==
  IF r.op = "add" THEN [Counted(tasks) EXCEPT !.total = @ + 1] ELSE Counted(tasks)

(* What update_plan_completion counts.  A new task's total comes from the
   tasks read with the plan, which do not have it. *)
CountsFor(r, tasks) ==
  IF r.op = "add" THEN [Counted(tasks) EXCEPT !.total = r.counts.total]
  ELSE Counted(tasks)

(* The task is written and the tasks are counted (two queries, one step here).
   A row deleted meanwhile is inserted again by the save. *)
WriteTask(p) ==
  LET r == request[p]
      tasks == [taskStatus EXCEPT ![r.task] = r.task_status]
      counts == CountsFor(r, tasks)
  IN
  /\ r.op \in {"set", "add", "remove"}
  /\ ~Locked(r.task)
  /\ request' = [request EXCEPT ![p] =
       [r EXCEPT !.op = "counted", !.counts = counts,
                 !.plan_status = StatusFrom(r.plan_status, counts)]]
  /\ UNCHANGED <<rowVars, historyVars>>

CloseRequest(p) ==
  /\ request' = [request EXCEPT ![p] = Idle]
  /\ undisturbed' = undisturbed \ {p}

(* Request p is to save a task that was not there. *)
Adds(p) == request[p].task_status # "none" /\ taskStatus[request[p].task] = "none"

(* plan.save() and the commit. *)
SavePlan(p) ==
  /\ request[p].op = "counted"
  /\ taskStatus' = [taskStatus EXCEPT ![request[p].task] = request[p].task_status]
  /\ planStatus' = request[p].plan_status
  /\ progress' = request[p].counts
  /\ CloseRequest(p)
  /\ stale' = IF p \in undisturbed THEN Adds(p) ELSE stale

(* update_task without another status: the plan is left alone. *)
SaveTask(p) ==
  /\ request[p].op = "touch"
  /\ ~Locked(request[p].task)
  /\ taskStatus' = [taskStatus EXCEPT ![request[p].task] = request[p].task_status]
  /\ CloseRequest(p)
  /\ UNCHANGED <<planStatus, progress, stale>>

(* update_plan: the whole row is saved, the percentage read included. *)
SaveEdit(p) ==
  /\ request[p].op = "edit"
  /\ planStatus' = request[p].plan_status
  /\ progress' = request[p].counts
  /\ CloseRequest(p)
  /\ UNCHANGED <<taskStatus, stale>>

(* The worker dies or the database ends the transaction: rolled back. *)
LoseRequest(p) ==
  /\ Busy(p)
  /\ CloseRequest(p)
  /\ UNCHANGED <<rowVars, stale>>

-----------------------------------------------------------------------------
BeginStep(p) ==
  \E t \in Task :
    \/ \E s \in TaskStatus : BeginSet(p, t, s)
    \/ BeginTouch(p, t) \/ BeginRemove(p, t) \/ BeginAdd(p, t)

Next ==
  \E p \in Request :
    \/ BeginStep(p)
    \/ \E v \in PlanStatus : BeginEdit(p, v)
    \/ WriteTask(p) \/ SavePlan(p) \/ SaveTask(p) \/ SaveEdit(p)
    \/ LoseRequest(p)

Spec == Init /\ [][Next]_vars

-----------------------------------------------------------------------------
(* The stored percentage is that of the tasks and a plan is completed only if
   every task is, unless requests overlapped or a task was added since the
   last undisturbed count: complete, skip, reopen, deletions and edits, in any
   order and some of them lost, keep the plan true to its tasks. *)
PlanFollowsTasks ==
  ~stale =>
    /\ progress = Counted(taskStatus)
    /\ planStatus = "completed" => Rows(taskStatus) = Done(taskStatus)

(* Work on the tasks of a cancelled plan never revives it: only an edit of the
   plan does, or a request another has overlapped (it saves the status it read
   before the cancellation). *)
CancelledKept ==
  [][planStatus = "cancelled" /\ planStatus' # "cancelled" =>
       \E p \in Request :
         /\ Busy(p) /\ ~Busy(p)'
         /\ request[p].op = "edit" \/ p \notin undisturbed]_vars

(* A completed plan has only completed tasks (the rule validate_status gives
   for it).  The code breaks it: the task POSTed to a completed plan is not
   counted. *)
CompletedMeansDone ==
  planStatus = "completed" => Rows(taskStatus) = Done(taskStatus)

=============================================================================
