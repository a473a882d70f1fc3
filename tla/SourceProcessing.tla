-------------------------- MODULE SourceProcessing --------------------------
(***************************************************************************)
(* What becomes of one uploaded text source (apps/sources/tasks.py and     *)
(* services.process_source): messages to the workers, executions that look *)
(* at the row before they lock it, PATCH requests that save the whole row  *)
(* they read, and deletions.  Messages are acknowledged when the execution *)
(* ends (CELERY_TASK_ACKS_LATE), so one whose worker dies is delivered     *)
(* again.                                                                  *)
(***************************************************************************)
EXTENDS Naturals

CONSTANTS
  Worker,             \* the executions that can be under way at a time
  Editor,             \* the PATCH requests that can be open at a time
  MaxSends            \* bound: the messages sent in all

ASSUME ProcessingAssumption == MaxSends \in Nat \ {0}

VARIABLES
  text_row,           \* the row of the source, or Deleted
  disk,               \* the file: stored, about to be removed, or removed
  unread,             \* messages at the broker
  execution,          \* per worker: what it is at
  edit,               \* per editor: the row it read, or NoEdit
  sends,              \* messages sent so far
  unsent,             \* history: a message could not be sent
  overwritten,        \* history: a PATCH saved a row that had changed
  refused             \* history: the database refused the work of an execution,
                      \* and no processing was asked for since

rowState == <<text_row, disk>>
brokerState == <<unread, execution, sends>>
processingHistory == <<unsent, overwritten, refused>>
processingVars == <<rowState, brokerState, edit, processingHistory>>

Deleted == [status |-> "deleted"]
NoEdit == [status |-> "none"]
(* "processing" is set and replaced within one transaction. *)
TextRow == [status : {"uploaded", "ready", "failed"}, text : BOOLEAN]

ProcessingTypeOK ==
  /\ text_row \in TextRow \cup {Deleted}
  /\ disk \in {"stored", "unlinking", "removed"}
  /\ unread \in 0..MaxSends /\ sends \in 0..MaxSends
  /\ execution \in [Worker -> {"idle", "looking"}]
  /\ edit \in [Editor -> TextRow \cup {NoEdit}]
  /\ unsent \in BOOLEAN /\ overwritten \in BOOLEAN /\ refused \in BOOLEAN

(* After the commit of the upload: its message is sent, or is not. *)
ProcessingInit ==
  /\ text_row = [status |-> "uploaded", text |-> FALSE]
  /\ disk = "stored"
  /\ unread \in {0, 1} /\ unsent = (unread = 0) /\ sends = 1
  /\ execution = [w \in Worker |-> "idle"]
  /\ edit = [e \in Editor |-> NoEdit]
  /\ overwritten = FALSE /\ refused = FALSE

-----------------------------------------------------------------------------
(* POST process: another message, whatever the status. *)
RequestProcessing ==
  /\ text_row # Deleted
  /\ sends < MaxSends
  /\ sends' = sends + 1 /\ unread' = unread + 1
  /\ refused' = FALSE
  /\ UNCHANGED <<rowState, execution, edit, unsent, overwritten>>

(* The check at the head of the task. *)
WorthProcessing == text_row.status \notin {"deleted", "ready"}

(* A worker takes a message; with nothing to do it acknowledges it at once. *)
TakeMessage(w) ==
  /\ execution[w] = "idle" /\ unread > 0
  /\ unread' = unread - 1
  /\ execution' = [execution EXCEPT ![w] = IF WorthProcessing THEN "looking" ELSE "idle"]
  /\ UNCHANGED <<rowState, sends, edit, processingHistory>>

(* Mutant: the text is left to a later step. *)
ResultsWithoutText ==
  {[text_row EXCEPT !.status = "failed"], [text_row EXCEPT !.status = "ready"]}

(* Mutant: an exception is caught and nothing recorded. *)
ResultsSwallowed ==
  {text_row} \cup
  (IF disk # "removed" THEN {[status |-> "ready", text |-> TRUE]} ELSE {})

(* What process_source can save.  Whatever goes wrong with the file, an error of
   the storage too, is caught and recorded as a failure: the retries the task
   declares for OSError never happen. *)
Results ==
  {[text_row EXCEPT !.status = "failed"]} \cup
  (IF disk # "removed" THEN {[status |-> "ready", text |-> TRUE]} ELSE {})

(* The row is locked, read again, and saved with the outcome.  If the database
   refuses a save, as it does a text with a NUL, the handler's own save fails in
   the broken transaction: everything is rolled back, and the message, whose
   error is none the task retries, is acknowledged. *)
Process(w) ==
  /\ execution[w] = "looking"
  /\ execution' = [execution EXCEPT ![w] = "idle"]
  /\ \/ /\ IF text_row = Deleted THEN UNCHANGED text_row ELSE text_row' \in Results
        /\ UNCHANGED refused
     \/ text_row # Deleted /\ refused' = TRUE /\ UNCHANGED text_row
  /\ UNCHANGED <<disk, unread, sends, edit, unsent, overwritten>>

(* Mutant: messages are acknowledged when they are taken. *)
LoseWorkerAndMessage(w) ==
  /\ execution[w] = "looking"
  /\ execution' = [execution EXCEPT ![w] = "idle"]
  /\ UNCHANGED <<rowState, unread, sends, edit, processingHistory>>

(* The worker dies (bounded by the sends): the transaction is rolled back and
   the message goes back to the broker. *)
LoseWorker(w) ==
  /\ execution[w] = "looking"
  /\ sends < MaxSends /\ sends' = sends + 1
  /\ execution' = [execution EXCEPT ![w] = "idle"]
  /\ unread' = unread + 1
  /\ UNCHANGED <<rowState, edit, processingHistory>>

-----------------------------------------------------------------------------
(* PATCH: get_object, and later a save of every column. *)
ReadForEdit(e) ==
  /\ text_row # Deleted /\ edit[e] = NoEdit
  /\ edit' = [edit EXCEPT ![e] = text_row]
  /\ UNCHANGED <<rowState, brokerState, processingHistory>>

SaveEditedRow(e) ==
  /\ edit[e] # NoEdit
  /\ text_row' = edit[e]
  /\ edit' = [edit EXCEPT ![e] = NoEdit]
  /\ overwritten' = (overwritten \/ text_row # edit[e])
  /\ UNCHANGED <<disk, brokerState, unsent, refused>>

DropEdit(e) ==
  /\ edit[e] # NoEdit
  /\ edit' = [edit EXCEPT ![e] = NoEdit]
  /\ UNCHANGED <<rowState, brokerState, processingHistory>>

(* DELETE: the row, and then the file. *)
DeleteRow ==
  /\ text_row # Deleted
  /\ text_row' = Deleted
  /\ disk' = IF disk = "stored" THEN "unlinking" ELSE disk
  /\ UNCHANGED <<brokerState, edit, processingHistory>>

DeleteFile ==
  /\ disk = "unlinking"
  /\ disk' = "removed"
  /\ UNCHANGED <<text_row, brokerState, edit, processingHistory>>

-----------------------------------------------------------------------------
WorkerStep(w) == TakeMessage(w) \/ Process(w)

ProcessingNext ==
  \/ RequestProcessing \/ DeleteRow \/ DeleteFile
  \/ \E w \in Worker : WorkerStep(w) \/ LoseWorker(w)
  \/ \E e \in Editor : ReadForEdit(e) \/ SaveEditedRow(e) \/ DropEdit(e)

ProcessingSpec ==
  /\ ProcessingInit /\ [][ProcessingNext]_processingVars
  /\ \A w \in Worker : WF_processingVars(WorkerStep(w))

-----------------------------------------------------------------------------
(* A ready source has its extracted text, although a PATCH may save an older
   row over a newer one: status and text are written and saved together. *)
ReadyHasText == text_row.status = "ready" => text_row.text

UnderWay == unread > 0 \/ \E w \in Worker : execution[w] = "looking"

(* A source that still waits to be processed has a message or an execution
   under way, unless its message was never sent, a PATCH put an older status
   back, or the database refused what an execution saved: a worker that dies,
   messages taken in any order and repeated processing lose no source. *)
NoneForgotten ==
  text_row.status = "uploaded" => UnderWay \/ unsent \/ overwritten \/ refused

(* What the task and process_source keep between messages, rows and workers:
   a ready source can be read, and one that waits is not forgotten. *)
ProcessingSound == ReadyHasText /\ NoneForgotten

(* With workers that keep working, a source with a message or an execution
   under way, the first one or one asked for again, is eventually ready,
   failed, deleted, overwritten, or refused by the database. *)
EventuallyProcessed ==
  (text_row.status = "uploaded" /\ UnderWay)
    ~> (text_row.status # "uploaded" \/ overwritten \/ refused)
=============================================================================
