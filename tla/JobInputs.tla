------------------------------ MODULE JobInputs ------------------------------
(***************************************************************************)
(* What one AI job works on (ai_integration, sources): the request is      *)
(* checked against the sources, the job is created with the input built    *)
(* from them, and its dispatch builds the input again from what the rows   *)
(* say by then.  AIJobs and AIJobDelivery have the rest of the job.        *)
(*                                                                         *)
(* Sources are numbers, ordered as their ids are.  Field formats, the      *)
(* ownership checks (one student here) and the wording of the input are    *)
(* left out.                                                               *)
(***************************************************************************)
EXTENDS Naturals, FiniteSets

CONSTANTS
  Material,           \* the sources
  Audio,              \* those that are recordings; the others are texts
  Folder,             \* the collection
  NoMaterial,         \* neither a source nor the collection
  MaxIds              \* how many sources of a collection a job takes: 10

ASSUME InputsAssumption ==
  /\ Material \subseteq Nat /\ IsFiniteSet(Material) /\ Audio \subseteq Material
  /\ {Folder, NoMaterial} \cap Material = {} /\ Folder # NoMaterial
  /\ MaxIds \in Nat \ {0}

VARIABLES
  item,               \* the rows of the sources, or Withdrawn
  folder,             \* the collection: "kept" or "removed"
  order,              \* the request, and then the job; or NoOrder
  stirred,            \* history: a row changed since the job was created
  withdrawn           \* history: the job's source or collection was deleted

inputVars == <<item, folder, order, stirred, withdrawn>>

Withdrawn == [status |-> "withdrawn"]
(* "processing" is never seen by others: it is set within a transaction. *)
Item == [status : {"uploaded", "ready", "failed"}, filed : BOOLEAN]

Target == Material \cup {Folder, NoMaterial}
Task == {"quiz", "plan", "advice", "transcript"}

NoOrder == [stage |-> "none"]
Order ==
  [stage : {"checked", "queued", "taken", "sent", "failed"}, task : Task,
   target : Target, accepted : SUBSET Material, sent : SUBSET Material]

InputsTypeOK ==
  /\ item \in [Material -> Item \cup {Withdrawn}]
  /\ folder \in {"kept", "removed"}
  /\ order \in Order \cup {NoOrder}
  /\ stirred \in BOOLEAN /\ withdrawn \in BOOLEAN

InputsInit ==
  /\ item \in [Material -> [status : {"uploaded"}, filed : BOOLEAN]]
  /\ folder = "kept"
  /\ order = NoOrder
  /\ stirred = FALSE /\ withdrawn = FALSE

-----------------------------------------------------------------------------
Exists(t) == (t \in Material => item[t] # Withdrawn) /\ (t = Folder => folder = "kept")

Usable == {s \in Material : item[s] \in Item /\ item[s].filed /\ item[s].status # "failed"}

(* _source_ids; a collection gives its first usable sources. *)
SourceIds(t) ==
  IF t = Folder THEN {s \in Usable : Cardinality({r \in Usable : r < s}) < MaxIds}
  ELSE IF t = NoMaterial THEN {} ELSE {t}

(* Mutant: a transcript of nothing passes. *)
BuildableWithoutRecording(task, t) ==
  task \in {"quiz", "plan"} /\ t = Folder => Usable # {}

(* The errors of the builders: advice asks for no sources; a collection must
   have a usable one; a transcript is of one recording. *)
Buildable(task, t) ==
  /\ task \in {"quiz", "plan"} /\ t = Folder => Usable # {}
  /\ task = "transcript" => t \in Audio

Ids(task, t) == IF task = "advice" THEN {} ELSE SourceIds(t)

(* AIJobCreateSerializer, use_source_with_character and
   use_collection_with_character: what a request may name. *)
Acceptable(task, t) ==
  /\ Exists(t)
  /\ task = "quiz" => t # NoMaterial
  /\ task = "transcript" => t \in Audio
  /\ t \in Material => item[t].status # "failed"

AskForJob(task, t) ==
  /\ order = NoOrder
  /\ Acceptable(task, t)
  /\ order' = [stage |-> "checked", task |-> task, target |-> t, accepted |-> {}, sent |-> {}]
  /\ UNCHANGED <<item, folder, stirred, withdrawn>>

(* create_ai_job: the input is built, and the row inserted, which fails when
   what it names is gone by now. *)
CreateJobWithInput ==
  /\ order.stage = "checked"
  /\ IF Buildable(order.task, order.target) /\ Exists(order.target)
     THEN order' = [order EXCEPT !.stage = "queued", !.accepted = Ids(order.task, order.target)]
     ELSE order' = NoOrder
  /\ UNCHANGED <<item, folder, stirred, withdrawn>>

(* The task reads the row of the job, ... *)
TakeJob ==
  /\ order.stage = "queued"
  /\ order' = [order EXCEPT !.stage = "taken"]
  /\ UNCHANGED <<item, folder, stirred, withdrawn>>

(* ... and then the rows it names; the input is built and sent, or the job
   fails. *)
BuildAndSend ==
  /\ order.stage = "taken"
  /\ order' = IF Exists(order.target) /\ Buildable(order.task, order.target)
              THEN [order EXCEPT !.stage = "sent", !.sent = Ids(order.task, order.target)]
              ELSE [order EXCEPT !.stage = "failed"]
  /\ UNCHANGED <<item, folder, stirred, withdrawn>>

-----------------------------------------------------------------------------
Accepted == order.stage \in {"queued", "taken"}
Stir == stirred' = (stirred \/ Accepted)

(* SET_NULL: a queued job loses what it named.  The execution that has read
   the row goes on with what it read. *)
LoseTarget(t) ==
  /\ order' = IF order.stage = "queued" /\ order.target = t
              THEN [order EXCEPT !.target = NoMaterial] ELSE order
  /\ withdrawn' = (withdrawn \/ (Accepted /\ order.target = t))

(* DELETE of a source. *)
WithdrawSource(s) ==
  /\ item[s] # Withdrawn
  /\ item' = [item EXCEPT ![s] = Withdrawn]
  /\ LoseTarget(s) /\ Stir
  /\ UNCHANGED folder

(* DELETE of the collection, when it has no sources. *)
RemoveFolder ==
  /\ folder = "kept"
  /\ \A s \in Material : item[s] # Withdrawn => ~item[s].filed
  /\ folder' = "removed"
  /\ LoseTarget(Folder) /\ Stir
  /\ UNCHANGED item

(* PATCH of a source: into the collection, or out of it. *)
Refile(s) ==
  /\ item[s] # Withdrawn /\ folder = "kept"
  /\ item' = [item EXCEPT ![s].filed = ~@]
  /\ Stir
  /\ UNCHANGED <<folder, order, withdrawn>>

(* Mutant: the status is saved before the work, and stays when that is lost. *)
ProcessMaterialHalfway(s) ==
  /\ item[s] # Withdrawn /\ item[s].status # "ready"
  /\ item' = [item EXCEPT ![s].status = "processing"]
  /\ Stir
  /\ UNCHANGED <<folder, order, withdrawn>>

(* process_source: texts are read, recordings are left to the AI service. *)
ProcessMaterial(s) ==
  /\ item[s] # Withdrawn /\ item[s].status # "ready"
  /\ item' \in {[item EXCEPT ![s].status = status] :
                 status \in {"failed", IF s \in Audio THEN "uploaded" ELSE "ready"}}
  /\ Stir
  /\ UNCHANGED <<folder, order, withdrawn>>

-----------------------------------------------------------------------------
MaterialStep(s) == WithdrawSource(s) \/ Refile(s) \/ ProcessMaterial(s)

InputsNext ==
  \/ \E task \in Task, t \in Target : AskForJob(task, t)
  \/ CreateJobWithInput \/ TakeJob \/ BuildAndSend
  \/ RemoveFolder \/ \E s \in Material : MaterialStep(s)

InputsSpec == InputsInit /\ [][InputsNext]_inputVars

-----------------------------------------------------------------------------
(* The AI service works on what was accepted, as long as no row changes on the
   way; and whatever changes, a quiz is asked for without any source only when
   what it named was deleted on the way, a transcript never, and a job never
   takes more sources of a collection than it may. *)
SentWithMaterial ==
  order.stage = "sent" =>
    /\ ~stirred => order.sent = order.accepted
    /\ order.task = "quiz" => order.sent # {} \/ withdrawn
    /\ order.task = "transcript" => order.sent = order.accepted /\ order.sent # {}
    /\ Cardinality(order.sent) <= MaxIds
=============================================================================
