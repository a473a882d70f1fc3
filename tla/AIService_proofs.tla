-------------------------- MODULE AIService_proofs ---------------------------
(***************************************************************************)
(* Proofs about what passes between the platform and the AI service beside *)
(* the jobs themselves: the processing of a source, the inputs of a job,   *)
(* the forwarding of feedback and the door the service calls at, for any   *)
(* value of their constants.                                               *)
(***************************************************************************)
EXTENDS SourceProcessing, JobInputs, FeedbackForwarding, ServiceGate, FiniteSetTheorems, WellFoundedInduction, TLAPS

-----------------------------------------------------------------------------
(***************************************************************************)
(* SourceProcessing, for any workers, editors and number of messages.      *)
(*                                                                         *)
(* ProcessingSound speaks of the row alone, and a PATCH saves one that was *)
(* read earlier.  ProcessingInv adds that the rows that were read are as   *)
(* sound as the one in the table, and that no more messages are unread     *)
(* than were sent.                                                         *)
(***************************************************************************)

Sound(row) == row.status = "ready" => row.text

RowsReadSound == \A e \in Editor : edit[e] # NoEdit => Sound(edit[e])

ProcessingInv ==
  ProcessingTypeOK /\ unread <= sends /\ RowsReadSound /\ ProcessingSound

-----------------------------------------------------------------------------
(* A row is in the table or it is not, and an edit carries one or none. *)
LEMMA RowsApart == Deleted \notin TextRow /\ NoEdit \notin TextRow
<1>1. \A row \in TextRow : row.status \in {"uploaded", "ready", "failed"}
  BY DEF TextRow
<1> QED BY <1>1 DEF Deleted, NoEdit

(* An upload leaves a row without text and a message, or is known to have sent
   none. *)
LEMMA ProcessingInitInv == ProcessingInit => ProcessingInv
<1> SUFFICES ASSUME ProcessingInit PROVE ProcessingInv
  OBVIOUS
<1>1. ProcessingTypeOK /\ unread <= sends
  <2>1. text_row \in TextRow
    BY DEF ProcessingInit, TextRow
  <2>2. unread \in 0..MaxSends /\ sends \in 0..MaxSends /\ unread <= sends
    BY ProcessingAssumption DEF ProcessingInit
  <2>3. unsent \in BOOLEAN
    BY DEF ProcessingInit
  <2> QED BY <2>1, <2>2, <2>3 DEF ProcessingInit, ProcessingTypeOK
<1>2. RowsReadSound
  BY DEF ProcessingInit, RowsReadSound
<1>3. ProcessingSound
  <2>1. unread > 0 \/ unsent
    <3>1. CASE unread = 0
      BY <3>1, Zenon DEF ProcessingInit
    <3>2. CASE unread = 1
      BY <3>2
    <3> QED BY <3>1, <3>2 DEF ProcessingInit
  <2> QED BY <2>1 DEF ProcessingInit, ProcessingSound, ReadyHasText, NoneForgotten, UnderWay
<1> QED BY <1>1, <1>2, <1>3 DEF ProcessingInv

(* More messages: nothing is forgotten for it. *)
LEMMA RequestKeepsInv == ASSUME ProcessingInv, RequestProcessing PROVE ProcessingInv'
<1>1. ProcessingTypeOK' /\ (unread <= sends)'
  <2>1. unread' \in 0..MaxSends /\ sends' \in 0..MaxSends /\ (unread <= sends)'
    BY ProcessingAssumption DEF ProcessingInv, ProcessingTypeOK, RequestProcessing
  <2>2. refused' \in BOOLEAN
    BY DEF RequestProcessing
  <2> QED BY <2>1, <2>2 DEF ProcessingInv, ProcessingTypeOK, RequestProcessing, rowState
<1>2. RowsReadSound' /\ ReadyHasText'
  BY DEF ProcessingInv, RequestProcessing, RowsReadSound, Sound, ProcessingSound,
         ReadyHasText, rowState
<1>3. NoneForgotten'
  BY DEF ProcessingInv, ProcessingTypeOK, RequestProcessing, NoneForgotten, UnderWay
<1> QED BY <1>1, <1>2, <1>3 DEF ProcessingInv, ProcessingSound

(* A source that waits is worth processing: its message becomes an execution. *)
LEMMA ProcessingTakeKeepsInv ==
  ASSUME ProcessingInv, NEW w \in Worker, TakeMessage(w) PROVE ProcessingInv'
<1>1. ProcessingTypeOK' /\ (unread <= sends)'
  <2>1. unread' \in 0..MaxSends /\ unread' <= sends'
    BY ProcessingAssumption DEF ProcessingInv, ProcessingTypeOK, TakeMessage
  <2>2. execution' \in [Worker -> {"idle", "looking"}]
    BY DEF ProcessingInv, ProcessingTypeOK, TakeMessage
  <2> QED BY <2>1, <2>2 DEF ProcessingInv, ProcessingTypeOK, TakeMessage, rowState, processingHistory
<1>2. RowsReadSound' /\ ReadyHasText'
  BY DEF ProcessingInv, TakeMessage, RowsReadSound, Sound, ProcessingSound,
         ReadyHasText, rowState
<1>3. NoneForgotten'
  <2> SUFFICES ASSUME text_row'.status = "uploaded" PROVE UnderWay'
    BY DEF NoneForgotten
  <2>1. text_row' = text_row /\ WorthProcessing
    BY DEF TakeMessage, rowState, WorthProcessing
  <2>2. execution'[w] = "looking"
    BY <2>1 DEF TakeMessage, ProcessingInv, ProcessingTypeOK
  <2> QED BY <2>2 DEF UnderWay
<1> QED BY <1>1, <1>2, <1>3 DEF ProcessingInv, ProcessingSound

(* An execution decides, and the source no longer waits, or the database
   refuses what it saves, and that is known. *)
LEMMA ProcessKeepsInv ==
  ASSUME ProcessingInv, NEW w \in Worker, Process(w) PROVE ProcessingInv'
<1>0. refused' \in BOOLEAN
  <2>1. refused \in BOOLEAN /\ (refused' = refused \/ refused' = TRUE)
    BY DEF ProcessingInv, ProcessingTypeOK, Process
  <2> QED BY <2>1
<1>1. CASE text_row' = text_row /\ (text_row = Deleted \/ refused')
  <2>1. text_row' = Deleted \/ refused'
    BY <1>1
  <2>2. ProcessingTypeOK' /\ (unread <= sends)'
    BY <1>0, <1>1 DEF ProcessingInv, ProcessingTypeOK, Process
  <2>3. RowsReadSound' /\ ReadyHasText'
    BY <1>1 DEF ProcessingInv, Process, RowsReadSound, Sound, ProcessingSound, ReadyHasText
  <2>4. NoneForgotten'
    BY <2>1 DEF NoneForgotten, Deleted
  <2> QED BY <2>2, <2>3, <2>4 DEF ProcessingInv, ProcessingSound
<1>2. CASE text_row # Deleted /\ text_row' \in Results
  <2>1. text_row \in TextRow /\ text_row' \in Results
    BY <1>2 DEF ProcessingInv, ProcessingTypeOK
  <2>2. /\ text_row' \in TextRow
        /\ \/ text_row'.status = "failed"
           \/ text_row'.status = "ready" /\ text_row'.text
    <3>1. CASE text_row' = [text_row EXCEPT !.status = "failed"]
      BY <2>1, <3>1 DEF TextRow
    <3>2. CASE text_row' = [status |-> "ready", text |-> TRUE]
      BY <3>2 DEF TextRow
    <3> QED BY <2>1, <3>1, <3>2 DEF Results
  <2>3. ProcessingTypeOK' /\ (unread <= sends)'
    BY <1>0, <2>2 DEF ProcessingInv, ProcessingTypeOK, Process
  <2>4. RowsReadSound' /\ ProcessingSound'
    BY <2>2 DEF ProcessingInv, Process, RowsReadSound, Sound, ProcessingSound, ReadyHasText,
                NoneForgotten
  <2> QED BY <2>3, <2>4 DEF ProcessingInv
<1> QED BY <1>1, <1>2 DEF Process

(* The message of a worker that dies is unread again. *)
LEMMA LoseKeepsInv ==
  ASSUME ProcessingInv, NEW w \in Worker, LoseWorker(w) PROVE ProcessingInv'
<1>1. ProcessingTypeOK' /\ (unread <= sends)'
  BY ProcessingAssumption DEF ProcessingInv, ProcessingTypeOK, LoseWorker, rowState, processingHistory
<1>2. RowsReadSound' /\ ReadyHasText'
  BY DEF ProcessingInv, LoseWorker, RowsReadSound, Sound, ProcessingSound,
         ReadyHasText, rowState
<1>3. NoneForgotten'
  BY DEF ProcessingInv, ProcessingTypeOK, LoseWorker, NoneForgotten, UnderWay, processingHistory
<1> QED BY <1>1, <1>2, <1>3 DEF ProcessingInv, ProcessingSound

-----------------------------------------------------------------------------
(* What an edit has read was sound when it was read. *)
LEMMA ReadKeepsInv ==
  ASSUME ProcessingInv, NEW e \in Editor, ReadForEdit(e) PROVE ProcessingInv'
<1>1. text_row \in TextRow /\ Sound(text_row)
  BY DEF ReadForEdit, ProcessingInv, ProcessingTypeOK, ProcessingSound, ReadyHasText, Sound
<1>2. ProcessingTypeOK' /\ (unread <= sends)'
  BY <1>1 DEF ProcessingInv, ProcessingTypeOK, ReadForEdit, rowState, brokerState, processingHistory
<1>3. RowsReadSound'
  BY <1>1 DEF ProcessingInv, ProcessingTypeOK, ReadForEdit, RowsReadSound, Sound
<1>4. ProcessingSound'
  BY DEF ProcessingInv, ReadForEdit, ProcessingSound, ReadyHasText, NoneForgotten, UnderWay,
         rowState, brokerState, processingHistory
<1> QED BY <1>2, <1>3, <1>4 DEF ProcessingInv

(* A save puts a sound row back: the one that is there, or it overwrites. *)
LEMMA ProcessingSaveKeepsInv ==
  ASSUME ProcessingInv, NEW e \in Editor, SaveEditedRow(e) PROVE ProcessingInv'
<1>1. text_row' \in TextRow /\ text_row' = edit[e] /\ Sound(edit[e])
  BY DEF SaveEditedRow, ProcessingInv, ProcessingTypeOK, RowsReadSound
<1>2. ProcessingTypeOK' /\ (unread <= sends)'
  BY <1>1 DEF ProcessingInv, ProcessingTypeOK, SaveEditedRow, brokerState
<1>3. RowsReadSound'
  BY DEF ProcessingInv, ProcessingTypeOK, SaveEditedRow, RowsReadSound, Sound
<1>4. ReadyHasText'
  BY <1>1 DEF ReadyHasText, Sound
<1>5. NoneForgotten'
  <2>1. CASE text_row = edit[e]
    BY <1>1, <2>1 DEF ProcessingInv, ProcessingSound, SaveEditedRow, NoneForgotten, UnderWay,
                      brokerState
  <2>2. CASE text_row # edit[e]
    BY <2>2 DEF SaveEditedRow, NoneForgotten
  <2> QED BY <2>1, <2>2
<1> QED BY <1>2, <1>3, <1>4, <1>5 DEF ProcessingInv, ProcessingSound

LEMMA DropKeepsInv ==
  ASSUME ProcessingInv, NEW e \in Editor, DropEdit(e) PROVE ProcessingInv'
<1>1. ProcessingTypeOK' /\ (unread <= sends)'
  BY DEF ProcessingInv, ProcessingTypeOK, DropEdit, rowState, brokerState, processingHistory
<1>2. RowsReadSound'
  BY DEF ProcessingInv, ProcessingTypeOK, DropEdit, RowsReadSound, Sound
<1>3. ProcessingSound'
  BY DEF ProcessingInv, DropEdit, ProcessingSound, ReadyHasText, NoneForgotten, UnderWay,
         rowState, brokerState, processingHistory
<1> QED BY <1>1, <1>2, <1>3 DEF ProcessingInv

(* A deleted source has nothing to wait for. *)
LEMMA DeleteKeepsInv ==
  ASSUME ProcessingInv, DeleteRow \/ DeleteFile PROVE ProcessingInv'
<1>1. ProcessingTypeOK' /\ (unread <= sends)'
  BY DEF ProcessingInv, ProcessingTypeOK, DeleteRow, DeleteFile, brokerState, processingHistory
<1>2. RowsReadSound'
  BY DEF ProcessingInv, DeleteRow, DeleteFile, RowsReadSound, Sound
<1>3. ProcessingSound'
  BY DEF ProcessingInv, DeleteRow, DeleteFile, ProcessingSound, ReadyHasText, NoneForgotten,
         UnderWay, Deleted, brokerState, processingHistory
<1> QED BY <1>1, <1>2, <1>3 DEF ProcessingInv

(* Every step keeps the invariant. *)
THEOREM ProcessingInvariance == ProcessingSpec => []ProcessingInv
<1>1. ProcessingInv /\ [ProcessingNext]_processingVars => ProcessingInv'
  <2> SUFFICES ASSUME ProcessingInv, [ProcessingNext]_processingVars PROVE ProcessingInv'
    OBVIOUS
  <2>1. CASE UNCHANGED processingVars
    BY <2>1 DEF processingVars, rowState, brokerState, processingHistory, ProcessingInv, ProcessingTypeOK,
         RowsReadSound, Sound, ProcessingSound, ReadyHasText, NoneForgotten, UnderWay
  <2>2. CASE ProcessingNext
    BY <2>2, RequestKeepsInv, ProcessingTakeKeepsInv, ProcessKeepsInv, LoseKeepsInv, ReadKeepsInv,
       ProcessingSaveKeepsInv, DropKeepsInv, DeleteKeepsInv DEF ProcessingNext, WorkerStep
  <2> QED BY <2>1, <2>2
<1> QED BY <1>1, ProcessingInitInv, PTL DEF ProcessingSpec

-----------------------------------------------------------------------------
(* Every variable keeps its type. *)
THEOREM ProcessingTypeCorrect == ProcessingSpec => []ProcessingTypeOK
<1>1. ProcessingInv => ProcessingTypeOK
  BY DEF ProcessingInv
<1> QED BY <1>1, ProcessingInvariance, PTL

(* A ready source has its text, and one that waits has a message or an execution
   under way unless its message was never sent, a PATCH put an older status
   back, or the database refused what an execution saved, however executions,
   lost workers, PATCH requests and deletions interleave: sources/tasks.py:15-21,
   services.py:40-68. *)
THEOREM ProcessingHolds == ProcessingSpec => []ProcessingSound
<1>1. ProcessingInv => ProcessingSound
  BY DEF ProcessingInv
<1> QED BY <1>1, ProcessingInvariance, PTL

-----------------------------------------------------------------------------
(***************************************************************************)
(* JobInputs, for any finite set of sources and any limit of a job.        *)
(*                                                                         *)
(* SentWithMaterial speaks of what was sent, which is decided when the input *)
(* is built for the second time.  InputsInv adds what holds until then: while *)
(* no row changes, what was accepted is what would be built now            *)
(* (AcceptedFits), a transcript is of one recording and that one was       *)
(* accepted, and a quiz of nothing had its material deleted (NamedMaterial). *)
(* A collection with a usable source gives one, and never more than MaxIds: *)
(* lemma FirstSources, from the least and the greatest of a finite set.    *)
(***************************************************************************)

(* A finite set of numbers has a least and a greatest element: take one with
   the fewest below it, or above it. *)
LEMMA Extremes ==
  ASSUME NEW S \in SUBSET Nat, IsFiniteSet(S), S # {}
  PROVE  /\ \E m \in S : \A r \in S : m <= r
         /\ \E m \in S : \A r \in S : r <= m
<1> DEFINE R == StrictSubsetOrdering(S)
           Down(m) == {r \in S : r < m}
           Up(m) == {r \in S : r > m}
<1>0. \A r \in S : r \in Nat
  OBVIOUS
<1>1. IsWellFoundedOn(R, FiniteSubsetsOf(S))
  BY FS_StrictSubsetOrderingWellFounded
<1>2. FiniteSubsetsOf(S) = SUBSET S
  BY FS_FiniteSubsetsOfFinite
<1>3. \E m \in S : \A r \in S : m <= r
  <2> DEFINE T == {Down(m) : m \in S}
  <2>0. \A m \in S : Down(m) \in FiniteSubsetsOf(S)
    BY <1>2
  <2>1. T \subseteq FiniteSubsetsOf(S) /\ T # {}
    <3> HIDE DEF Down
    <3> QED BY <2>0
  <2> HIDE DEF T, R
  <2>2. \E x \in T : \A y \in T : ~(<<y, x>> \in R)
    BY <1>1, <2>1, WFMin
  <2>3. PICK m \in S : \A k \in S : ~(<<Down(k), Down(m)>> \in R)
    BY <2>2 DEF T
  <2>4. ASSUME NEW r \in S, r < m PROVE FALSE
    <3>0. r \in Nat /\ m \in Nat /\ \A k \in S : k \in Nat /\ (k < r => k < m)
      BY <1>0, <2>4
    <3>1. Down(r) \subseteq Down(m) /\ r \in Down(m) /\ r \notin Down(r)
      <4>1. Down(r) \subseteq Down(m)
        BY <3>0
      <4>2. r \in Down(m)
        BY <2>4
      <4>3. r \notin Down(r)
        BY <3>0
      <4> QED BY <4>1, <4>2, <4>3
    <3>2. <<Down(r), Down(m)>> \in R
      BY <3>1 DEF StrictSubsetOrdering, R
    <3> QED BY <2>3, <3>2
  <2> QED BY <1>0, <2>4
<1>4. \E m \in S : \A r \in S : r <= m
  <2> DEFINE T == {Up(m) : m \in S}
  <2>0. \A m \in S : Up(m) \in FiniteSubsetsOf(S)
    BY <1>2
  <2>1. T \subseteq FiniteSubsetsOf(S) /\ T # {}
    <3> HIDE DEF Up
    <3> QED BY <2>0
  <2> HIDE DEF T, R
  <2>2. \E x \in T : \A y \in T : ~(<<y, x>> \in R)
    BY <1>1, <2>1, WFMin
  <2>3. PICK m \in S : \A k \in S : ~(<<Up(k), Up(m)>> \in R)
    BY <2>2 DEF T
  <2>4. ASSUME NEW r \in S, m < r PROVE FALSE
    <3>0. r \in Nat /\ m \in Nat /\ \A k \in S : k \in Nat /\ (k > r => k > m)
      BY <1>0, <2>4
    <3>1. Up(r) \subseteq Up(m) /\ r \in Up(m) /\ r \notin Up(r)
      <4>1. Up(r) \subseteq Up(m)
        BY <3>0
      <4>2. r \in Up(m)
        BY <2>4
      <4>3. r \notin Up(r)
        BY <3>0
      <4> QED BY <4>1, <4>2, <4>3
    <3>2. <<Up(r), Up(m)>> \in R
      BY <3>1 DEF StrictSubsetOrdering, R
    <3> QED BY <2>3, <3>2
  <2> QED BY <1>0, <2>4
<1> QED BY <1>3, <1>4

(* What a collection gives: some of the usable sources, if there are any, and
   no more than a job may take. *)
LEMMA FirstSources ==
  /\ SourceIds(Folder) \subseteq Usable
  /\ Usable # {} => SourceIds(Folder) # {}
  /\ IsFiniteSet(SourceIds(Folder)) /\ Cardinality(SourceIds(Folder)) <= MaxIds
<1> DEFINE Before(s) == {r \in Usable : r < s}
           First == SourceIds(Folder)
<1>1. Usable \in SUBSET Nat /\ IsFiniteSet(Usable)
  BY InputsAssumption, FS_Subset DEF Usable
<1>2. First = {s \in Usable : Cardinality(Before(s)) < MaxIds}
  BY DEF SourceIds
<1>3. \A s \in Usable : IsFiniteSet(Before(s)) /\ Cardinality(Before(s)) \in Nat
  BY <1>1, FS_Subset, FS_CardinalityType
<1>4. First \in SUBSET Usable /\ First \in SUBSET Nat /\ IsFiniteSet(First)
      /\ Cardinality(First) \in Nat
  <2>1. First \in SUBSET Usable
    BY <1>2
  <2> QED BY <1>1, <2>1, FS_Subset, FS_CardinalityType
<1>5. ASSUME Usable # {} PROVE First # {}
  <2>1. PICK m \in Usable : \A r \in Usable : m <= r
    BY <1>1, <1>5, Extremes
  <2>2. Before(m) = {}
    <3>1. \A r \in Usable : r \in Nat /\ m <= r
      BY <1>1, <2>1
    <3> QED BY <3>1
  <2>3. Cardinality(Before(m)) = 0
    BY <2>2, FS_EmptySet
  <2> QED BY <1>2, <2>3, InputsAssumption
<1>6. Cardinality(First) <= MaxIds
  <2>1. CASE First = {}
    BY <2>1, FS_EmptySet, InputsAssumption
  <2>2. CASE First # {}
    <3>1. PICK m \in First : \A r \in First : r <= m
      BY <1>4, <2>2, Extremes
    <3>2. First \ {m} \in SUBSET Before(m)
      BY <1>4, <3>1
    <3>3. m \in Usable /\ Cardinality(Before(m)) < MaxIds
      BY <1>2, <3>1
    <3>4. Cardinality(First \ {m}) <= Cardinality(Before(m))
      BY <1>3, <3>2, <3>3, FS_Subset
    <3>5. Cardinality(First \ {m}) = Cardinality(First) - 1
      BY <1>4, <3>1, FS_RemoveElement
    <3> QED BY <1>3, <1>4, <3>3, <3>4, <3>5, InputsAssumption
  <2> QED BY <2>1, <2>2
<1> QED BY <1>4, <1>5, <1>6

(* What a job takes, for any task and target. *)
LEMMA IdsFit ==
  ASSUME NEW task \in Task, NEW t \in Target
  PROVE  /\ Ids(task, t) \subseteq Material /\ Cardinality(Ids(task, t)) <= MaxIds
         /\ t \in Material /\ task # "advice" => Ids(task, t) = {t}
         /\ task = "quiz" /\ Buildable(task, t) => Ids(task, t) # {} \/ t = NoMaterial
<1>1. Cardinality({}) <= MaxIds /\ Cardinality({t}) <= MaxIds
  <2>1. Cardinality({}) = 0 /\ Cardinality({t}) = 1
    BY FS_EmptySet, FS_Singleton
  <2> QED BY <2>1, InputsAssumption
<1>2. Folder \notin Material /\ NoMaterial \notin Material /\ Folder # NoMaterial
  BY InputsAssumption
<1>3. CASE t = Folder
  BY <1>1, <1>2, <1>3, FirstSources DEF Ids, Buildable, Usable
<1>4. CASE t # Folder
  BY <1>1, <1>2, <1>4 DEF Ids, SourceIds, Target
<1> QED BY <1>3, <1>4

-----------------------------------------------------------------------------
(* What the job knows until its input is sent. *)
AcceptedFits ==
  order.stage \in {"queued", "taken"} =>
    /\ ~stirred => order.accepted = Ids(order.task, order.target)
    /\ order.task = "transcript" =>
         order.target = NoMaterial \/ (order.target \in Audio /\ order.accepted = {order.target})

NamedMaterial ==
  order # NoOrder /\ order.task = "quiz" /\ order.target = NoMaterial => withdrawn

InputsInv == InputsTypeOK /\ AcceptedFits /\ NamedMaterial /\ SentWithMaterial

-----------------------------------------------------------------------------
(* A job has a stage, a task and a target; no order has none. *)
LEMMA Orders ==
  /\ NoOrder.stage = "none" /\ NoOrder \notin Order /\ Withdrawn \notin Item
  /\ \A r \in Order : r.task \in Task /\ r.target \in Target /\ r # NoOrder
<1>1. \A r \in Order : r.stage \in {"checked", "queued", "taken", "sent", "failed"}
  BY DEF Order
<1>2. \A r \in Item : r.status \in {"uploaded", "ready", "failed"}
  BY DEF Item
<1>3. \A r \in Order : r.task \in Task /\ r.target \in Target
  BY DEF Order
<1> QED BY <1>1, <1>2, <1>3 DEF NoOrder, Withdrawn

LEMMA InputsInitInv == InputsInit => InputsInv
<1> SUFFICES ASSUME InputsInit PROVE InputsInv
  OBVIOUS
<1>1. item \in [Material -> Item \cup {Withdrawn}]
  <2>1. [status : {"uploaded"}, filed : BOOLEAN] \subseteq Item
    BY DEF Item
  <2> QED BY <2>1 DEF InputsInit
<1> QED BY <1>1 DEF InputsInit, InputsInv, InputsTypeOK, AcceptedFits, NamedMaterial,
                    SentWithMaterial, NoOrder

(* A quiz is asked for with a target. *)
LEMMA AskKeepsInv ==
  ASSUME InputsInv, NEW task \in Task, NEW t \in Target, AskForJob(task, t) PROVE InputsInv'
<1>1. /\ order' = [stage |-> "checked", task |-> task, target |-> t, accepted |-> {}, sent |-> {}]
      /\ order' \in Order /\ UNCHANGED <<item, folder, stirred, withdrawn>>
      /\ order'.stage = "checked" /\ (order'.task = "quiz" => order'.target # NoMaterial)
  BY DEF AskForJob, Acceptable, Order
<1> QED BY <1>1 DEF InputsInv, InputsTypeOK, AcceptedFits, NamedMaterial, SentWithMaterial

(* What a job is created with is what it would be sent with. *)
LEMMA CreateKeepsInv == ASSUME InputsInv, CreateJobWithInput PROVE InputsInv'
<1>1. order \in Order /\ order.stage = "checked" /\ UNCHANGED <<item, folder, stirred, withdrawn>>
  BY Orders DEF CreateJobWithInput, InputsInv, InputsTypeOK
<1>2. CASE order' = NoOrder
  BY <1>1, <1>2, Orders
     DEF InputsInv, InputsTypeOK, AcceptedFits, NamedMaterial, SentWithMaterial
<1>3. CASE /\ Buildable(order.task, order.target)
           /\ order' = [order EXCEPT !.stage = "queued", !.accepted = Ids(order.task, order.target)]
  <2>1. PICK ids \in SUBSET Material : ids = Ids(order.task, order.target)
    BY <1>1, Orders, IdsFit
  <2>2. /\ order' \in Order /\ order'.stage = "queued" /\ order'.accepted = ids
        /\ order'.task = order.task /\ order'.target = order.target
    <3>1. order' = [order EXCEPT !.stage = "queued", !.accepted = ids]
      BY <1>3, <2>1
    <3> QED BY <1>1, <3>1 DEF Order
  <2>3. Ids(order.task, order.target)' = ids
    BY <1>1, <2>1, <2>2 DEF Ids, SourceIds, Usable
  <2>4. order.task = "transcript" => order.target \in Audio /\ ids = {order.target}
    BY <1>1, <1>3, <2>1, Orders, IdsFit, InputsAssumption DEF Buildable
  <2>5. AcceptedFits'
    BY <2>2, <2>3, <2>4 DEF AcceptedFits
  <2> QED BY <1>1, <2>2, <2>5, Orders DEF InputsInv, InputsTypeOK, NamedMaterial, SentWithMaterial
<1> QED BY <1>2, <1>3 DEF CreateJobWithInput

LEMMA TakeJobKeepsInv == ASSUME InputsInv, TakeJob PROVE InputsInv'
<1>1. order \in Order /\ order.stage = "queued" /\ UNCHANGED <<item, folder, stirred, withdrawn>>
  BY Orders DEF TakeJob, InputsInv, InputsTypeOK
<1>2. /\ order' \in Order /\ order'.stage = "taken" /\ order'.accepted = order.accepted
      /\ order'.task = order.task /\ order'.target = order.target
  BY <1>1 DEF TakeJob, Order
<1>3. Ids(order.task, order.target)' = Ids(order.task, order.target)
  BY <1>1, <1>2 DEF Ids, SourceIds, Usable
<1>4. AcceptedFits'
  BY <1>1, <1>2, <1>3 DEF AcceptedFits, InputsInv
<1> QED BY <1>1, <1>2, <1>4, Orders DEF InputsInv, InputsTypeOK, NamedMaterial, SentWithMaterial

(* What is sent is built from the rows of now. *)
LEMMA SendKeepsInv == ASSUME InputsInv, BuildAndSend PROVE InputsInv'
<1>1. order \in Order /\ order.stage = "taken" /\ UNCHANGED <<item, folder, stirred, withdrawn>>
  BY Orders DEF BuildAndSend, InputsInv, InputsTypeOK
<1>2. CASE order' = [order EXCEPT !.stage = "failed"]
  <2>1. /\ order' \in Order /\ order'.stage = "failed"
        /\ order'.task = order.task /\ order'.target = order.target
    BY <1>1, <1>2 DEF Order
  <2> QED BY <1>1, <2>1, Orders
          DEF InputsInv, InputsTypeOK, AcceptedFits, NamedMaterial, SentWithMaterial
<1>3. CASE /\ Buildable(order.task, order.target)
           /\ order' = [order EXCEPT !.stage = "sent", !.sent = Ids(order.task, order.target)]
  <2>1. PICK ids \in SUBSET Material : ids = Ids(order.task, order.target)
    BY <1>1, Orders, IdsFit
  <2>2. /\ order' \in Order /\ order'.stage = "sent" /\ order'.sent = ids
        /\ order'.accepted = order.accepted
        /\ order'.task = order.task /\ order'.target = order.target
    <3>1. order' = [order EXCEPT !.stage = "sent", !.sent = ids]
      BY <1>3, <2>1
    <3> QED BY <1>1, <3>1 DEF Order
  <2>3. ~stirred => ids = order.accepted
    BY <1>1, <2>1 DEF InputsInv, AcceptedFits
  <2>4. order.task = "quiz" => ids # {} \/ withdrawn
    BY <1>1, <1>3, <2>1, Orders, IdsFit DEF InputsInv, NamedMaterial
  <2>5. order.task = "transcript" => ids = order.accepted /\ ids # {}
    <3>1. order.task = "transcript" => order.target \in Audio /\ ids = {order.target}
      BY <1>1, <1>3, <2>1, Orders, IdsFit, InputsAssumption DEF Buildable
    <3>2. NoMaterial \notin Audio
      BY InputsAssumption
    <3> QED BY <1>1, <3>1, <3>2 DEF InputsInv, AcceptedFits
  <2>6. Cardinality(ids) <= MaxIds
    BY <1>1, <2>1, Orders, IdsFit
  <2>7. SentWithMaterial'
    BY <1>1, <2>2, <2>3, <2>4, <2>5, <2>6 DEF SentWithMaterial
  <2> QED BY <1>1, <2>2, <2>7, Orders DEF InputsInv, InputsTypeOK, AcceptedFits, NamedMaterial
<1> QED BY <1>2, <1>3 DEF BuildAndSend

(* A row that changes while the job waits is on the record, and so is what the
   job loses with it. *)
LEMMA RowsKeepInv ==
  ASSUME InputsInv, Stir, item' \in [Material -> Item \cup {Withdrawn}],
         folder' \in {"kept", "removed"},
         \/ UNCHANGED <<order, withdrawn>>
         \/ \E t \in Target : t # NoMaterial /\ LoseTarget(t)
  PROVE  InputsInv'
<1>1. InputsTypeOK
  BY DEF InputsInv
<1>2. NoMaterial \in Target
  BY DEF Target
<1>3. stirred' \in BOOLEAN /\ (stirred => stirred') /\ (Accepted => stirred')
  BY <1>1 DEF Stir, InputsTypeOK
<1>4. CASE UNCHANGED <<order, withdrawn>>
  BY <1>1, <1>3, <1>4
     DEF InputsInv, InputsTypeOK, AcceptedFits, NamedMaterial, SentWithMaterial, Accepted
<1>5. ASSUME NEW t \in Target, t # NoMaterial, LoseTarget(t) PROVE InputsInv'
  <2>1. withdrawn' \in BOOLEAN /\ (withdrawn => withdrawn')
    BY <1>1, <1>5 DEF LoseTarget, InputsTypeOK, Accepted
  <2>2. CASE order.stage = "queued" /\ order.target = t
    <3>1. order' = [order EXCEPT !.target = NoMaterial] /\ order \in Order
      BY <1>1, <1>5, <2>2, Orders DEF LoseTarget, InputsTypeOK
    <3>2. /\ order' \in Order /\ order'.stage = "queued" /\ order'.target = NoMaterial
          /\ order'.task = order.task
      BY <1>2, <2>2, <3>1 DEF Order
    <3>3. withdrawn' = TRUE /\ stirred' = TRUE
      BY <1>3, <1>5, <2>2 DEF LoseTarget, Accepted
    <3> QED BY <1>1, <2>2, <3>2, <3>3
            DEF InputsInv, InputsTypeOK, AcceptedFits, NamedMaterial, SentWithMaterial
  <2>3. CASE ~(order.stage = "queued" /\ order.target = t)
    <3>1. order' = order
      BY <1>5, <2>3 DEF LoseTarget
    <3> QED BY <1>1, <1>3, <2>1, <3>1
            DEF InputsInv, InputsTypeOK, AcceptedFits, NamedMaterial, SentWithMaterial, Accepted
  <2> QED BY <2>2, <2>3
<1> QED BY <1>4, <1>5

LEMMA MaterialKeepsInv ==
  ASSUME InputsInv, RemoveFolder \/ \E s \in Material : MaterialStep(s) PROVE InputsInv'
<1>1. InputsTypeOK
  BY DEF InputsInv
<1>2. CASE RemoveFolder
  <2>1. Folder \in Target /\ Folder # NoMaterial
    BY InputsAssumption DEF Target
  <2> QED BY <1>1, <1>2, <2>1, RowsKeepInv DEF RemoveFolder, InputsTypeOK
<1>3. ASSUME NEW s \in Material, WithdrawSource(s) PROVE InputsInv'
  <2>1. s \in Target /\ s # NoMaterial
    BY InputsAssumption DEF Target
  <2>2. item' \in [Material -> Item \cup {Withdrawn}]
    BY <1>1, <1>3 DEF WithdrawSource, InputsTypeOK
  <2> QED BY <1>1, <1>3, <2>1, <2>2, RowsKeepInv DEF WithdrawSource, InputsTypeOK
<1>4. ASSUME NEW s \in Material, Refile(s) PROVE InputsInv'
  <2>1. item[s] \in Item
    BY <1>1, <1>4 DEF Refile, InputsTypeOK
  <2>2. [item[s] EXCEPT !.filed = ~@] \in Item
    BY <2>1 DEF Item
  <2>3. item' \in [Material -> Item \cup {Withdrawn}]
    BY <1>1, <1>4, <2>2 DEF Refile, InputsTypeOK
  <2> QED BY <1>1, <1>4, <2>3, RowsKeepInv DEF Refile, InputsTypeOK
<1>5. ASSUME NEW s \in Material, ProcessMaterial(s) PROVE InputsInv'
  <2>1. item[s] \in Item
    BY <1>1, <1>5 DEF ProcessMaterial, InputsTypeOK
  <2>2. PICK status \in {"failed", "uploaded", "ready"} : item' = [item EXCEPT ![s].status = status]
    BY <1>5 DEF ProcessMaterial
  <2>3. [item[s] EXCEPT !.status = status] \in Item
    BY <2>1, <2>2 DEF Item
  <2>4. item' \in [Material -> Item \cup {Withdrawn}]
    BY <1>1, <2>2, <2>3 DEF InputsTypeOK
  <2> QED BY <1>1, <1>5, <2>4, RowsKeepInv DEF ProcessMaterial, InputsTypeOK
<1> QED BY <1>2, <1>3, <1>4, <1>5 DEF MaterialStep

(* Every step keeps the invariant. *)
THEOREM InputsInvariance == InputsSpec => []InputsInv
<1>1. InputsInv /\ [InputsNext]_inputVars => InputsInv'
  <2> SUFFICES ASSUME InputsInv, [InputsNext]_inputVars PROVE InputsInv'
    OBVIOUS
  <2>1. CASE UNCHANGED inputVars
    BY <2>1 DEF inputVars, InputsInv, InputsTypeOK, AcceptedFits, NamedMaterial, SentWithMaterial,
                Ids, SourceIds, Usable
  <2>2. CASE InputsNext
    BY <2>2, AskKeepsInv, CreateKeepsInv, TakeJobKeepsInv, SendKeepsInv, MaterialKeepsInv
       DEF InputsNext
  <2> QED BY <2>1, <2>2
<1> QED BY <1>1, InputsInitInv, PTL DEF InputsSpec

-----------------------------------------------------------------------------
(* Every variable keeps its type. *)
THEOREM InputsTypeCorrect == InputsSpec => []InputsTypeOK
<1>1. InputsInv => InputsTypeOK
  BY DEF InputsInv
<1> QED BY <1>1, InputsInvariance, PTL

(* A job is sent with what was accepted unless a row changed meanwhile, a quiz
   never without a source that still exists, a transcript never without its
   recording, and never with more sources than it may: input_builders.py. *)
THEOREM SentAsAccepted == InputsSpec => []SentWithMaterial
<1>1. InputsInv => SentWithMaterial
  BY DEF InputsInv
<1> QED BY <1>1, InputsInvariance, PTL

-----------------------------------------------------------------------------
(***************************************************************************)
(* FeedbackForwarding, for any number of executions, retries and versions. *)
(*                                                                         *)
(* FeedbackKnown is satisfied by any execution that has read the row, but one *)
(* that read an older version ends without telling the service of the current *)
(* one.  ForwardInv asks for a message, or for an execution that has read what *)
(* the row says now (PendingNow), and adds that the flag is set only after *)
(* the service was told.                                                   *)
(***************************************************************************)

(* What is told was read; and nothing is sent before there is feedback. *)
ForwardsRead ==
  /\ \A f \in Forwarder : forward[f].at = "told" => forward[f].version \in received
  /\ version = 0 =>
       /\ \A n \in 0..Retries : tasks[n] = 0
       /\ \A f \in Forwarder : forward[f] = Asleep

(* A message, or an execution that has read what the row says now. *)
PendingNow ==
  \/ \E n \in 0..Retries : tasks[n] > 0
  \/ \E f \in Forwarder : forward[f].at = "read" /\ forward[f].version = version

ForwardInv ==
  /\ ForwardTypeOK /\ ForwardsRead
  /\ forwarded => overtaken \/ version \in received
  /\ version > 0 /\ version \notin received => PendingNow \/ overtaken \/ given_up

-----------------------------------------------------------------------------
(* An execution under way has read something; a sleeping one has not. *)
LEMMA ForwardRows ==
  /\ Asleep.at = "rest"
  /\ \A r \in Forwarding :
       r.at \in {"read", "told"} /\ r.version \in Version /\ r.tries \in 0..Retries /\ r # Asleep
<1>1. \A r \in Forwarding : r.at \in {"read", "told"} /\ r.version \in Version /\ r.tries \in 0..Retries
  BY DEF Forwarding
<1> QED BY <1>1 DEF Asleep

(* No feedback yet. *)
LEMMA ForwardInitInv == ForwardInit => ForwardInv
<1> SUFFICES ASSUME ForwardInit PROVE ForwardInv
  OBVIOUS
<1>1. ForwardTypeOK
  <2>1. MaxVersion \in Nat /\ MaxDeaths \in Nat
    BY FeedbackAssumption
  <2>2. version \in 0..MaxVersion /\ deaths \in 0..MaxDeaths
    BY <2>1 DEF ForwardInit
  <2>3. tasks \in [0..Retries -> Nat] /\ forward \in [Forwarder -> Forwarding \cup {Asleep}]
    BY DEF ForwardInit
  <2> QED BY <2>2, <2>3 DEF ForwardInit, ForwardTypeOK
<1> QED BY <1>1 DEF ForwardInit, ForwardInv, ForwardsRead, Asleep

(* A new version comes with a message, or is given up at once. *)
LEMMA GiveKeepsInv == ASSUME ForwardInv, GiveFeedback PROVE ForwardInv'
<1>1. 0 \in 0..Retries /\ MaxVersion \in Nat
  BY FeedbackAssumption
<1>2. ForwardTypeOK /\ ForwardsRead
  BY DEF ForwardInv
<1>3. version' = version + 1 /\ version' \in Version
  BY <1>1, <1>2 DEF GiveFeedback, ForwardTypeOK, Version
<1>4. /\ tasks' \in [0..Retries -> Nat]
      /\ given_up' \in BOOLEAN
      /\ given_up' \/ tasks'[0] > 0
  <2>1. CASE Send(0) /\ given_up' = FALSE
    <3>1. tasks \in [0..Retries -> Nat] /\ tasks' = [tasks EXCEPT ![0] = @ + 1]
      BY <1>2, <2>1 DEF Send, ForwardTypeOK
    <3>2. tasks[0] \in Nat /\ tasks' \in [0..Retries -> Nat] /\ tasks'[0] = tasks[0] + 1
      BY <1>1, <3>1
    <3>3. tasks'[0] > 0
      BY <3>2
    <3> QED BY <2>1, <3>2, <3>3
  <2>2. CASE UNCHANGED tasks /\ given_up' = TRUE
    BY <1>2, <2>2 DEF ForwardTypeOK
  <2> QED BY <2>1, <2>2 DEF GiveFeedback
<1>5. ForwardTypeOK'
  BY <1>2, <1>3, <1>4 DEF GiveFeedback, ForwardTypeOK, Version
<1>6. ForwardsRead'
  BY <1>2, <1>3 DEF GiveFeedback, ForwardsRead, Version
<1>7. PendingNow' \/ given_up'
  BY <1>1, <1>4 DEF PendingNow
<1> QED BY <1>5, <1>6, <1>7 DEF ForwardInv, GiveFeedback

(* A message that is taken is read as the current version, unless the flag says
   that this one has been received. *)
LEMMA TakeTaskKeepsInv ==
  ASSUME ForwardInv, NEW f \in Forwarder, NEW n \in 0..Retries, TakeTask(f, n)
  PROVE  ForwardInv'
<1>1. ForwardTypeOK /\ ForwardsRead
  BY DEF ForwardInv
<1>2. version \in Version
  BY <1>1, FeedbackAssumption DEF ForwardTypeOK, ForwardsRead, TakeTask, Version
<1> DEFINE now == [at |-> "read", version |-> version, tries |-> n]
<1>3. now \in Forwarding
  BY <1>2 DEF Forwarding
<1>4. /\ forward'[f] = (IF forwarded THEN Asleep ELSE now)
      /\ \A g \in Forwarder \ {f} : forward'[g] = forward[g]
      /\ forward' \in [Forwarder -> Forwarding \cup {Asleep}]
  BY <1>1, <1>3 DEF TakeTask, ForwardTypeOK
<1>5. tasks' \in [0..Retries -> Nat]
  BY <1>1 DEF TakeTask, ForwardTypeOK
<1>6. ForwardTypeOK'
  BY <1>1, <1>4, <1>5 DEF TakeTask, ForwardTypeOK
<1>7. ForwardsRead'
  BY <1>1, <1>2, <1>4, FeedbackAssumption DEF TakeTask, ForwardsRead, Asleep, Version
<1>8. PendingNow' \/ forwarded
  BY <1>4 DEF PendingNow, TakeTask
<1> QED BY <1>6, <1>7, <1>8 DEF ForwardInv, TakeTask

(* The service receives what was read. *)
LEMMA TellKeepsInv ==
  ASSUME ForwardInv, NEW f \in Forwarder, TellService(f) PROVE ForwardInv'
<1>1. ForwardTypeOK /\ ForwardsRead
  BY DEF ForwardInv
<1>2. forward[f] \in Forwarding
  BY <1>1, ForwardRows DEF TellService, ForwardTypeOK
<1>3. /\ forward'[f].at = "told" /\ forward'[f].version = forward[f].version
      /\ forward'[f] \in Forwarding
      /\ \A g \in Forwarder \ {f} : forward'[g] = forward[g]
      /\ forward' \in [Forwarder -> Forwarding \cup {Asleep}]
  BY <1>1, <1>2 DEF TellService, ForwardTypeOK, Forwarding
<1>4. ForwardTypeOK'
  BY <1>1, <1>2, <1>3, ForwardRows DEF TellService, ForwardTypeOK
<1>5. ForwardsRead'
  BY <1>1, <1>2, <1>3, ForwardRows DEF TellService, ForwardsRead
<1>6. version \in received' \/ (PendingNow => PendingNow')
  BY <1>3 DEF TellService, PendingNow
<1> QED BY <1>4, <1>5, <1>6 DEF ForwardInv, TellService

(* The flag is set for a version that was received, or it is overtaken. *)
LEMMA MarkKeepsInv ==
  ASSUME ForwardInv, NEW f \in Forwarder, MarkForwarded(f) PROVE ForwardInv'
<1>1. ForwardTypeOK /\ ForwardsRead
  BY DEF ForwardInv
<1>2. /\ forward'[f] = Asleep /\ forward[f].at = "told" /\ forward[f].version \in received
      /\ \A g \in Forwarder \ {f} : forward'[g] = forward[g]
      /\ forward' \in [Forwarder -> Forwarding \cup {Asleep}]
  BY <1>1 DEF MarkForwarded, ForwardTypeOK, ForwardsRead
<1>3. overtaken' = (overtaken \/ forward[f].version # version)
  BY DEF MarkForwarded
<1>4. ForwardTypeOK'
  BY <1>1, <1>2, <1>3 DEF MarkForwarded, ForwardTypeOK
<1>5. ForwardsRead'
  BY <1>1, <1>2, ForwardRows DEF MarkForwarded, ForwardsRead
<1>6. PendingNow => PendingNow'
  BY <1>2 DEF MarkForwarded, PendingNow
<1> QED BY <1>2, <1>3, <1>4, <1>5, <1>6 DEF ForwardInv, MarkForwarded

(* An execution that fails or dies leaves a message, or was the last try. *)
LEMMA FailKeepsInv ==
  ASSUME ForwardInv, NEW f \in Forwarder, FailForward(f) \/ LoseForwarder(f)
  PROVE  ForwardInv'
<1>1. ForwardTypeOK /\ ForwardsRead
  BY DEF ForwardInv
<1>2. forward[f] \in Forwarding
  BY <1>1, ForwardRows DEF FailForward, LoseForwarder, ForwardTypeOK
<1>3. Retries \in Nat /\ forward[f].tries \in 0..Retries /\ version # 0
  BY <1>1, <1>2, ForwardRows, FeedbackAssumption DEF ForwardsRead
<1>4. /\ forward'[f] = Asleep
      /\ \A g \in Forwarder \ {f} : forward'[g] = forward[g]
      /\ forward' \in [Forwarder -> Forwarding \cup {Asleep}]
      /\ UNCHANGED <<version, forwarded, received, overtaken>>
  BY <1>1 DEF FailForward, LoseForwarder, ForwardTypeOK
<1>5. /\ deaths' \in 0..MaxDeaths
      /\ \/ given_up' = given_up /\ \E n \in 0..Retries : Send(n)
         \/ given_up' = TRUE /\ tasks' = tasks
  <2>1. CASE FailForward(f)
    BY <1>1, <1>3, <2>1 DEF FailForward, ForwardTypeOK
  <2>2. CASE LoseForwarder(f)
    BY <1>1, <1>3, <2>2, FeedbackAssumption DEF LoseForwarder, ForwardTypeOK
  <2> QED BY <2>1, <2>2
<1>6. tasks' \in [0..Retries -> Nat]
  BY <1>1, <1>5 DEF Send, ForwardTypeOK
<1>7. given_up' \in BOOLEAN
  BY <1>1, <1>5 DEF ForwardTypeOK
<1>8. ForwardTypeOK'
  BY <1>1, <1>4, <1>5, <1>6, <1>7 DEF ForwardTypeOK
<1>9. ForwardsRead'
  BY <1>1, <1>3, <1>4, ForwardRows DEF ForwardsRead
<1>10. PendingNow' \/ given_up'
  <2>1. ASSUME NEW n \in 0..Retries, Send(n) PROVE PendingNow'
    <3>1. tasks'[n] = tasks[n] + 1 /\ tasks[n] \in Nat
      BY <1>1, <2>1 DEF Send, ForwardTypeOK
    <3> QED BY <3>1 DEF PendingNow
  <2> QED BY <1>5, <2>1
<1> QED BY <1>4, <1>8, <1>9, <1>10 DEF ForwardInv

(* Every step of the forwarding keeps the invariant. *)
LEMMA ForwardNextInv == ForwardInv /\ [ForwardNext]_forwardVars => ForwardInv'
<1> SUFFICES ASSUME ForwardInv, [ForwardNext]_forwardVars PROVE ForwardInv'
  OBVIOUS
<1>1. CASE UNCHANGED forwardVars
  BY <1>1 DEF forwardVars, ForwardInv, ForwardTypeOK, ForwardsRead, PendingNow
<1>2. CASE ForwardNext
  BY <1>2, GiveKeepsInv, TakeTaskKeepsInv, TellKeepsInv, MarkKeepsInv, FailKeepsInv
     DEF ForwardNext, ForwarderStep
<1> QED BY <1>1, <1>2

(* The invariant holds whatever is fair. *)
THEOREM ForwardInvariance == ForwardInit /\ [][ForwardNext]_forwardVars => []ForwardInv
BY ForwardInitInv, ForwardNextInv, PTL

-----------------------------------------------------------------------------
(* Every variable keeps its type. *)
THEOREM ForwardTypeCorrect == ForwardSpec => []ForwardTypeOK
<1>1. ForwardInv => ForwardTypeOK
  BY DEF ForwardInv
<1> QED BY <1>1, ForwardInvariance, PTL DEF ForwardSpec

(* Feedback the AI service does not know is on its way, was given up after its
   retries, or was overtaken by the flag: ai_integration/tasks.py:21-37. *)
THEOREM FeedbackNotLost == ForwardSpec => []FeedbackKnown
<1>1. ForwardInv => FeedbackKnown
  BY DEF ForwardInv, PendingNow, Pending, FeedbackKnown
<1> QED BY <1>1, ForwardInvariance, PTL DEF ForwardSpec

-----------------------------------------------------------------------------
(***************************************************************************)
(* ServiceGate, for any calls, skew, time to live and clock.               *)
(*                                                                         *)
(* AdmittedApart compares two admissions; the next one knows only the      *)
(* stamp of the call and what the cache holds.  GateInv relates every      *)
(* admission to both: it was within the skew of the stamp, and until the   *)
(* cache forgets the nonce is held for NonceTtl after it.                  *)
(***************************************************************************)

(* What an admission of call c at time s leaves behind. *)
Recorded(c, s) ==
  /\ s <= clock
  /\ stamp[c] # Unsigned /\ s <= stamp[c] + Skew /\ stamp[c] <= s + Skew
  /\ forgotten \/ s + NonceTtl <= expiry[c]

AllRecorded == \A c \in Call : \A s \in admitted[c] : Recorded(c, s)

GateInv == GateTypeOK /\ AllRecorded /\ AdmittedApart

-----------------------------------------------------------------------------
(* Nothing was admitted yet. *)
LEMMA GateInitInv == GateInit => GateInv
<1> SUFFICES ASSUME GateInit PROVE GateInv
  OBVIOUS
<1>1. Unsigned \in 0..Unsigned /\ 0 \in 0..(MaxClock + NonceTtl) /\ 0 \in Time
  BY GateAssumption DEF Unsigned, Time
<1>2. GateTypeOK
  BY <1>1 DEF GateInit, GateTypeOK
<1>3. AllRecorded /\ AdmittedApart
  BY DEF GateInit, AllRecorded, AdmittedApart
<1> QED BY <1>2, <1>3 DEF GateInv

(* Time only grows. *)
LEMMA PassKeepsInv == ASSUME GateInv, PassSecond PROVE GateInv'
<1>1. GateTypeOK'
  BY GateAssumption DEF GateInv, GateTypeOK, PassSecond, Time, Unsigned
<1>2. AllRecorded'
  BY GateAssumption DEF GateInv, GateTypeOK, PassSecond, AllRecorded, Recorded, Time, Unsigned
<1>3. AdmittedApart'
  BY DEF GateInv, PassSecond, AdmittedApart
<1> QED BY <1>1, <1>2, <1>3 DEF GateInv

(* A call that is signed now was not admitted before. *)
LEMMA SignKeepsInv ==
  ASSUME GateInv, NEW c \in Call, NEW t \in 0..(MaxClock + Skew), SignCall(c, t)
  PROVE  GateInv'
<1>1. GateTypeOK'
  BY GateAssumption DEF GateInv, GateTypeOK, SignCall, Time, Unsigned
<1>2. AllRecorded'
  <2> SUFFICES ASSUME NEW d \in Call, NEW s \in admitted'[d] PROVE Recorded(d, s)'
    BY DEF AllRecorded
  <2>1. s \in admitted[d] /\ Recorded(d, s) /\ d # c
    BY DEF GateInv, AllRecorded, SignCall, Recorded
  <2>2. stamp'[d] = stamp[d]
    BY <2>1 DEF SignCall, GateInv, GateTypeOK
  <2> QED BY <2>1, <2>2 DEF Recorded, SignCall, Unsigned
<1>3. AdmittedApart'
  BY DEF GateInv, SignCall, AdmittedApart
<1> QED BY <1>1, <1>2, <1>3 DEF GateInv

(* The admission is compared with each earlier one: by the stamp they are at
   most twice the skew apart, and the nonce has been dropped by now. *)
LEMMA AdmitKeepsInv == ASSUME GateInv, NEW c \in Call, Admit(c) PROVE GateInv'
<1>0. /\ clock \in Nat /\ clock <= MaxClock
      /\ MaxClock \in Nat /\ Skew \in Nat /\ NonceTtl \in Nat /\ NonceTtl > 0
      /\ \A d \in Call : stamp[d] \in Nat /\ expiry[d] \in Nat /\ admitted[d] \in SUBSET Nat
  BY GateAssumption DEF GateInv, GateTypeOK, Time, Unsigned
<1>1. /\ clock' = clock /\ stamp' = stamp /\ forgotten' = forgotten
      /\ expiry'[c] = clock + NonceTtl /\ expiry[c] <= clock
      /\ admitted'[c] = admitted[c] \cup {clock}
      /\ \A d \in Call \ {c} : expiry'[d] = expiry[d] /\ admitted'[d] = admitted[d]
  BY DEF Admit, GateInv, GateTypeOK
<1>2. GateTypeOK'
  BY <1>0 DEF GateInv, GateTypeOK, Admit, Time, Unsigned
<1>3. AllRecorded'
  <2> SUFFICES ASSUME NEW d \in Call, NEW s \in admitted'[d] PROVE Recorded(d, s)'
    BY DEF AllRecorded
  <2>1. CASE s \in admitted[d] /\ d # c
    BY <1>1, <2>1 DEF GateInv, AllRecorded, Recorded, Unsigned
  <2>2. CASE s \in admitted[d] /\ d = c
    <3>1. Recorded(c, s) /\ s \in Nat
      BY <1>0, <2>2 DEF GateInv, AllRecorded
    <3>2. s + NonceTtl <= clock + NonceTtl
      BY <1>0, <3>1 DEF Recorded
    <3> QED BY <1>1, <2>2, <3>1, <3>2 DEF Recorded, Unsigned
  <2>3. CASE d = c /\ s = clock
    <3>1. stamp[c] # Unsigned /\ clock <= stamp[c] + Skew /\ stamp[c] <= clock + Skew
      BY DEF Admit, Timely
    <3> QED BY <1>0, <1>1, <2>3, <3>1 DEF Recorded, Unsigned
  <2> QED BY <1>1, <2>1, <2>2, <2>3
<1>4. AdmittedApart'
  <2> SUFFICES ASSUME NEW d \in Call, NEW s \in admitted'[d], NEW t \in admitted'[d]
               PROVE  t <= s + 2 * Skew /\ (s < t => forgotten' \/ s + NonceTtl <= t)
    BY DEF AdmittedApart
  <2>1. CASE s \in admitted[d] /\ t \in admitted[d]
    BY <1>1, <2>1 DEF GateInv, AdmittedApart
  <2>2. CASE d = c /\ s \in admitted[c] /\ t = clock
    <3>1. Recorded(c, s) /\ s \in Nat /\ stamp[c] \in Nat /\ expiry[c] \in Nat
      BY <1>0, <2>2 DEF GateInv, AllRecorded
    <3>2. clock <= stamp[c] + Skew
      BY DEF Admit, Timely
    <3> QED BY <1>0, <1>1, <2>2, <3>1, <3>2 DEF Recorded
  <2>3. CASE d = c /\ s = clock /\ t \in admitted[c]
    <3>1. Recorded(c, t) /\ t \in Nat
      BY <1>0, <2>3 DEF GateInv, AllRecorded
    <3> QED BY <1>0, <1>1, <2>3, <3>1 DEF Recorded
  <2>4. CASE s = clock /\ t = clock
    BY <1>0, <2>4
  <2> QED BY <1>1, <2>1, <2>2, <2>3, <2>4
<1> QED BY <1>2, <1>3, <1>4 DEF GateInv

(* Whatever the cache loses is excused. *)
LEMMA ForgetKeepsInv == ASSUME GateInv, ForgetNonces PROVE GateInv'
<1>1. GateTypeOK'
  BY GateAssumption DEF GateInv, GateTypeOK, ForgetNonces, Time
<1>2. AllRecorded'
  BY DEF GateInv, ForgetNonces, AllRecorded, Recorded, Unsigned
<1>3. AdmittedApart'
  BY DEF GateInv, ForgetNonces, AdmittedApart
<1> QED BY <1>1, <1>2, <1>3 DEF GateInv

(* Every step of the gate keeps the invariant. *)
THEOREM GateInvariance == GateSpec => []GateInv
<1>1. GateInv /\ [GateNext]_gateVars => GateInv'
  <2> SUFFICES ASSUME GateInv, [GateNext]_gateVars PROVE GateInv'
    OBVIOUS
  <2>1. CASE UNCHANGED gateVars
    BY <2>1 DEF gateVars, GateInv, GateTypeOK, AllRecorded, Recorded, AdmittedApart, Time
  <2>2. CASE GateNext
    BY <2>2, PassKeepsInv, SignKeepsInv, AdmitKeepsInv, ForgetKeepsInv DEF GateNext
  <2> QED BY <2>1, <2>2
<1> QED BY <1>1, GateInitInv, PTL DEF GateSpec

-----------------------------------------------------------------------------
(* Every variable keeps its type. *)
THEOREM GateTypeCorrect == GateSpec => []GateTypeOK
<1>1. GateInv => GateTypeOK
  BY DEF GateInv
<1> QED BY <1>1, GateInvariance, PTL

(* Two admissions of one call are at least NonceTtl seconds apart, unless the
   cache forgot, and at most twice the skew: security.py:133-178. *)
THEOREM AdmissionsApart == GateSpec => []AdmittedApart
<1>1. GateInv => AdmittedApart
  BY DEF GateInv
<1> QED BY <1>1, GateInvariance, PTL

(* A nonce kept for longer than twice the skew lets a call in once.  The
   default settings, 600 and 300 seconds, do not satisfy the assumption. *)
THEOREM AdmissionsOnce ==
  ASSUME NonceTtl > 2 * Skew PROVE GateSpec => []AdmittedOnce
<1>1. GateInv => AdmittedOnce
  <2> SUFFICES ASSUME GateInv, NEW c \in Call, NEW s \in admitted[c], NEW t \in admitted[c],
                      ~forgotten
               PROVE  s = t
    BY DEF AdmittedOnce
  <2>1. s \in Nat /\ t \in Nat /\ Skew \in Nat /\ NonceTtl \in Nat
    BY GateAssumption DEF GateInv, GateTypeOK, Time
  <2>2. /\ t <= s + 2 * Skew /\ s <= t + 2 * Skew
        /\ s < t => s + NonceTtl <= t
        /\ t < s => t + NonceTtl <= s
    BY DEF GateInv, AdmittedApart
  <2> QED BY <2>1, <2>2
<1> QED BY <1>1, GateInvariance, PTL

=============================================================================
