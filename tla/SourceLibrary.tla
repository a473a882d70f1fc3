---------------------------- MODULE SourceLibrary ----------------------------
(***************************************************************************)
(* The sources of one student (apps/sources): uploads counted against the  *)
(* plan, the collections they are filed in, the projects both belong to,   *)
(* and the stored files.  SourceProcessing has what becomes of one source. *)
(*                                                                         *)
(* A row and its file live in two stores: an upload writes the file before *)
(* the row commits, a deletion removes it after the row is gone.  A PATCH  *)
(* reads a row (get_object) and later saves every column of it.            *)
(***************************************************************************)
EXTENDS Naturals, FiniteSets, FiniteSetsExt

CONSTANTS
  Source,             \* the sources that can be uploaded (a key is used once)
  Size,               \* their file sizes, a function of Source
  Coll,               \* the collections that can be created
  Proj,               \* the student's projects
  None,               \* no project or no collection
  Plan,               \* the plans that can be in force
  FreePlan,           \* the one a student starts with
  SourceLimit,        \* per plan: how many sources,
  StorageLimit,       \*   how many bytes in all,
  FileLimit,          \*   how many bytes in one file,
  CollLimit,          \*   and how many collections it allows
  Request             \* the requests that can be open at the same time

ASSUME LibraryAssumption ==
  /\ IsFiniteSet(Source) /\ IsFiniteSet(Coll)
  /\ None \notin Proj \cup Coll
  /\ FreePlan \in Plan
  /\ Size \in [Source -> Nat]
  /\ {SourceLimit, StorageLimit, FileLimit, CollLimit} \subseteq [Plan -> Nat]

VARIABLES
  source,             \* StudentSource: a row, or Unborn, or Gone
  collection,         \* StudentSourceCollection: its project, or Unborn, or Gone
  file,               \* the sources whose file is in the storage
  plan,               \* the plan in force for the student
  request,            \* the open requests, or Idle
  plansHeld,          \* history: the plans that have been in force
  revived,            \* history: sources inserted again by the save of a PATCH
  refiled,            \* history: collections moved to another project
  interrupted         \* history: an upload or a deletion was lost half way

rowVars == <<source, collection, plan>>
historyVars == <<plansHeld, revived, refiled, interrupted>>
libVars == <<rowVars, file, request, historyVars>>

Unborn == [key |-> "unborn"]
Gone == [key |-> "gone"]
SourceRow == [coll : Coll \cup {None}, proj : Proj \cup {None}]
CollectionRow == [proj : Proj \cup {None}]

Sources == {s \in Source : source[s] \in SourceRow}
Collections == {c \in Coll : collection[c] \in CollectionRow}
FiledIn(c) == {s \in Sources : source[s].coll = c}
Bytes(S) == MapThenSumSet(LAMBDA s : Size[s], S)

Free == [op |-> "idle"]
Open ==
  [op : {"upload", "patch"}, s : Source, row : SourceRow] \cup
  [op : {"unlink"}, s : Source] \cup
  [op : {"destroy"}, c : Coll] \cup
  [op : {"refile"}, c : Coll, row : CollectionRow]

LibraryTypeOK ==
  /\ source \in [Source -> SourceRow \cup {Unborn, Gone}]
  /\ collection \in [Coll -> CollectionRow \cup {Unborn, Gone}]
  /\ file \subseteq Source
  /\ plan \in Plan /\ plansHeld \subseteq Plan
  /\ request \in [Request -> Open \cup {Free}]
  /\ revived \subseteq Source /\ refiled \subseteq Coll
  /\ interrupted \in BOOLEAN

(* A student with an empty library. *)
LibraryInit ==
  /\ source = [s \in Source |-> Unborn]
  /\ collection = [c \in Coll |-> Unborn]
  /\ file = {}
  /\ plan = FreePlan /\ plansHeld = {FreePlan}
  /\ request = [p \in Request |-> Free]
  /\ revived = {} /\ refiled = {}
  /\ interrupted = FALSE

-----------------------------------------------------------------------------
InUse(p) == request[p] # Free
OpenAt(op, s) == {p \in Request : InUse(p) /\ request[p].op = op /\ request[p].s = s}
Start(p, r) == ~InUse(p) /\ request' = [request EXCEPT ![p] = r]
Close(p) == request' = [request EXCEPT ![p] = Free]

(* Mutant: the user is not locked. *)
NotLocked == FALSE

(* The row of the user is locked from the count to the commit. *)
UserLocked == \E p \in Request : InUse(p) /\ request[p].op = "upload"

(* Mutant: the project of the collection is taken only when none is named. *)
FiledWithoutCheck(c, q) ==
  IF q = None /\ c # None THEN {collection[c].proj} ELSE {q}

(* The project of a source in collection c for which the student names q: that
   of the collection if it has one.  Another one is refused (the empty set). *)
Filed(c, q) ==
  IF c = None \/ collection[c].proj = None THEN {q}
  ELSE IF q \in {None, collection[c].proj} THEN {collection[c].proj}
  ELSE {}

(* can_upload_source: what the rows add up to, with the new file. *)
MayUpload(q, s) ==
  /\ Cardinality(Sources) < SourceLimit[q]
  /\ Size[s] <= FileLimit[q]
  /\ Bytes(Sources) + Size[s] <= StorageLimit[q]

(* POST of a source: with the user locked the limits are checked, the names
   resolved, the file stored and the row inserted, not yet committed. *)
BeginUpload(p, s, c, q) ==
  /\ source[s] = Unborn /\ s \notin file
  /\ ~UserLocked
  /\ MayUpload(plan, s)
  /\ c \in Collections \cup {None}
  /\ \E v \in Filed(c, q) :
       Start(p, [op |-> "upload", s |-> s,
                 row |-> [coll |-> c, proj |-> v]])
  /\ file' = file \cup {s}
  /\ UNCHANGED <<rowVars, historyVars>>

Refers(row) == row.coll \in Collections \cup {None}

(* The commit (the message to process the source follows it).  It fails when
   the collection is gone; nothing removes the file then. *)
FinishUpload(p) ==
  LET r == request[p] IN
  /\ r.op = "upload"
  /\ Close(p)
  /\ IF Refers(r.row)
     THEN /\ source' = [source EXCEPT ![r.s] = r.row]
          /\ UNCHANGED interrupted
     ELSE /\ interrupted' = TRUE
          /\ UNCHANGED source
  /\ UNCHANGED <<collection, plan, file, plansHeld, revived, refiled>>

(* PATCH of a source: the row as read, with the collection and the project the
   student names in place of its own. *)
BeginPatch(p, s, c, q) ==
  /\ s \in Sources
  /\ c \in Collections \cup {None}
  /\ \E v \in Filed(c, q) :
       Start(p, [op |-> "patch", s |-> s,
                 row |-> [source[s] EXCEPT !.coll = c, !.proj = v]])
  /\ UNCHANGED <<rowVars, file, historyVars>>

(* save(): every column, and an INSERT when the row is gone. *)
FinishPatch(p) ==
  LET r == request[p] IN
  /\ r.op = "patch"
  /\ Close(p)
  /\ IF Refers(r.row)
     THEN /\ source' = [source EXCEPT ![r.s] = r.row]
          /\ revived' = IF source[r.s] = Gone THEN revived \cup {r.s} ELSE revived
     ELSE UNCHANGED <<source, revived>>
  /\ UNCHANGED <<collection, plan, file, plansHeld, refiled, interrupted>>

(* Mutant: the file is removed before the row. *)
BeginDeleteFileFirst(p, s) ==
  /\ s \in Sources
  /\ Start(p, [op |-> "unlink", s |-> s])
  /\ file' = file \ {s}
  /\ source' \in {source, [source EXCEPT ![s] = Gone]}
  /\ UNCHANGED <<collection, plan, historyVars>>

(* DELETE, by the student or in the dashboard: the row first. *)
BeginDelete(p, s) ==
  /\ s \in Sources
  /\ Start(p, [op |-> "unlink", s |-> s])
  /\ source' = [source EXCEPT ![s] = Gone]
  /\ UNCHANGED <<collection, plan, file, historyVars>>

Unlink(p) ==
  /\ request[p].op = "unlink"
  /\ file' = file \ {request[p].s}
  /\ Close(p)
  /\ UNCHANGED <<rowVars, historyVars>>

-----------------------------------------------------------------------------
(* can_create_collection *)
MayCreateCollection(q) == Cardinality(Collections) < CollLimit[q]

(* POST of a collection: counted and created with the user locked. *)
CreateCollection(c, q) ==
  /\ collection[c] = Unborn
  /\ ~UserLocked
  /\ MayCreateCollection(plan)
  /\ collection' = [collection EXCEPT ![c] = [proj |-> q]]
  /\ UNCHANGED <<source, plan, file, request, historyVars>>

(* PATCH of a collection: the row as read, with project q. *)
BeginRefile(p, c, q) ==
  /\ c \in Collections
  /\ Start(p, [op |-> "refile", c |-> c, row |-> [proj |-> q]])
  /\ UNCHANGED <<rowVars, file, historyVars>>

(* save(): the sources filed in it keep the project they have. *)
FinishRefile(p) ==
  LET r == request[p] IN
  /\ r.op = "refile"
  /\ Close(p)
  /\ collection' = [collection EXCEPT ![r.c] = r.row]
  /\ refiled' = IF collection[r.c] = r.row THEN refiled ELSE refiled \cup {r.c}
  /\ UNCHANGED <<source, plan, file, plansHeld, revived, interrupted>>

(* DELETE of a collection that has no sources when it looks. *)
BeginDestroy(p, c) ==
  /\ c \in Collections
  /\ FiledIn(c) = {}
  /\ Start(p, [op |-> "destroy", c |-> c])
  /\ UNCHANGED <<rowVars, file, historyVars>>

(* Sources filed in it meanwhile are left without a collection (SET_NULL).  A
   collection already gone is not found again. *)
FinishDestroy(p) ==
  LET c == request[p].c IN
  /\ request[p].op = "destroy"
  /\ Close(p)
  /\ collection' = [collection EXCEPT ![c] = Gone]
  /\ source' = [s \in Source |->
       IF s \in FiledIn(c) THEN [source[s] EXCEPT !.coll = None] ELSE source[s]]
  /\ UNCHANGED <<plan, file, historyVars>>

(* The web process dies, or the database ends the transaction. *)
LibraryLoseRequest(p) ==
  /\ InUse(p)
  /\ Close(p)
  /\ interrupted' = (interrupted \/ request[p].op \in {"upload", "unlink"})
  /\ UNCHANGED <<rowVars, file, plansHeld, revived, refiled>>

(* A plan starts or ends, by an administrator or by the calendar. *)
ChangePlanInForce(q) ==
  /\ q # plan
  /\ plan' = q
  /\ plansHeld' = plansHeld \cup {q}
  /\ UNCHANGED <<source, collection, file, request, revived, refiled, interrupted>>

-----------------------------------------------------------------------------
SourceStep(p) ==
  \/ \E s \in Source, c \in Coll \cup {None}, q \in Proj \cup {None} :
       BeginUpload(p, s, c, q) \/ BeginPatch(p, s, c, q)
  \/ \E s \in Source : BeginDelete(p, s)
  \/ InUse(p) /\ (FinishUpload(p) \/ FinishPatch(p) \/ Unlink(p) \/ LibraryLoseRequest(p))

CollectionStep(p) ==
  \/ \E c \in Coll, q \in Proj \cup {None} : BeginRefile(p, c, q)
  \/ \E c \in Coll : BeginDestroy(p, c)
  \/ InUse(p) /\ (FinishRefile(p) \/ FinishDestroy(p))

LibraryNext ==
  \/ \E p \in Request : SourceStep(p) \/ CollectionStep(p)
  \/ \E c \in Coll, q \in Proj \cup {None} : CreateCollection(c, q)
  \/ \E q \in Plan : ChangePlanInForce(q)

LibrarySpec == LibraryInit /\ [][LibraryNext]_libVars

-----------------------------------------------------------------------------
(* Every source has its file, whatever is lost half way, unless a PATCH saved
   it again after it was deleted: files are written before rows (create) and
   removed after them (perform_destroy). *)
RowsHaveFiles == Sources \ revived \subseteq file

(* A file without a row belongs to an upload or a deletion that is under way,
   or to one that was lost or refused at its commit: nothing else leaves files
   behind in the storage, which no job cleans. *)
OrphansExplained ==
  interrupted \/ \A s \in file \ Sources : OpenAt("upload", s) \cup OpenAt("unlink", s) # {}

(* The storage and the table agree: no upload, deletion or PATCH leaves a row
   without its file or, unless it was interrupted, a file without its row. *)
FilesMatchRows == RowsHaveFiles /\ OrphansExplained

(* The library never exceeds all the plans the student has had, in sources, in
   bytes and in collections: overlapping uploads are counted one at a time
   (the locked user).  Sources a PATCH brought back are nobody's upload. *)
LimitsHeld ==
  LET uploaded == Sources \ revived
      bytes == Bytes(uploaded) IN
  /\ \E q \in plansHeld : Cardinality(uploaded) <= SourceLimit[q]
  /\ \E q \in plansHeld : bytes <= StorageLimit[q]
  /\ \E q \in plansHeld : Cardinality(Collections \ refiled) <= CollLimit[q]

(* A source in a collection that has a project is in that project ("Project
   must match the selected collection project."), as long as the collection
   was never moved: a PATCH of the collection leaves its sources behind. *)
FiledInItsProject ==
  \A c \in Collections \ refiled : \A s \in FiledIn(c) :
    collection[c].proj \in {None, source[s].proj}
=============================================================================
