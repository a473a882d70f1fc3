--------------------------- MODULE Platform_proofs ---------------------------
(***************************************************************************)
(* Proofs about what the students and teachers keep in the platform's own  *)
(* tables: the library of sources, the authoring of quizzes and the        *)
(* accounts, for any value of their constants; and that their composition  *)
(* is typed, whichever of them a behaviour works.                          *)
(***************************************************************************)
EXTENDS MCPlatform, Sums, TLAPS

-----------------------------------------------------------------------------
(***************************************************************************)
(* SourceLibrary, for any finite set of sources and collections, any sizes, *)
(* plans and limits, and any number of requests open at once.              *)
(*                                                                         *)
(* The limits are checked against the rows, and the row is committed in a  *)
(* later step.  LibraryInv counts the row of an upload that is about to be *)
(* committed with the others (Counted), and says that there is one such    *)
(* upload at most; that what a request read still holds when it writes     *)
(* (RequestSound), or the source or the collection is among the ones a late *)
(* PATCH brought back or moved; and that a file without a row belongs to a *)
(* request that is still open (Orphans).                                   *)
(***************************************************************************)

(* The sum grows by the size of the source that is added, and with the set. *)
LEMMA BytesGrow ==
  ASSUME NEW S \in SUBSET Source
  PROVE  /\ Bytes(S) \in Nat
         /\ \A x \in Source \ S : Bytes(S \cup {x}) = Bytes(S) + Size[x]
         /\ \A R \in SUBSET S : Bytes(R) \in Nat /\ Bytes(R) <= Bytes(S)
         /\ Bytes({}) = 0
<1>1. \A R : Bytes(R) = Sum(Size, R)
  BY DEF Bytes, Sum
<1> QED BY <1>1, SumGrows, LibraryAssumption

-----------------------------------------------------------------------------
(* The sources that count against the plan: the rows and the one row that is
   about to be committed. *)
Uploading == {s \in Source : \E p \in Request : request[p].op = "upload" /\ request[p].s = s}
Counting == (Sources \cup Uploading) \ revived

Counted ==
  /\ \E q \in plansHeld : Cardinality(Counting) <= SourceLimit[q]
  /\ \E q \in plansHeld : Bytes(Counting) <= StorageLimit[q]
  /\ \E q \in plansHeld : Cardinality(Collections \ refiled) <= CollLimit[q]

(* A row, written or about to be, knows a collection that was created, and is
   in its project unless the collection was moved. *)
RowSound(row) ==
  row.coll # None =>
    /\ collection[row.coll] # Unborn
    /\ row.coll \in Collections \ refiled => collection[row.coll].proj \in {None, row.proj}

(* What an open request can count on. *)
RequestSound(r) ==
  /\ r.op = "upload" => source[r.s] = Unborn /\ r.s \in file
  /\ r.op = "patch" => source[r.s] # Unborn
  /\ r.op = "unlink" => source[r.s] # Unborn /\ r.s \notin Sources \ revived
  /\ r.op \in {"upload", "patch"} => RowSound(r.row)
  /\ r.op \in {"destroy", "refile"} => collection[r.c] # Unborn

OneUpload ==
  \A p, o \in Request : request[p].op = "upload" /\ request[o].op = "upload" => p = o

Orphans ==
  \/ interrupted
  \/ \A s \in file \ Sources : \E p \in Request :
       request[p].op \in {"upload", "unlink"} /\ request[p].s = s

LibraryInv ==
  /\ LibraryTypeOK
  /\ plan \in plansHeld
  /\ \A p \in Request : RequestSound(request[p])
  /\ \A s \in Sources : RowSound(source[s])
  /\ OneUpload
  /\ RowsHaveFiles
  /\ Orphans
  /\ Counted

-----------------------------------------------------------------------------
LEMMA RowsApart ==
  /\ Unborn \notin SourceRow /\ Gone \notin SourceRow /\ Unborn # Gone
  /\ Unborn \notin CollectionRow /\ Gone \notin CollectionRow
  /\ Free \notin Open /\ Free.op = "idle"
<1>1. \A row \in SourceRow : DOMAIN row = {"coll", "proj"}
  BY DEF SourceRow
<1>2. \A row \in CollectionRow : DOMAIN row = {"proj"}
  BY DEF CollectionRow
<1>3. DOMAIN Unborn = {"key"} /\ DOMAIN Gone = {"key"} /\ Unborn.key = "unborn" /\ Gone.key = "gone"
  BY DEF Unborn, Gone
<1>4. "key" # "coll" /\ "key" # "proj"
  OBVIOUS
<1>5. Unborn \notin SourceRow /\ Gone \notin SourceRow
  BY <1>1, <1>3, <1>4
<1>6. Unborn \notin CollectionRow /\ Gone \notin CollectionRow
  BY <1>2, <1>3, <1>4
<1>7. \A r \in Open : r.op # "idle"
  BY DEF Open
<1>8. Free.op = "idle"
  BY DEF Free
<1> QED BY <1>3, <1>5, <1>6, <1>7, <1>8

LEMMA OpenFields ==
  ASSUME NEW r \in Open
  PROVE  /\ r.op \in {"upload", "patch"} => r.s \in Source /\ r.row \in SourceRow
         /\ r.op = "unlink" => r.s \in Source
         /\ r.op = "refile" => r.c \in Coll /\ r.row \in CollectionRow
         /\ r.op = "destroy" => r.c \in Coll
<1>1. CASE r \in [op : {"upload", "patch"}, s : Source, row : SourceRow]
  BY <1>1
<1>2. CASE r \in [op : {"unlink"}, s : Source]
  BY <1>2
<1>3. CASE r \in [op : {"destroy"}, c : Coll]
  BY <1>3
<1>4. CASE r \in [op : {"refile"}, c : Coll, row : CollectionRow]
  BY <1>4
<1> QED BY <1>1, <1>2, <1>3, <1>4 DEF Open

(* A request that is open has the operation its fields are for. *)
LEMMA RequestFields ==
  ASSUME LibraryTypeOK, NEW p \in Request
  PROVE  /\ request[p] \in Open \cup {Free}
         /\ request[p].op \in {"upload", "patch"} => request[p].s \in Source /\ request[p].row \in SourceRow
         /\ request[p].op = "unlink" => request[p].s \in Source
         /\ request[p].op = "refile" => request[p].c \in Coll /\ request[p].row \in CollectionRow
         /\ request[p].op = "destroy" => request[p].c \in Coll
         /\ InUse(p) <=> request[p].op # "idle"
<1>1. request[p] \in Open \cup {Free}
  BY DEF LibraryTypeOK
<1>2. \A r \in Open : r.op # "idle"
  BY DEF Open
<1> QED BY <1>1, <1>2, OpenFields, RowsApart DEF InUse

(* Nothing that counts is added: the limits still hold. *)
LEMMA Fewer ==
  ASSUME LibraryTypeOK, LibraryTypeOK', Counted, plansHeld \subseteq plansHeld',
         Counting' \subseteq Counting,
         (Collections \ refiled)' \subseteq Collections \ refiled
  PROVE  Counted'
<1>1. Counting \in SUBSET Source /\ Collections \ refiled \in SUBSET Coll
  BY DEF Counting, Sources, Uploading, Collections
<1>2. IsFiniteSet(Counting) /\ IsFiniteSet(Collections \ refiled)
  BY <1>1, LibraryAssumption, FS_Subset
<1>3. /\ Cardinality(Counting') <= Cardinality(Counting)
      /\ Cardinality(Counting') \in Nat /\ Cardinality(Counting) \in Nat
  BY <1>2, FS_Subset, FS_CardinalityType
<1>4. /\ Cardinality((Collections \ refiled)') <= Cardinality(Collections \ refiled)
      /\ Cardinality((Collections \ refiled)') \in Nat /\ Cardinality(Collections \ refiled) \in Nat
  BY <1>2, FS_Subset, FS_CardinalityType
<1>5. Bytes(Counting') <= Bytes(Counting) /\ Bytes(Counting) \in Nat /\ Bytes(Counting') \in Nat
  BY <1>1, BytesGrow
<1>6. \A q \in plansHeld : SourceLimit[q] \in Nat /\ StorageLimit[q] \in Nat /\ CollLimit[q] \in Nat
  BY LibraryAssumption DEF LibraryTypeOK
<1>7. \E q \in plansHeld' : Cardinality(Counting') <= SourceLimit[q]
  BY <1>3, <1>6 DEF Counted
<1>8. \E q \in plansHeld' : Cardinality((Collections \ refiled)') <= CollLimit[q]
  BY <1>4, <1>6 DEF Counted
<1>9. Bytes(Counting)' = Bytes(Counting')
  OBVIOUS
<1>10. \E q \in plansHeld' : Bytes(Counting') <= StorageLimit[q]
  BY <1>5, <1>6 DEF Counted
<1> QED BY <1>7, <1>8, <1>9, <1>10 DEF Counted

(* The rows and the files are as they were: so is what a row or a request
   counts on. *)
LEMMA SoundStays ==
  ASSUME UNCHANGED <<source, collection, file, revived, refiled>>, NEW r
  PROVE  (RequestSound(r)' <=> RequestSound(r)) /\ (RowSound(r)' <=> RowSound(r)) /\ Sources' = Sources
BY DEF RequestSound, RowSound, Sources, Collections

LEMMA RequestAfter ==
  ASSUME NEW p, NEW r, request'[p] = r, RequestSound(r)'
  PROVE  RequestSound(request[p])'
BY DEF RequestSound, RowSound

LEMMA RowAfter ==
  ASSUME NEW s, NEW row, source'[s] = row, RowSound(row)'
  PROVE  RowSound(source[s])'
BY DEF RowSound

(* A request that is begun, other than an upload or a deletion. *)
LEMMA OpenedKeepsInv ==
  ASSUME LibraryInv, NEW p \in Request, NEW r \in Open, r.op \notin {"upload", "unlink"},
         Start(p, r), RequestSound(r), UNCHANGED <<rowVars, file, historyVars>>
  PROVE  LibraryInv'
<1> USE DEF rowVars, historyVars
<1>0. LibraryTypeOK
  BY DEF LibraryInv
<1>1. request \in [Request -> Open \cup {Free}]
  BY <1>0 DEF LibraryTypeOK
<1>2. request' \in [Request -> Open \cup {Free}] /\ request[p].op = "idle"
  BY <1>0, <1>1, RequestFields DEF Start
<1>3. \A o \in Request : request'[o] = IF o = p THEN r ELSE request[o]
  BY <1>1 DEF Start
<1>4. LibraryTypeOK'
  BY <1>0, <1>2 DEF LibraryTypeOK
<1>5. plan' \in plansHeld'
  BY DEF LibraryInv
<1>6. \A o \in Request : RequestSound(request[o])'
  <2> TAKE o \in Request
  <2>1. PICK v : v = request'[o]
    OBVIOUS
  <2>2. RequestSound(v)
    BY <1>3, <2>1 DEF LibraryInv
  <2>3. RequestSound(v)'
    BY <2>2, SoundStays
  <2> QED BY <2>1, <2>3, RequestAfter
<1>7. \A s \in Sources' : RowSound(source[s])'
  <2> SUFFICES ASSUME NEW s \in Sources' PROVE RowSound(source[s])'
    OBVIOUS
  <2>1. PICK v : v = source'[s]
    OBVIOUS
  <2>2. RowSound(v)
    BY <2>1, SoundStays DEF LibraryInv
  <2>3. RowSound(v)'
    BY <2>2, SoundStays
  <2> QED BY <2>1, <2>3, RowAfter
<1>8. OneUpload'
  BY <1>3 DEF LibraryInv, OneUpload
<1>9. RowsHaveFiles'
  BY DEF LibraryInv, RowsHaveFiles, Sources
<1>10. Orphans'
  <2>1. Sources' = Sources
    BY DEF Sources
  <2>2. \A o \in Request : request[o].op \in {"upload", "unlink"} => request'[o] = request[o]
    BY <1>2, <1>3
  <2> QED BY <2>1, <2>2 DEF LibraryInv, Orphans
<1>11. Counted'
  <2>1. Uploading' \subseteq Uploading
    BY <1>3 DEF Uploading
  <2>2. Counting' \subseteq Counting
    BY <2>1 DEF Counting, Sources
  <2>3. (Collections \ refiled)' \subseteq Collections \ refiled
    BY DEF Collections
  <2> QED BY <1>0, <1>4, <2>2, <2>3, Fewer DEF LibraryInv
<1> QED BY <1>4, <1>5, <1>6, <1>7, <1>8, <1>9, <1>10, <1>11 DEF LibraryInv

(* A request that ends with nothing written; what an upload or a deletion
   leaves behind is then explained. *)
LEMMA ClosedKeepsInv ==
  ASSUME LibraryInv, NEW p \in Request, Close(p),
         UNCHANGED <<rowVars, file, plansHeld, revived, refiled>>, interrupted' \in BOOLEAN,
         interrupted => interrupted',
         interrupted' \/ request[p].op \notin {"upload", "unlink"}
  PROVE  LibraryInv'
<1> USE DEF rowVars
<1>0. LibraryTypeOK
  BY DEF LibraryInv
<1>1. request \in [Request -> Open \cup {Free}]
  BY <1>0 DEF LibraryTypeOK
<1>2. request' \in [Request -> Open \cup {Free}]
  BY <1>1 DEF Close
<1>3. \A o \in Request : request'[o] = IF o = p THEN Free ELSE request[o]
  BY <1>1 DEF Close
<1>4. LibraryTypeOK'
  BY <1>0, <1>2 DEF LibraryTypeOK
<1>5. plan' \in plansHeld'
  BY DEF LibraryInv
<1>6. \A o \in Request : RequestSound(request[o])'
  <2> TAKE o \in Request
  <2>1. PICK v : v = request'[o]
    OBVIOUS
  <2>2. RequestSound(v)
    BY <1>3, <2>1 DEF LibraryInv, RequestSound, Free
  <2>3. RequestSound(v)'
    BY <2>2, SoundStays
  <2> QED BY <2>1, <2>3, RequestAfter
<1>7. \A s \in Sources' : RowSound(source[s])'
  <2> SUFFICES ASSUME NEW s \in Sources' PROVE RowSound(source[s])'
    OBVIOUS
  <2>1. PICK v : v = source'[s]
    OBVIOUS
  <2>2. RowSound(v)
    BY <2>1, SoundStays DEF LibraryInv
  <2>3. RowSound(v)'
    BY <2>2, SoundStays
  <2> QED BY <2>1, <2>3, RowAfter
<1>8. OneUpload'
  BY <1>3 DEF LibraryInv, OneUpload, Free
<1>9. RowsHaveFiles'
  BY DEF LibraryInv, RowsHaveFiles, Sources
<1>10. Orphans'
  <2>1. Sources' = Sources
    BY DEF Sources
  <2>2. CASE interrupted'
    BY <2>2 DEF Orphans
  <2>3. CASE ~interrupted'
    <3>1. \A o \in Request : request[o].op \in {"upload", "unlink"} => request'[o] = request[o]
      BY <1>3, <2>3
    <3> QED BY <2>1, <2>3, <3>1 DEF LibraryInv, Orphans
  <2> QED BY <2>2, <2>3
<1>11. Counted'
  <2>1. Uploading' \subseteq Uploading
    BY <1>3 DEF Uploading, Free
  <2>2. Counting' \subseteq Counting
    BY <2>1 DEF Counting, Sources
  <2>3. (Collections \ refiled)' \subseteq Collections \ refiled
    BY DEF Collections
  <2> QED BY <1>0, <1>4, <2>2, <2>3, Fewer DEF LibraryInv
<1> QED BY <1>4, <1>5, <1>6, <1>7, <1>8, <1>9, <1>10, <1>11 DEF LibraryInv

(* The project a source is filed in is that of its collection. *)
LEMMA FiledFits ==
  ASSUME LibraryTypeOK, NEW c \in Collections \cup {None}, NEW q \in Proj \cup {None}, NEW v \in Filed(c, q)
  PROVE  [coll |-> c, proj |-> v] \in SourceRow /\ RowSound([coll |-> c, proj |-> v])
<1>1. c # None => c \in Coll /\ collection[c] \in CollectionRow
  BY DEF Collections
<1>2. c # None => collection[c].proj \in Proj \cup {None} /\ collection[c] # Unborn
  BY <1>1, RowsApart DEF CollectionRow
<1>3. v \in Proj \cup {None} /\ (c # None => collection[c].proj \in {None, v})
  BY <1>2 DEF Filed
<1>4. [coll |-> c, proj |-> v] \in SourceRow
  BY <1>1, <1>3 DEF SourceRow
<1> QED BY <1>2, <1>3, <1>4 DEF RowSound

LEMMA BeginPatchKeepsInv ==
  ASSUME LibraryInv, NEW p \in Request, NEW s \in Source, NEW c \in Coll \cup {None},
         NEW q \in Proj \cup {None}, BeginPatch(p, s, c, q)
  PROVE  LibraryInv'
<1>1. LibraryTypeOK
  BY DEF LibraryInv
<1>2. PICK v \in Filed(c, q) :
        Start(p, [op |-> "patch", s |-> s, row |-> [source[s] EXCEPT !.coll = c, !.proj = v]])
  BY DEF BeginPatch
<1>3. source[s] \in SourceRow /\ c \in Collections \cup {None} /\ source[s] # Unborn
  BY RowsApart DEF BeginPatch, Sources
<1>4. [source[s] EXCEPT !.coll = c, !.proj = v] = [coll |-> c, proj |-> v]
  <2>1. PICK d \in Coll \cup {None}, w \in Proj \cup {None} : source[s] = [coll |-> d, proj |-> w]
    BY <1>3 DEF SourceRow
  <2> DEFINE e == [source[s] EXCEPT !.coll = c, !.proj = v]
  <2>2. source[s] \in [{"coll", "proj"} -> Coll \cup Proj \cup {None}]
    BY <2>1
  <2>3. DOMAIN e = {"coll", "proj"} /\ e.coll = c /\ e.proj = v
    BY <2>2
  <2>4. e = [x \in {"coll", "proj"} |-> e[x]]
    BY <2>2
  <2> HIDE DEF e
  <2>5. e = [coll |-> c, proj |-> v]
    BY <2>3, <2>4
  <2> QED BY <2>5 DEF e
<1> DEFINE row == [coll |-> c, proj |-> v]
           r == [op |-> "patch", s |-> s, row |-> row]
<1>5. row \in SourceRow /\ RowSound(row)
  BY <1>1, <1>2, <1>3, FiledFits
<1> HIDE DEF row
<1>6. r \in Open /\ r.op = "patch" /\ r.s = s /\ r.row = row
  BY <1>5 DEF Open
<1>7. Start(p, r)
  BY <1>2, <1>4 DEF row
<1> HIDE DEF r
<1>8. RequestSound(r)
  BY <1>3, <1>5, <1>6 DEF RequestSound
<1> QED BY <1>6, <1>7, <1>8, OpenedKeepsInv DEF BeginPatch

LEMMA BeginCollectionKeepsInv ==
  ASSUME LibraryInv, NEW p \in Request, NEW c \in Coll, NEW q \in Proj \cup {None},
         BeginRefile(p, c, q) \/ BeginDestroy(p, c)
  PROVE  LibraryInv'
<1>1. collection[c] # Unborn
  BY RowsApart DEF BeginRefile, BeginDestroy, Collections
<1>2. CASE BeginRefile(p, c, q)
  <2> DEFINE r == [op |-> "refile", c |-> c, row |-> [proj |-> q]]
  <2>1. r \in Open /\ r.op = "refile" /\ r.c = c
    BY DEF Open, CollectionRow
  <2>2. Start(p, r)
    BY <1>2 DEF BeginRefile
  <2> HIDE DEF r
  <2>3. RequestSound(r)
    BY <1>1, <2>1 DEF RequestSound
  <2> QED BY <1>2, <2>1, <2>2, <2>3, OpenedKeepsInv DEF BeginRefile
<1>3. CASE BeginDestroy(p, c)
  <2> DEFINE r == [op |-> "destroy", c |-> c]
  <2>1. r \in Open /\ r.op = "destroy" /\ r.c = c
    BY DEF Open
  <2>2. Start(p, r)
    BY <1>3 DEF BeginDestroy
  <2> HIDE DEF r
  <2>3. RequestSound(r)
    BY <1>1, <2>1 DEF RequestSound
  <2> QED BY <1>3, <2>1, <2>2, <2>3, OpenedKeepsInv DEF BeginDestroy
<1> QED BY <1>2, <1>3

LEMMA LoseRequestKeepsInv ==
  ASSUME LibraryInv, NEW p \in Request, LibraryLoseRequest(p)
  PROVE  LibraryInv'
<1>1. interrupted \in BOOLEAN
  BY DEF LibraryInv, LibraryTypeOK
<1>2. interrupted' = (interrupted \/ request[p].op \in {"upload", "unlink"})
  BY DEF LibraryLoseRequest
<1>3. interrupted' \in BOOLEAN
  BY <1>2
<1>4. interrupted => interrupted'
  BY <1>2
<1>5. interrupted' \/ request[p].op \notin {"upload", "unlink"}
  BY <1>2
<1> QED BY <1>3, <1>4, <1>5, ClosedKeepsInv DEF LibraryLoseRequest

LEMMA BeginUploadKeepsInv ==
  ASSUME LibraryInv, NEW p \in Request, NEW s \in Source, NEW c \in Coll \cup {None},
         NEW q \in Proj \cup {None}, BeginUpload(p, s, c, q)
  PROVE  LibraryInv'
<1> USE DEF rowVars, historyVars
<1>0. LibraryTypeOK
  BY DEF LibraryInv
<1>1. PICK v \in Filed(c, q) :
        Start(p, [op |-> "upload", s |-> s, row |-> [coll |-> c, proj |-> v]])
  BY DEF BeginUpload
<1> DEFINE row == [coll |-> c, proj |-> v]
           r == [op |-> "upload", s |-> s, row |-> row]
<1>2. row \in SourceRow /\ RowSound(row)
  BY <1>0, FiledFits DEF BeginUpload
<1> HIDE DEF row
<1>3. r \in Open /\ r.op = "upload" /\ r.s = s /\ r.row = row
  BY <1>2 DEF Open
<1>4. Start(p, r)
  BY <1>1 DEF row
<1> HIDE DEF r
<1>5. request \in [Request -> Open \cup {Free}] /\ request[p].op = "idle"
  BY <1>0, <1>4, RequestFields DEF LibraryTypeOK, Start
<1>6. \A o \in Request : request'[o] = IF o = p THEN r ELSE request[o]
  BY <1>4, <1>5 DEF Start
<1>7. \A o \in Request : request[o].op # "upload"
  BY <1>0, RequestFields DEF BeginUpload, UserLocked
<1>8. /\ source[s] = Unborn /\ file' = file \cup {s}
      /\ UNCHANGED <<source, collection, plan, plansHeld, revived, refiled, interrupted>>
  BY DEF BeginUpload
<1>9. Sources' = Sources /\ Collections' = Collections /\ s \notin Sources
  BY <1>8, RowsApart DEF Sources, Collections
<1>10. LibraryTypeOK'
  <2>1. request' \in [Request -> Open \cup {Free}]
    BY <1>3, <1>4, <1>5 DEF Start
  <2> QED BY <1>0, <1>8, <2>1 DEF LibraryTypeOK
<1>11. plan' \in plansHeld'
  BY <1>8 DEF LibraryInv
<1>12. \A o \in Request : RequestSound(request[o])'
  <2> TAKE o \in Request
  <2>1. PICK w : w = request'[o]
    OBVIOUS
  <2>2. CASE o = p
    <3>1. RowSound(row)'
      BY <1>2, <1>8, <1>9 DEF RowSound
    <3>2. RequestSound(r)'
      BY <1>3, <1>8, <3>1 DEF RequestSound
    <3> QED BY <1>6, <2>1, <2>2, <3>2, RequestAfter
  <2>3. CASE o # p
    <3>1. RequestSound(w)
      BY <1>6, <2>1, <2>3 DEF LibraryInv
    <3>2. RequestSound(w)'
      BY <1>8, <1>9, <3>1 DEF RequestSound, RowSound
    <3> QED BY <2>1, <3>2, RequestAfter
  <2> QED BY <2>2, <2>3
<1>13. \A x \in Sources' : RowSound(source[x])'
  BY <1>8, <1>9 DEF LibraryInv, RowSound
<1>14. OneUpload'
  BY <1>6, <1>7 DEF OneUpload
<1>15. RowsHaveFiles'
  BY <1>8, <1>9 DEF LibraryInv, RowsHaveFiles
<1>16. Orphans'
  <2>1. \A o \in Request : request[o].op \in {"upload", "unlink"} => request'[o] = request[o]
    BY <1>5, <1>6
  <2>2. request'[p].op \in {"upload", "unlink"} /\ request'[p].s = s
    BY <1>3, <1>6
  <2> QED BY <1>8, <1>9, <2>1, <2>2 DEF LibraryInv, Orphans
<1>17. Counted'
  <2>1. Counting' \subseteq Sources \cup {s}
    BY <1>3, <1>6, <1>7, <1>9 DEF Counting, Uploading
  <2>2. Sources \in SUBSET Source /\ IsFiniteSet(Sources) /\ Cardinality(Sources) \in Nat
    BY LibraryAssumption, FS_Subset, FS_CardinalityType DEF Sources
  <2>3. IsFiniteSet(Sources \cup {s}) /\ Cardinality(Sources \cup {s}) = Cardinality(Sources) + 1
    BY <1>9, <2>2, FS_AddElement
  <2>4. Cardinality(Counting') <= Cardinality(Sources) + 1 /\ Cardinality(Counting') \in Nat
    BY <2>1, <2>3, FS_Subset, FS_CardinalityType
  <2>5. Bytes(Sources \cup {s}) = Bytes(Sources) + Size[s] /\ Bytes(Sources) \in Nat
    BY <1>9, <2>2, BytesGrow
  <2>6. Bytes(Counting') <= Bytes(Sources) + Size[s] /\ Bytes(Counting') \in Nat
    BY <2>1, <2>2, <2>5, BytesGrow
  <2>7. plan \in plansHeld' /\ SourceLimit[plan] \in Nat /\ StorageLimit[plan] \in Nat /\ Size[s] \in Nat
    BY <1>0, <1>8, LibraryAssumption DEF LibraryInv, LibraryTypeOK
  <2>8. Cardinality(Sources) < SourceLimit[plan] /\ Bytes(Sources) + Size[s] <= StorageLimit[plan]
    BY DEF BeginUpload, MayUpload
  <2>9. Cardinality(Counting') <= SourceLimit[plan]
    BY <2>2, <2>4, <2>7, <2>8
  <2>10. Bytes(Counting') <= StorageLimit[plan]
    BY <2>5, <2>6, <2>7, <2>8
  <2>11. Bytes(Counting)' = Bytes(Counting')
    OBVIOUS
  <2>12. \E x \in plansHeld' : Cardinality((Collections \ refiled)') <= CollLimit[x]
    BY <1>8, <1>9 DEF LibraryInv, Counted
  <2> QED BY <2>7, <2>9, <2>10, <2>11, <2>12 DEF Counted
<1> QED BY <1>10, <1>11, <1>12, <1>13, <1>14, <1>15, <1>16, <1>17 DEF LibraryInv

(* What a request that is closed was is of no account any more. *)
LEMMA CloseOnly ==
  ASSUME LibraryTypeOK, NEW p \in Request, Close(p)
  PROVE  /\ request' \in [Request -> Open \cup {Free}]
         /\ \A o \in Request : request'[o] = IF o = p THEN Free ELSE request[o]
         /\ Free.op = "idle"
         /\ OneUpload => OneUpload'
         /\ Uploading' \subseteq Uploading
<1>1. request \in [Request -> Open \cup {Free}]
  BY DEF LibraryTypeOK
<1>2. /\ request' \in [Request -> Open \cup {Free}]
      /\ \A o \in Request : request'[o] = IF o = p THEN Free ELSE request[o]
  BY <1>1 DEF Close
<1>3. Free.op = "idle"
  BY DEF Free
<1>4. Uploading' \subseteq Uploading
  BY <1>2, <1>3 DEF Uploading
<1>5. OneUpload => OneUpload'
  BY <1>2, <1>3 DEF OneUpload
<1> QED BY <1>2, <1>3, <1>4, <1>5

LEMMA FinishUploadKeepsInv ==
  ASSUME LibraryInv, NEW p \in Request, FinishUpload(p)
  PROVE  LibraryInv'
<1> DEFINE r == request[p]
           s == r.s
<1>0. LibraryTypeOK /\ r.op = "upload"
  BY DEF LibraryInv, FinishUpload
<1>1. s \in Source /\ r.row \in SourceRow /\ source[s] = Unborn /\ s \in file /\ RowSound(r.row)
  BY <1>0, RequestFields DEF LibraryInv, RequestSound
<1>2. CASE ~Refers(r.row)
  <2>1. Close(p) /\ interrupted' = TRUE
    BY <1>2 DEF FinishUpload
  <2>2. UNCHANGED <<rowVars, file, plansHeld, revived, refiled>>
    BY <1>2 DEF FinishUpload, rowVars
  <2> QED BY <2>1, <2>2, ClosedKeepsInv
<1>3. CASE Refers(r.row)
  <2>1. /\ Close(p) /\ source' = [source EXCEPT ![s] = r.row]
        /\ UNCHANGED <<collection, plan, file, plansHeld, revived, refiled, interrupted>>
    BY <1>3 DEF FinishUpload
  <2>2. /\ source' \in [Source -> SourceRow \cup {Unborn, Gone}]
        /\ \A x \in Source : source'[x] = IF x = s THEN r.row ELSE source[x]
    BY <1>0, <1>1, <2>1 DEF LibraryTypeOK
  <2>3. Sources' = Sources \cup {s} /\ Collections' = Collections
    BY <1>1, <2>1, <2>2 DEF Sources, Collections
  <2>4. \A v : RowSound(v)' <=> RowSound(v)
    BY <2>1, <2>3 DEF RowSound
  <2>5. LibraryTypeOK'
    BY <1>0, <2>1, <2>2, CloseOnly DEF LibraryTypeOK
  <2>6. \A o \in Request : RequestSound(request[o])'
    <3> TAKE o \in Request
    <3>1. PICK w : w = request'[o]
      OBVIOUS
    <3>2. CASE o = p
      <4>1. w.op = "idle"
        BY <1>0, <2>1, <3>1, <3>2, CloseOnly
      <4>2. RequestSound(w)'
        BY <4>1 DEF RequestSound
      <4> QED BY <3>1, <4>2, RequestAfter
    <3>3. CASE o # p
      <4>1. RequestSound(w) /\ w = request[o]
        BY <1>0, <2>1, <3>1, <3>3, CloseOnly DEF LibraryInv
      <4>2. w.op # "upload"
        BY <1>0, <3>3, <4>1 DEF LibraryInv, OneUpload
      <4>3. w.op \in {"patch", "unlink"} => w.s \in Source
        BY <1>0, <4>1, RequestFields
      <4>4. w.op \in {"patch", "unlink"} => source'[w.s] # Unborn /\ w.s # s
        BY <1>1, <2>2, <4>1, <4>3 DEF RequestSound
      <4>5. w.op = "unlink" => w.s \notin Sources' \ revived'
        BY <2>1, <2>3, <4>1, <4>4 DEF RequestSound
      <4>6. RequestSound(w)'
        BY <2>1, <2>4, <4>1, <4>2, <4>4, <4>5 DEF RequestSound
      <4> QED BY <3>1, <4>6, RequestAfter
    <3> QED BY <3>2, <3>3
  <2>7. \A x \in Sources' : RowSound(source[x])'
    <3> SUFFICES ASSUME NEW x \in Sources' PROVE RowSound(source[x])'
      OBVIOUS
    <3>1. PICK w : w = source'[x]
      OBVIOUS
    <3>2. x \in Source
      BY DEF Sources
    <3>3. RowSound(w)
      BY <1>1, <2>2, <2>3, <3>1, <3>2 DEF LibraryInv
    <3>4. RowSound(w)'
      BY <2>4, <3>3
    <3> QED BY <3>1, <3>4, RowAfter
  <2>8. RowsHaveFiles'
    BY <1>1, <2>1, <2>3 DEF LibraryInv, RowsHaveFiles
  <2>9. Orphans'
    <3>1. \A o \in Request : request[o].s # s => request'[o] = request[o]
      BY <1>0, <2>1, CloseOnly
    <3> QED BY <2>1, <2>3, <3>1 DEF LibraryInv, Orphans
  <2>10. Counted'
    <3>1. Counting' \subseteq Counting
      BY <1>0, <1>1, <2>1, <2>3, CloseOnly DEF Counting, Uploading
    <3> QED BY <1>0, <2>1, <2>3, <2>5, <3>1, Fewer DEF LibraryInv
  <2> QED BY <1>0, <2>1, <2>5, <2>6, <2>7, <2>8, <2>9, <2>10, CloseOnly DEF LibraryInv
<1> QED BY <1>2, <1>3

LEMMA FinishPatchKeepsInv ==
  ASSUME LibraryInv, NEW p \in Request, FinishPatch(p)
  PROVE  LibraryInv'
<1> DEFINE r == request[p]
           s == r.s
<1>0. LibraryTypeOK /\ r.op = "patch"
  BY DEF LibraryInv, FinishPatch
<1>1. s \in Source /\ r.row \in SourceRow /\ source[s] # Unborn /\ RowSound(r.row)
  BY <1>0, RequestFields DEF LibraryInv, RequestSound
<1>2. CASE ~Refers(r.row)
  <2>1. Close(p) /\ interrupted' = interrupted /\ UNCHANGED <<rowVars, file, plansHeld, revived, refiled>>
    BY <1>2 DEF FinishPatch, rowVars
  <2>2. interrupted' \in BOOLEAN
    BY <1>0, <2>1 DEF LibraryTypeOK
  <2> QED BY <1>0, <2>1, <2>2, ClosedKeepsInv
<1>3. CASE Refers(r.row)
  <2>1. /\ Close(p) /\ source' = [source EXCEPT ![s] = r.row]
        /\ revived' = IF source[s] = Gone THEN revived \cup {s} ELSE revived
        /\ UNCHANGED <<collection, plan, file, plansHeld, refiled, interrupted>>
    BY <1>3 DEF FinishPatch
  <2>2. /\ source' \in [Source -> SourceRow \cup {Unborn, Gone}]
        /\ \A x \in Source : source'[x] = IF x = s THEN r.row ELSE source[x]
    BY <1>0, <1>1, <2>1 DEF LibraryTypeOK
  <2>3. Sources' = Sources \cup {s} /\ Collections' = Collections
    BY <1>1, <2>1, <2>2 DEF Sources, Collections
  <2>4. s \in Sources \/ (source[s] = Gone /\ s \in revived')
    BY <1>0, <1>1, <2>1 DEF LibraryTypeOK, Sources
  <2>5. revived \subseteq revived' /\ revived' \subseteq revived \cup {s} /\ Sources' \ revived' \subseteq Sources \ revived
    BY <2>1, <2>3, <2>4
  <2>6. \A v : RowSound(v)' <=> RowSound(v)
    BY <2>1, <2>3 DEF RowSound
  <2>7. LibraryTypeOK'
    <3>1. revived' \subseteq Source
      BY <1>0, <1>1, <2>5 DEF LibraryTypeOK
    <3> QED BY <1>0, <2>1, <2>2, <3>1, CloseOnly DEF LibraryTypeOK
  <2>8. \A o \in Request : RequestSound(request[o])'
    <3> TAKE o \in Request
    <3>1. PICK w : w = request'[o]
      OBVIOUS
    <3>2. CASE o = p
      <4>1. w.op = "idle"
        BY <1>0, <2>1, <3>1, <3>2, CloseOnly
      <4>2. RequestSound(w)'
        BY <4>1 DEF RequestSound
      <4> QED BY <3>1, <4>2, RequestAfter
    <3>3. CASE o # p
      <4>1. RequestSound(w) /\ w = request[o]
        BY <1>0, <2>1, <3>1, <3>3, CloseOnly DEF LibraryInv
      <4>2. w.op \in {"upload", "patch", "unlink"} => w.s \in Source
        BY <1>0, <4>1, RequestFields
      <4>3. w.op = "upload" => source'[w.s] = Unborn
        BY <1>1, <2>2, <4>1, <4>2 DEF RequestSound
      <4>4. w.op \in {"patch", "unlink"} => source'[w.s] # Unborn
        BY <1>1, <2>2, <4>1, <4>2, RowsApart DEF RequestSound
      <4>5. w.op = "unlink" => w.s \notin Sources' \ revived'
        BY <2>5, <4>1 DEF RequestSound
      <4>6. RequestSound(w)'
        BY <2>1, <2>6, <4>1, <4>3, <4>4, <4>5 DEF RequestSound
      <4> QED BY <3>1, <4>6, RequestAfter
    <3> QED BY <3>2, <3>3
  <2>9. \A x \in Sources' : RowSound(source[x])'
    <3> SUFFICES ASSUME NEW x \in Sources' PROVE RowSound(source[x])'
      OBVIOUS
    <3>1. PICK w : w = source'[x]
      OBVIOUS
    <3>2. x \in Source
      BY DEF Sources
    <3>3. RowSound(w)
      BY <1>1, <2>2, <2>3, <3>1, <3>2 DEF LibraryInv
    <3>4. RowSound(w)'
      BY <2>6, <3>3
    <3> QED BY <3>1, <3>4, RowAfter
  <2>10. RowsHaveFiles'
    BY <2>1, <2>5 DEF LibraryInv, RowsHaveFiles
  <2>11. Orphans'
    <3>1. \A o \in Request : request[o].op \in {"upload", "unlink"} => request'[o] = request[o]
      BY <1>0, <2>1, CloseOnly
    <3> QED BY <2>1, <2>3, <3>1 DEF LibraryInv, Orphans
  <2>12. Counted'
    <3>1. Counting' \subseteq Counting
      BY <1>0, <2>1, <2>5, CloseOnly DEF Counting
    <3> QED BY <1>0, <2>1, <2>3, <2>7, <3>1, Fewer DEF LibraryInv
  <2> QED BY <1>0, <2>1, <2>7, <2>8, <2>9, <2>10, <2>11, <2>12, CloseOnly DEF LibraryInv
<1> QED BY <1>2, <1>3

LEMMA BeginDeleteKeepsInv ==
  ASSUME LibraryInv, NEW p \in Request, NEW s \in Source, BeginDelete(p, s)
  PROVE  LibraryInv'
<1> USE DEF historyVars
<1>0. LibraryTypeOK
  BY DEF LibraryInv
<1> DEFINE r == [op |-> "unlink", s |-> s]
<1>1. r \in Open /\ r.op = "unlink" /\ r.s = s
  BY DEF Open
<1>2. /\ Start(p, r) /\ source' = [source EXCEPT ![s] = Gone] /\ s \in Sources
      /\ UNCHANGED <<collection, plan, file, plansHeld, revived, refiled, interrupted>>
  BY DEF BeginDelete
<1> HIDE DEF r
<1>3. request \in [Request -> Open \cup {Free}] /\ request[p].op = "idle"
  BY <1>0, <1>2, RequestFields DEF LibraryTypeOK, Start
<1>4. /\ request' \in [Request -> Open \cup {Free}]
      /\ \A o \in Request : request'[o] = IF o = p THEN r ELSE request[o]
  BY <1>1, <1>2, <1>3 DEF Start
<1>5. /\ source' \in [Source -> SourceRow \cup {Unborn, Gone}]
      /\ \A x \in Source : source'[x] = IF x = s THEN Gone ELSE source[x]
  BY <1>0, <1>2 DEF LibraryTypeOK
<1>6. Sources' = Sources \ {s} /\ Collections' = Collections /\ source[s] # Unborn
  BY <1>2, <1>5, RowsApart DEF Sources, Collections
<1>7. \A v : RowSound(v)' <=> RowSound(v)
  BY <1>2, <1>6 DEF RowSound
<1>8. LibraryTypeOK'
  BY <1>0, <1>2, <1>4, <1>5 DEF LibraryTypeOK
<1>9. plan' \in plansHeld'
  BY <1>2 DEF LibraryInv
<1>10. \A o \in Request : RequestSound(request[o])'
  <2> TAKE o \in Request
  <2>1. PICK w : w = request'[o]
    OBVIOUS
  <2>2. CASE o = p
    <3>1. RequestSound(r)'
      BY <1>1, <1>5, <1>6, RowsApart DEF RequestSound
    <3> QED BY <1>4, <2>1, <2>2, <3>1, RequestAfter
  <2>3. CASE o # p
    <3>1. RequestSound(w) /\ w = request[o]
      BY <1>4, <2>1, <2>3 DEF LibraryInv
    <3>2. w.op \in {"upload", "patch", "unlink"} => w.s \in Source
      BY <1>0, <3>1, RequestFields
    <3>3. w.op = "upload" => source'[w.s] = Unborn
      BY <1>5, <1>6, <3>1, <3>2 DEF RequestSound
    <3>4. w.op \in {"patch", "unlink"} => source'[w.s] # Unborn
      BY <1>5, <3>1, <3>2, RowsApart DEF RequestSound
    <3>5. RequestSound(w)'
      BY <1>2, <1>6, <1>7, <3>1, <3>3, <3>4 DEF RequestSound
    <3> QED BY <2>1, <3>5, RequestAfter
  <2> QED BY <2>2, <2>3
<1>11. \A x \in Sources' : RowSound(source[x])'
  <2> SUFFICES ASSUME NEW x \in Sources' PROVE RowSound(source[x])'
    OBVIOUS
  <2>1. PICK w : w = source'[x]
    OBVIOUS
  <2>2. RowSound(w)
    BY <1>5, <1>6, <2>1 DEF LibraryInv, Sources
  <2>3. RowSound(w)'
    BY <1>7, <2>2
  <2> QED BY <2>1, <2>3, RowAfter
<1>12. OneUpload'
  BY <1>1, <1>4 DEF LibraryInv, OneUpload
<1>13. RowsHaveFiles'
  BY <1>2, <1>6 DEF LibraryInv, RowsHaveFiles
<1>14. Orphans'
  <2>1. \A o \in Request : request[o].op \in {"upload", "unlink"} => request'[o] = request[o]
    BY <1>3, <1>4
  <2>2. request'[p].op \in {"upload", "unlink"} /\ request'[p].s = s
    BY <1>1, <1>4
  <2> QED BY <1>2, <1>6, <2>1, <2>2 DEF LibraryInv, Orphans
<1>15. Counted'
  <2>1. Uploading' \subseteq Uploading
    BY <1>1, <1>4 DEF Uploading
  <2>2. Counting' \subseteq Counting
    BY <1>2, <1>6, <2>1 DEF Counting
  <2> QED BY <1>0, <1>2, <1>6, <1>8, <2>2, Fewer DEF LibraryInv
<1> QED BY <1>8, <1>9, <1>10, <1>11, <1>12, <1>13, <1>14, <1>15 DEF LibraryInv

LEMMA UnlinkKeepsInv ==
  ASSUME LibraryInv, NEW p \in Request, Unlink(p)
  PROVE  LibraryInv'
<1> USE DEF rowVars, historyVars
<1> DEFINE s == request[p].s
<1>0. LibraryTypeOK /\ request[p].op = "unlink"
  BY DEF LibraryInv, Unlink
<1>1. s \in Source /\ source[s] # Unborn /\ s \notin Sources \ revived
  BY <1>0, RequestFields DEF LibraryInv, RequestSound
<1>2. /\ Close(p) /\ file' = file \ {s}
      /\ UNCHANGED <<source, collection, plan, plansHeld, revived, refiled, interrupted>>
  BY DEF Unlink
<1>3. Sources' = Sources /\ Collections' = Collections
  BY <1>2 DEF Sources, Collections
<1>4. \A v : RowSound(v)' <=> RowSound(v)
  BY <1>2, <1>3 DEF RowSound
<1>5. LibraryTypeOK'
  BY <1>0, <1>2, CloseOnly DEF LibraryTypeOK
<1>6. \A o \in Request : RequestSound(request[o])'
  <2> TAKE o \in Request
  <2>1. PICK w : w = request'[o]
    OBVIOUS
  <2>2. RequestSound(w)
    BY <1>0, <1>2, <2>1, CloseOnly DEF LibraryInv, RequestSound
  <2>3. w.op = "upload" => w.s # s
    BY <1>1, <2>2 DEF RequestSound
  <2>4. RequestSound(w)'
    BY <1>2, <1>3, <1>4, <2>2, <2>3 DEF RequestSound
  <2> QED BY <2>1, <2>4, RequestAfter
<1>7. \A x \in Sources' : RowSound(source[x])'
  BY <1>2, <1>3 DEF LibraryInv, RowSound
<1>8. RowsHaveFiles'
  BY <1>1, <1>2, <1>3 DEF LibraryInv, RowsHaveFiles
<1>9. Orphans'
  <2>1. \A o \in Request : request[o].s # s => request'[o] = request[o]
    BY <1>0, <1>2, CloseOnly
  <2> QED BY <1>2, <1>3, <2>1 DEF LibraryInv, Orphans
<1>10. Counted'
  <2>1. Counting' \subseteq Counting
    BY <1>0, <1>2, <1>3, CloseOnly DEF Counting
  <2> QED BY <1>0, <1>2, <1>3, <1>5, <2>1, Fewer DEF LibraryInv
<1> QED BY <1>0, <1>2, <1>5, <1>6, <1>7, <1>8, <1>9, <1>10, CloseOnly DEF LibraryInv

LEMMA CreateCollectionKeepsInv ==
  ASSUME LibraryInv, NEW c \in Coll, NEW q \in Proj \cup {None}, CreateCollection(c, q)
  PROVE  LibraryInv'
<1> USE DEF historyVars
<1>0. LibraryTypeOK
  BY DEF LibraryInv
<1>1. /\ collection[c] = Unborn /\ collection' = [collection EXCEPT ![c] = [proj |-> q]]
      /\ UNCHANGED <<source, plan, file, request, plansHeld, revived, refiled, interrupted>>
  BY DEF CreateCollection
<1>2. [proj |-> q] \in CollectionRow
  BY DEF CollectionRow
<1>3. /\ collection' \in [Coll -> CollectionRow \cup {Unborn, Gone}]
      /\ \A d \in Coll : collection'[d] = IF d = c THEN [proj |-> q] ELSE collection[d]
  BY <1>0, <1>1, <1>2 DEF LibraryTypeOK
<1>4. Sources' = Sources /\ Collections' = Collections \cup {c} /\ c \notin Collections
  BY <1>1, <1>2, <1>3, RowsApart DEF Sources, Collections
<1>5. \A v \in SourceRow : RowSound(v) => RowSound(v)'
  <2> SUFFICES ASSUME NEW v \in SourceRow, RowSound(v) PROVE RowSound(v)'
    OBVIOUS
  <2>1. CASE v.coll = None
    BY <2>1 DEF RowSound
  <2>2. CASE v.coll # None
    <3>1. v.coll \in Coll /\ v.coll # c
      BY <1>1, <2>2 DEF SourceRow, RowSound
    <3>2. collection'[v.coll] = collection[v.coll]
      BY <1>3, <3>1
    <3> QED BY <1>1, <1>4, <2>2, <3>1, <3>2 DEF RowSound
  <2> QED BY <2>1, <2>2
<1>6. LibraryTypeOK'
  BY <1>0, <1>1, <1>3 DEF LibraryTypeOK
<1>7. \A o \in Request : RequestSound(request[o])'
  <2> TAKE o \in Request
  <2>1. PICK w : w = request'[o]
    OBVIOUS
  <2>2. RequestSound(w) /\ w = request[o]
    BY <1>1, <2>1 DEF LibraryInv
  <2>3. w.op \in {"upload", "patch"} => RowSound(w.row)'
    BY <1>0, <1>5, <2>2, RequestFields DEF RequestSound
  <2>4. w.op \in {"destroy", "refile"} => collection'[w.c] # Unborn
    BY <1>0, <1>2, <1>3, <2>2, RequestFields, RowsApart DEF RequestSound
  <2>5. RequestSound(w)'
    BY <1>1, <1>4, <2>2, <2>3, <2>4 DEF RequestSound
  <2> QED BY <2>1, <2>5, RequestAfter
<1>8. \A x \in Sources' : RowSound(source[x])'
  <2> SUFFICES ASSUME NEW x \in Sources' PROVE RowSound(source[x])'
    OBVIOUS
  <2>1. PICK w : w = source'[x]
    OBVIOUS
  <2>2. w \in SourceRow /\ RowSound(w)
    BY <1>1, <1>4, <2>1 DEF LibraryInv, Sources
  <2>3. RowSound(w)'
    BY <1>5, <2>2
  <2> QED BY <2>1, <2>3, RowAfter
<1>9. OneUpload' /\ RowsHaveFiles' /\ Orphans'
  BY <1>1, <1>4 DEF LibraryInv, OneUpload, RowsHaveFiles, Orphans
<1>10. Counted'
  <2>1. Counting' = Counting
    BY <1>1, <1>4 DEF Counting, Uploading
  <2>2. Bytes(Counting)' = Bytes(Counting')
    OBVIOUS
  <2>3. IsFiniteSet(Collections) /\ Cardinality(Collections) \in Nat
    BY LibraryAssumption, FS_Subset, FS_CardinalityType DEF Collections
  <2>4. IsFiniteSet(Collections \cup {c}) /\ Cardinality(Collections \cup {c}) = Cardinality(Collections) + 1
    BY <1>4, <2>3, FS_AddElement
  <2>5. (Collections \ refiled)' \in SUBSET (Collections \cup {c})
    BY <1>4
  <2>6. /\ Cardinality((Collections \ refiled)') <= Cardinality(Collections) + 1
        /\ Cardinality((Collections \ refiled)') \in Nat
    BY <2>4, <2>5, FS_Subset, FS_CardinalityType
  <2>7. plan \in plansHeld' /\ CollLimit[plan] \in Nat
    BY <1>0, <1>1, LibraryAssumption DEF LibraryInv, LibraryTypeOK
  <2>8. Cardinality(Collections) < CollLimit[plan]
    BY DEF CreateCollection, MayCreateCollection
  <2>9. Cardinality((Collections \ refiled)') <= CollLimit[plan]
    BY <2>3, <2>6, <2>7, <2>8
  <2> QED BY <1>1, <2>1, <2>2, <2>7, <2>9 DEF LibraryInv, Counted
<1> QED BY <1>1, <1>6, <1>7, <1>8, <1>9, <1>10 DEF LibraryInv

LEMMA FinishRefileKeepsInv ==
  ASSUME LibraryInv, NEW p \in Request, FinishRefile(p)
  PROVE  LibraryInv'
<1> DEFINE c == request[p].c
           row == request[p].row
<1>0. LibraryTypeOK /\ request[p].op = "refile"
  BY DEF LibraryInv, FinishRefile
<1>1. c \in Coll /\ row \in CollectionRow /\ collection[c] # Unborn
  BY <1>0, RequestFields DEF LibraryInv, RequestSound
<1>2. /\ Close(p) /\ collection' = [collection EXCEPT ![c] = row]
      /\ refiled' = IF collection[c] = row THEN refiled ELSE refiled \cup {c}
      /\ UNCHANGED <<source, plan, file, plansHeld, revived, interrupted>>
  BY DEF FinishRefile
<1>3. /\ collection' \in [Coll -> CollectionRow \cup {Unborn, Gone}]
      /\ \A d \in Coll : collection'[d] = IF d = c THEN row ELSE collection[d]
  BY <1>0, <1>1, <1>2 DEF LibraryTypeOK
<1>4. Sources' = Sources /\ Collections' = Collections \cup {c}
  BY <1>1, <1>2, <1>3 DEF Sources, Collections
<1>5. Collections' \ refiled' \subseteq Collections \ refiled /\ refiled \subseteq refiled' /\ refiled' \subseteq refiled \cup {c}
  BY <1>1, <1>2, <1>4 DEF Collections
<1>6. \A d \in Coll : d \in Collections' \ refiled' => collection'[d] = collection[d]
  BY <1>2, <1>3
<1>7. \A v \in SourceRow : RowSound(v) => RowSound(v)'
  <2> SUFFICES ASSUME NEW v \in SourceRow, RowSound(v) PROVE RowSound(v)'
    OBVIOUS
  <2>1. CASE v.coll = None
    BY <2>1 DEF RowSound
  <2>2. CASE v.coll # None
    <3>1. v.coll \in Coll
      BY <2>2 DEF SourceRow
    <3>2. collection'[v.coll] # Unborn
      BY <1>1, <1>3, <2>2, <3>1, RowsApart DEF RowSound
    <3> QED BY <1>5, <1>6, <2>2, <3>1, <3>2 DEF RowSound
  <2> QED BY <2>1, <2>2
<1>8. LibraryTypeOK'
  BY <1>0, <1>1, <1>2, <1>3, <1>5, CloseOnly DEF LibraryTypeOK
<1>9. \A o \in Request : RequestSound(request[o])'
  <2> TAKE o \in Request
  <2>1. PICK w : w = request'[o]
    OBVIOUS
  <2>2. CASE o = p
    <3>1. w.op = "idle"
      BY <1>0, <1>2, <2>1, <2>2, CloseOnly
    <3>2. RequestSound(w)'
      BY <3>1 DEF RequestSound
    <3> QED BY <2>1, <3>2, RequestAfter
  <2>3. CASE o # p
    <3>1. RequestSound(w) /\ w = request[o]
      BY <1>0, <1>2, <2>1, <2>3, CloseOnly DEF LibraryInv
    <3>2. w.op \in {"upload", "patch"} => RowSound(w.row)'
      BY <1>0, <1>7, <3>1, RequestFields DEF RequestSound
    <3>3. w.op \in {"destroy", "refile"} => collection'[w.c] # Unborn
      BY <1>0, <1>1, <1>3, <3>1, RequestFields, RowsApart DEF RequestSound
    <3>4. RequestSound(w)'
      BY <1>2, <1>4, <3>1, <3>2, <3>3 DEF RequestSound
    <3> QED BY <2>1, <3>4, RequestAfter
  <2> QED BY <2>2, <2>3
<1>10. \A x \in Sources' : RowSound(source[x])'
  <2> SUFFICES ASSUME NEW x \in Sources' PROVE RowSound(source[x])'
    OBVIOUS
  <2>1. PICK w : w = source'[x]
    OBVIOUS
  <2>2. w \in SourceRow /\ RowSound(w)
    BY <1>2, <1>4, <2>1 DEF LibraryInv, Sources
  <2>3. RowSound(w)'
    BY <1>7, <2>2
  <2> QED BY <2>1, <2>3, RowAfter
<1>11. RowsHaveFiles'
  BY <1>2, <1>4 DEF LibraryInv, RowsHaveFiles
<1>12. Orphans'
  <2>1. \A o \in Request : request[o].op \in {"upload", "unlink"} => request'[o] = request[o]
    BY <1>0, <1>2, CloseOnly
  <2> QED BY <1>2, <1>4, <2>1 DEF LibraryInv, Orphans
<1>13. Counted'
  <2>1. Counting' \subseteq Counting
    BY <1>0, <1>2, <1>4, CloseOnly DEF Counting
  <2> QED BY <1>0, <1>2, <1>5, <1>8, <2>1, Fewer DEF LibraryInv
<1> QED BY <1>0, <1>2, <1>8, <1>9, <1>10, <1>11, <1>12, <1>13, CloseOnly DEF LibraryInv

LEMMA FinishDestroyKeepsInv ==
  ASSUME LibraryInv, NEW p \in Request, FinishDestroy(p)
  PROVE  LibraryInv'
<1> USE DEF historyVars
<1> DEFINE c == request[p].c
           Unfiled(s) == IF s \in FiledIn(c) THEN [source[s] EXCEPT !.coll = None] ELSE source[s]
<1>0. LibraryTypeOK /\ request[p].op = "destroy"
  BY DEF LibraryInv, FinishDestroy
<1>1. c \in Coll /\ collection[c] # Unborn
  BY <1>0, RequestFields DEF LibraryInv, RequestSound
<1>2. /\ Close(p) /\ collection' = [collection EXCEPT ![c] = Gone]
      /\ source' = [s \in Source |-> Unfiled(s)]
      /\ UNCHANGED <<plan, file, plansHeld, revived, refiled, interrupted>>
  BY DEF FinishDestroy
<1>3. /\ collection' \in [Coll -> CollectionRow \cup {Unborn, Gone}]
      /\ \A d \in Coll : collection'[d] = IF d = c THEN Gone ELSE collection[d]
  BY <1>0, <1>1, <1>2 DEF LibraryTypeOK
<1>4. Collections' = Collections \ {c}
  BY <1>1, <1>3, RowsApart DEF Collections
<1>5. \A s \in Source :
        \/ s \in Sources /\ Unfiled(s) \in SourceRow /\ (Unfiled(s).coll = None \/ Unfiled(s) = source[s])
        \/ s \notin Sources /\ Unfiled(s) = source[s]
  <2> TAKE s \in Source
  <2>1. CASE s \in FiledIn(c)
    <3>1. s \in Sources /\ source[s] \in SourceRow
      BY <2>1 DEF FiledIn, Sources
    <3>2. Unfiled(s) = [source[s] EXCEPT !.coll = None]
      BY <2>1
    <3>3. Unfiled(s) \in SourceRow /\ Unfiled(s).coll = None
      BY <3>1, <3>2 DEF SourceRow
    <3> QED BY <3>1, <3>3
  <2>2. CASE s \notin FiledIn(c)
    BY <2>2 DEF Sources
  <2> QED BY <2>1, <2>2
<1>6. \A s \in Source : source'[s] = Unfiled(s)
  BY <1>2
<1> HIDE DEF Unfiled
<1>7. source' \in [Source -> SourceRow \cup {Unborn, Gone}]
  BY <1>0, <1>2, <1>5 DEF LibraryTypeOK
<1>8. Sources' = Sources
  BY <1>5, <1>6 DEF Sources
<1>9. \A s \in Source : (source'[s] = Unborn) <=> (source[s] = Unborn)
  BY <1>5, <1>6, RowsApart DEF Sources
<1>10. \A v \in SourceRow : RowSound(v) => RowSound(v)'
  <2> SUFFICES ASSUME NEW v \in SourceRow, RowSound(v) PROVE RowSound(v)'
    OBVIOUS
  <2>1. CASE v.coll = None
    BY <2>1 DEF RowSound
  <2>2. CASE v.coll # None
    <3>1. v.coll \in Coll
      BY <2>2 DEF SourceRow
    <3>2. collection'[v.coll] # Unborn
      BY <1>3, <2>2, <3>1, RowsApart DEF RowSound
    <3> QED BY <1>2, <1>3, <1>4, <2>2, <3>1, <3>2 DEF RowSound
  <2> QED BY <2>1, <2>2
<1>11. LibraryTypeOK'
  BY <1>0, <1>2, <1>3, <1>7, CloseOnly DEF LibraryTypeOK
<1>12. \A o \in Request : RequestSound(request[o])'
  <2> TAKE o \in Request
  <2>1. PICK w : w = request'[o]
    OBVIOUS
  <2>2. CASE o = p
    <3>1. w.op = "idle"
      BY <1>0, <1>2, <2>1, <2>2, CloseOnly
    <3>2. RequestSound(w)'
      BY <3>1 DEF RequestSound
    <3> QED BY <2>1, <3>2, RequestAfter
  <2>3. CASE o # p
    <3>1. RequestSound(w) /\ w = request[o]
      BY <1>0, <1>2, <2>1, <2>3, CloseOnly DEF LibraryInv
    <3>2. w.op \in {"upload", "patch"} => RowSound(w.row)'
      BY <1>0, <1>10, <3>1, RequestFields DEF RequestSound
    <3>3. w.op \in {"destroy", "refile"} => collection'[w.c] # Unborn
      BY <1>0, <1>3, <3>1, RequestFields, RowsApart DEF RequestSound
    <3>4. w.op \in {"upload", "patch", "unlink"} => w.s \in Source
      BY <1>0, <3>1, RequestFields
    <3>5. RequestSound(w)'
      BY <1>2, <1>8, <1>9, <3>1, <3>2, <3>3, <3>4 DEF RequestSound
    <3> QED BY <2>1, <3>5, RequestAfter
  <2> QED BY <2>2, <2>3
<1>13. \A x \in Sources' : RowSound(source[x])'
  <2> SUFFICES ASSUME NEW x \in Sources' PROVE RowSound(source[x])'
    OBVIOUS
  <2>1. PICK w : w = source'[x]
    OBVIOUS
  <2>2. x \in Source /\ x \in Sources
    BY <1>8 DEF Sources
  <2>3. w \in SourceRow /\ (w.coll = None \/ w = source[x])
    BY <1>5, <1>6, <2>1, <2>2
  <2>4. RowSound(w)
    BY <2>2, <2>3 DEF LibraryInv, RowSound
  <2>5. RowSound(w)'
    BY <1>10, <2>3, <2>4
  <2> QED BY <2>1, <2>5, RowAfter
<1>14. RowsHaveFiles'
  BY <1>2, <1>8 DEF LibraryInv, RowsHaveFiles
<1>15. Orphans'
  <2>1. \A o \in Request : request[o].op \in {"upload", "unlink"} => request'[o] = request[o]
    BY <1>0, <1>2, CloseOnly
  <2> QED BY <1>2, <1>8, <2>1 DEF LibraryInv, Orphans
<1>16. Counted'
  <2>1. Counting' \subseteq Counting
    BY <1>0, <1>2, <1>8, CloseOnly DEF Counting
  <2>2. (Collections \ refiled)' \subseteq Collections \ refiled
    BY <1>2, <1>4
  <2> QED BY <1>0, <1>2, <1>11, <2>1, <2>2, Fewer DEF LibraryInv
<1> QED BY <1>0, <1>2, <1>11, <1>12, <1>13, <1>14, <1>15, <1>16, CloseOnly DEF LibraryInv

LEMMA ChangePlanKeepsInv ==
  ASSUME LibraryInv, NEW q \in Plan, ChangePlanInForce(q)
  PROVE  LibraryInv'
<1>0. LibraryTypeOK
  BY DEF LibraryInv
<1>1. /\ plan' = q /\ plansHeld' = plansHeld \cup {q}
      /\ UNCHANGED <<source, collection, file, request, revived, refiled, interrupted>>
  BY DEF ChangePlanInForce
<1>2. Sources' = Sources /\ Collections' = Collections
  BY <1>1 DEF Sources, Collections
<1>3. LibraryTypeOK' /\ plan' \in plansHeld'
  BY <1>0, <1>1 DEF LibraryTypeOK
<1>4. \A o \in Request : RequestSound(request[o])'
  BY <1>1, <1>2 DEF LibraryInv, RequestSound, RowSound
<1>5. \A x \in Sources' : RowSound(source[x])'
  BY <1>1, <1>2 DEF LibraryInv, RowSound
<1>6. OneUpload' /\ RowsHaveFiles' /\ Orphans'
  BY <1>1, <1>2 DEF LibraryInv, OneUpload, RowsHaveFiles, Orphans
<1>7. Counted'
  <2>1. Counting' = Counting
    BY <1>1, <1>2 DEF Counting, Uploading
  <2> QED BY <1>0, <1>1, <1>2, <1>3, <2>1, Fewer DEF LibraryInv
<1> QED BY <1>3, <1>4, <1>5, <1>6, <1>7 DEF LibraryInv

-----------------------------------------------------------------------------
LEMMA LibraryInitInv == LibraryInit => LibraryInv
<1> SUFFICES ASSUME LibraryInit PROVE LibraryInv
  OBVIOUS
<1> USE DEF LibraryInit
<1>1. Sources = {} /\ Collections = {}
  BY RowsApart DEF Sources, Collections
<1>2. Free.op = "idle" /\ \A p \in Request : request[p] = Free
  BY RowsApart
<1>3. Counting = {}
  BY <1>1, <1>2 DEF Counting, Uploading
<1>4. LibraryTypeOK
  BY LibraryAssumption DEF LibraryTypeOK
<1>5. Counted
  <2>1. Cardinality({}) = 0 /\ Bytes({}) = 0
    <3>1. {} \in SUBSET Source
      OBVIOUS
    <3> QED BY <3>1, BytesGrow, FS_EmptySet
  <2>2. SourceLimit[FreePlan] \in Nat /\ StorageLimit[FreePlan] \in Nat /\ CollLimit[FreePlan] \in Nat
    BY LibraryAssumption
  <2>3. Collections \ refiled = {} /\ plansHeld = {FreePlan}
    BY <1>1
  <2> QED BY <1>3, <2>1, <2>2, <2>3 DEF Counted
<1>6. \A p \in Request : RequestSound(request[p])
  BY <1>2 DEF RequestSound
<1>7. OneUpload
  BY <1>2 DEF OneUpload
<1> QED BY <1>1, <1>4, <1>5, <1>6, <1>7 DEF LibraryInv, RowsHaveFiles, Orphans

LEMMA LibraryNextInv == LibraryInv /\ [LibraryNext]_libVars => LibraryInv'
<1> SUFFICES ASSUME LibraryInv, [LibraryNext]_libVars PROVE LibraryInv'
  OBVIOUS
<1>1. ASSUME NEW p \in Request, SourceStep(p) PROVE LibraryInv'
  BY <1>1, BeginUploadKeepsInv, BeginPatchKeepsInv, BeginDeleteKeepsInv, FinishUploadKeepsInv,
     FinishPatchKeepsInv, UnlinkKeepsInv, LoseRequestKeepsInv DEF SourceStep
<1>2. ASSUME NEW p \in Request, CollectionStep(p) PROVE LibraryInv'
  <2>1. CASE \E c \in Coll, q \in Proj \cup {None} : BeginRefile(p, c, q)
    BY <2>1, BeginCollectionKeepsInv
  <2>2. CASE \E c \in Coll : BeginDestroy(p, c)
    BY <2>2, BeginCollectionKeepsInv
  <2> QED BY <1>2, <2>1, <2>2, FinishRefileKeepsInv, FinishDestroyKeepsInv DEF CollectionStep
<1>3. CASE UNCHANGED libVars
  <2> USE <1>3 DEF libVars, rowVars, historyVars
  <2>1. Sources' = Sources /\ Collections' = Collections
    BY DEF Sources, Collections
  <2>2. LibraryTypeOK' /\ plan' \in plansHeld' /\ OneUpload' /\ RowsHaveFiles' /\ Orphans'
    BY <2>1 DEF LibraryInv, LibraryTypeOK, OneUpload, RowsHaveFiles, Orphans
  <2>3. /\ \A o \in Request : RequestSound(request[o])'
        /\ \A x \in Sources' : RowSound(source[x])'
    BY <2>1 DEF LibraryInv, RequestSound, RowSound
  <2>4. Counting' = Counting
    BY <2>1 DEF Counting, Uploading
  <2>5. Counted'
    BY <2>1, <2>2, <2>4, Fewer DEF LibraryInv
  <2> QED BY <2>2, <2>3, <2>5 DEF LibraryInv
<1> QED BY <1>1, <1>2, <1>3, CreateCollectionKeepsInv, ChangePlanKeepsInv DEF LibraryNext

(* The invariant holds in every state of the library. *)
THEOREM LibraryInvariance == LibrarySpec => []LibraryInv
BY LibraryInitInv, LibraryNextInv, PTL DEF LibrarySpec

(* The variables of the library keep their types. *)
THEOREM LibraryTypeCorrect == LibrarySpec => []LibraryTypeOK
<1>1. LibraryInv => LibraryTypeOK
  BY DEF LibraryInv
<1> QED BY <1>1, LibraryInvariance, PTL

(* Rows and files agree, whatever requests overlap and whichever are lost
   (create, perform_destroy): a row has its file unless a PATCH saved it after
   its deletion, a file without a row is that of a request under way unless one
   was lost half way. *)
THEOREM RowsAndFilesAgree == LibrarySpec => []FilesMatchRows
<1>1. LibraryInv => FilesMatchRows
  <2> SUFFICES ASSUME LibraryInv PROVE FilesMatchRows
    OBVIOUS
  <2>1. ASSUME NEW s \in file \ Sources, ~interrupted
        PROVE  OpenAt("upload", s) \cup OpenAt("unlink", s) # {}
    <3>1. PICK p \in Request : request[p].op \in {"upload", "unlink"} /\ request[p].s = s
      BY <2>1 DEF LibraryInv, Orphans
    <3>2. InUse(p)
      BY <3>1, RequestFields DEF LibraryInv
    <3> QED BY <3>1, <3>2 DEF OpenAt
  <2> QED BY <2>1 DEF LibraryInv, FilesMatchRows, OrphansExplained
<1> QED BY <1>1, LibraryInvariance, PTL

(* Overlapping uploads never take the library beyond every plan the student has
   had, in sources, bytes or collections (can_upload_source under the lock). *)
THEOREM LimitsAreHeld == LibrarySpec => []LimitsHeld
<1>1. LibraryInv => LimitsHeld
  <2> SUFFICES ASSUME LibraryInv PROVE LimitsHeld
    OBVIOUS
  <2>1. LibraryTypeOK /\ Counted
    BY DEF LibraryInv
  <2>2. Counting \in SUBSET Source /\ Sources \ revived \in SUBSET Counting
    BY DEF Counting, Sources, Uploading
  <2>3. IsFiniteSet(Counting) /\ Cardinality(Counting) \in Nat
    BY <2>2, LibraryAssumption, FS_Subset, FS_CardinalityType
  <2>4. Cardinality(Sources \ revived) <= Cardinality(Counting) /\ Cardinality(Sources \ revived) \in Nat
    BY <2>2, <2>3, FS_Subset, FS_CardinalityType
  <2>5. Bytes(Sources \ revived) <= Bytes(Counting) /\ Bytes(Sources \ revived) \in Nat /\ Bytes(Counting) \in Nat
    BY <2>2, BytesGrow
  <2>6. \A q \in plansHeld : SourceLimit[q] \in Nat /\ StorageLimit[q] \in Nat
    BY <2>1, LibraryAssumption DEF LibraryTypeOK
  <2>7. \E q \in plansHeld : Cardinality(Sources \ revived) <= SourceLimit[q]
    BY <2>1, <2>3, <2>4, <2>6 DEF Counted
  <2>8. \E q \in plansHeld : Bytes(Sources \ revived) <= StorageLimit[q]
    BY <2>1, <2>5, <2>6 DEF Counted
  <2> QED BY <2>1, <2>7, <2>8 DEF Counted, LimitsHeld
<1> QED BY <1>1, LibraryInvariance, PTL

(* A source in a collection is in the project of the collection, as long as the
   collection was never moved: both are decided together and saved together. *)
THEOREM SourcesAreFiled == LibrarySpec => []FiledInItsProject
<1>1. LibraryInv => FiledInItsProject
  <2> SUFFICES ASSUME LibraryInv, NEW c \in Collections \ refiled, NEW s \in FiledIn(c)
               PROVE  collection[c].proj \in {None, source[s].proj}
    BY DEF FiledInItsProject
  <2>1. s \in Sources /\ source[s].coll = c /\ RowSound(source[s])
    BY DEF LibraryInv, FiledIn
  <2>2. c # None
    BY LibraryAssumption DEF Collections
  <2> QED BY <2>1, <2>2 DEF RowSound
<1> QED BY <1>1, LibraryInvariance, PTL

-----------------------------------------------------------------------------
(***************************************************************************)
(* QuizAuthoring, for any quizzes, any finite set of questions and any     *)
(* number of requests open at once.                                        *)
(*                                                                         *)
(* PublishedSound speaks of the quizzes that are published; the next one was *)
(* looked at before it is written.  AuthoringInv adds that the questions of *)
(* a quiz about to be published are as they were looked at, or the quiz is *)
(* raced (PublishHolds), that a request carries the status it read, that a *)
(* question being added is still to come and nobody else adds it, and that *)
(* questions belong to quizzes that exist.                                 *)
(***************************************************************************)

(* What an open request can count on.  The questions of a quiz that is being
   published stay as they were looked at, or the quiz is raced; its count is
   the one that was read, or their number. *)
PublishHolds(q, n) ==
  q \in Quizzes \ raced =>
    Publishable(q) /\ (quiz[q].count = n \/ quiz[q].count = Cardinality(Held(q)))

PendingSound(r) ==
  /\ r.op \in {"edit", "publish"} => quiz[r.quiz] # NoQuiz
  /\ r.op = "edit" /\ r.status = "published" => r.row.status = "published"
  /\ r.op = "edit" /\ r.status = "draft" => r.row.status = "draft"
  /\ r.op = "ask" => question[r.x] = NoQuestion
  /\ r.op \in {"rework", "reworked", "drop"} => question[r.x] # NoQuestion
  /\ r.op = "publish" => PublishHolds(r.quiz, r.count)

AsksApart ==
  \A a, b \in Author :
    authoring[a].op = "ask" /\ authoring[b].op = "ask" /\ authoring[a].x = authoring[b].x => a = b

QuestionsPlaced == \A x \in Questions : quiz[question[x].quiz] # NoQuiz

AuthoringInv ==
  /\ AuthoringTypeOK
  /\ \A a \in Author : PendingSound(authoring[a])
  /\ AsksApart
  /\ QuestionsPlaced
  /\ PublishedSound

(* The questions of quiz q are as they were. *)
Kept(q) == Held(q)' = Held(q) /\ \A x \in Held(q) : question'[x] = question[x]

-----------------------------------------------------------------------------
LEMMA WritingFields ==
  ASSUME NEW r \in Writing
  PROVE  /\ r.op \in {"edit", "publish", "resync", "ask", "rework", "reworked", "drop"}
         /\ r.quiz \in Quiz
         /\ r.op = "edit" => r.row \in QuizRow /\ r.status \in Status
         /\ r.op \in {"publish", "resync", "ask", "drop"} => r.count \in Counts
         /\ r.op \in {"ask", "rework", "reworked", "drop"} => r.x \in Question
         /\ r.op = "ask" => r.sound \in BOOLEAN
         /\ r.op \in {"rework", "reworked"} => r.choices \in BOOLEAN
<1>1. CASE r \in [op : {"edit"}, quiz : Quiz, row : QuizRow, status : Status]
  BY <1>1
<1>2. CASE r \in [op : {"publish", "resync"}, quiz : Quiz, count : Counts]
  BY <1>2
<1>3. CASE r \in [op : {"ask"}, quiz : Quiz, count : Counts, x : Question, sound : BOOLEAN]
  BY <1>3
<1>4. CASE r \in [op : {"rework", "reworked"}, quiz : Quiz, x : Question, choices : BOOLEAN]
  BY <1>4
<1>5. CASE r \in [op : {"drop"}, quiz : Quiz, count : Counts, x : Question]
  BY <1>5
<1> QED BY <1>1, <1>2, <1>3, <1>4, <1>5 DEF Writing

LEMMA AuthorFields ==
  ASSUME AuthoringTypeOK, NEW a \in Author
  PROVE  LET r == authoring[a] IN
         /\ r \in Writing \/ r = Resting
         /\ r.op # "rest" => r \in Writing /\ r.quiz \in Quiz
         /\ r.op = "edit" => r.row \in QuizRow /\ r.status \in Status
         /\ r.op \in {"publish", "resync", "ask", "drop"} => r.count \in Counts
         /\ r.op \in {"ask", "rework", "reworked", "drop"} => r.x \in Question
         /\ r.op = "ask" => r.sound \in BOOLEAN
         /\ r.op \in {"rework", "reworked"} => r.choices \in BOOLEAN
<1>1. authoring[a] \in Writing \/ authoring[a] = Resting
  BY DEF AuthoringTypeOK
<1>2. Resting.op = "rest"
  BY DEF Resting
<1> QED BY <1>1, <1>2, WritingFields

LEMMA QuizFields ==
  ASSUME AuthoringTypeOK, NEW q \in Quiz
  PROVE  /\ q \in Quizzes <=> quiz[q] \in QuizRow
         /\ q \in Quizzes <=> quiz[q] # NoQuiz /\ quiz[q] # DeletedQuiz
         /\ NoQuiz # DeletedQuiz
<1>1. quiz[q] \in QuizRow \cup {NoQuiz, DeletedQuiz}
  BY DEF AuthoringTypeOK
<1>2. \A row \in QuizRow : row.status \in Status
  BY DEF QuizRow
<1>3. NoQuiz.status \notin Status /\ DeletedQuiz.status \notin Status /\ NoQuiz.status # DeletedQuiz.status
  BY DEF NoQuiz, DeletedQuiz, Status
<1> QED BY <1>1, <1>2, <1>3 DEF Quizzes

LEMMA QuestionFields ==
  /\ \A row \in QuestionRow : row # NoQuestion /\ row # Removed /\ row.quiz \in Quiz /\ row.sound \in BOOLEAN
  /\ NoQuestion # Removed
<1>1. \A row \in QuestionRow : DOMAIN row = {"quiz", "sound"} /\ row.quiz \in Quiz /\ row.sound \in BOOLEAN
  BY DEF QuestionRow
<1>2. DOMAIN NoQuestion = {"state"} /\ DOMAIN Removed = {"state"} /\ NoQuestion.state # Removed.state
  BY DEF NoQuestion, Removed
<1>3. "state" # "quiz" /\ "state" # "sound"
  OBVIOUS
<1> QED BY <1>1, <1>2, <1>3

LEMMA HeldCount ==
  ASSUME NEW q
  PROVE  /\ Held(q) \in SUBSET Question /\ IsFiniteSet(Held(q))
         /\ Cardinality(Held(q)) \in Counts
         /\ \A x \in Question \ Held(q) : Cardinality(Held(q)) + 1 \in Counts
<1>1. Held(q) \in SUBSET Question /\ IsFiniteSet(Question)
  BY AuthoringAssumption DEF Held, Questions
<1>2. /\ IsFiniteSet(Held(q)) /\ Cardinality(Held(q)) <= Cardinality(Question)
      /\ Cardinality(Held(q)) \in Nat /\ Cardinality(Question) \in Nat
  BY <1>1, FS_Subset, FS_CardinalityType
<1>3. ASSUME NEW x \in Question \ Held(q) PROVE Cardinality(Held(q)) + 1 \in Counts
  <2>1. Cardinality(Held(q) \cup {x}) = Cardinality(Held(q)) + 1
    BY <1>2, FS_AddElement
  <2>2. Held(q) \cup {x} \in SUBSET Question
    BY <1>1
  <2>3. Cardinality(Held(q) \cup {x}) <= Cardinality(Question)
    BY <1>1, <2>2, FS_Subset
  <2> QED BY <1>2, <2>1, <2>3 DEF Counts
<1> QED BY <1>1, <1>2, <1>3 DEF Counts

(* One row of a quiz is written. *)
LEMMA QuizWritten ==
  ASSUME AuthoringTypeOK, NEW q \in Quiz, NEW row \in QuizRow, quiz' = [quiz EXCEPT ![q] = row]
  PROVE  /\ quiz' \in [Quiz -> QuizRow \cup {NoQuiz, DeletedQuiz}]
         /\ \A o \in Quiz : quiz'[o] = IF o = q THEN row ELSE quiz[o]
         /\ Quizzes' = Quizzes \cup {q}
         /\ row # NoQuiz
<1>1. /\ quiz' \in [Quiz -> QuizRow \cup {NoQuiz, DeletedQuiz}]
      /\ \A o \in Quiz : quiz'[o] = IF o = q THEN row ELSE quiz[o]
  BY DEF AuthoringTypeOK
<1>2. row.status \in Status
  BY DEF QuizRow
<1>3. Quizzes' = Quizzes \cup {q}
  BY <1>1, <1>2 DEF Quizzes
<1>4. NoQuiz.status \notin Status
  BY DEF NoQuiz, Status
<1> QED BY <1>1, <1>2, <1>3, <1>4

LEMMA KeptSound ==
  ASSUME NEW q, Kept(q)
  PROVE  (Publishable(q)' <=> Publishable(q)) /\ Cardinality(Held(q))' = Cardinality(Held(q))
BY DEF Kept, Publishable

LEMMA PendingAfter ==
  ASSUME NEW a, NEW r, authoring'[a] = r, PendingSound(r)'
  PROVE  PendingSound(authoring[a])'
BY DEF PendingSound, PublishHolds

-----------------------------------------------------------------------------
(* A step that changes one request and nothing else. *)
LEMMA RequestKeepsInv ==
  ASSUME AuthoringInv, NEW a \in Author, NEW r \in Writing \cup {Resting}, PendingSound(r),
         authoring' = [authoring EXCEPT ![a] = r], UNCHANGED <<quizRows, raced>>,
         r.op = "ask" => \A b \in Author \ {a} : authoring[b].op = "ask" => authoring[b].x # r.x
  PROVE  AuthoringInv'
<1> USE DEF quizRows
<1>0. AuthoringTypeOK
  BY DEF AuthoringInv
<1>1. /\ authoring' \in [Author -> Writing \cup {Resting}]
      /\ \A b \in Author : authoring'[b] = IF b = a THEN r ELSE authoring[b]
  BY <1>0 DEF AuthoringTypeOK
<1>2. AuthoringTypeOK'
  BY <1>0, <1>1 DEF AuthoringTypeOK
<1>3. Quizzes' = Quizzes /\ Questions' = Questions
  BY DEF Quizzes, Questions
<1>4. \A q : Held(q)' = Held(q)
  BY <1>3 DEF Held
<1>5. \A b \in Author : PendingSound(authoring[b])'
  <2> TAKE b \in Author
  <2>1. PICK v : v = authoring'[b]
    OBVIOUS
  <2>2. PendingSound(v)
    BY <1>1, <2>1 DEF AuthoringInv
  <2>3. \A q : Publishable(q)' <=> Publishable(q)
    BY <1>4, KeptSound DEF Kept
  <2>4. \A q, n : PublishHolds(q, n)' <=> PublishHolds(q, n)
    BY <1>3, <1>4, <2>3 DEF PublishHolds
  <2>5. PendingSound(v)'
    BY <2>2, <2>4 DEF PendingSound
  <2> QED BY <2>1, <2>5, PendingAfter
<1>6. AsksApart'
  BY <1>1 DEF AuthoringInv, AsksApart
<1>7. QuestionsPlaced'
  BY <1>3 DEF AuthoringInv, QuestionsPlaced
<1>8. PublishedSound'
  BY <1>3, <1>4 DEF AuthoringInv, PublishedSound, Publishable
<1> QED BY <1>2, <1>5, <1>6, <1>7, <1>8 DEF AuthoringInv

(* A step that writes rows: what has to hold of them for the invariant to be
   kept.  The request it ends, if any, rests or has its count left to do. *)
LEMMA WriteKeepsInv ==
  ASSUME AuthoringInv, AuthoringTypeOK',
         \A b \in Author : authoring'[b] = authoring[b] \/ authoring'[b].op \in {"rest", "resync"},
         \A q \in Quiz : quiz[q] # NoQuiz => quiz'[q] # NoQuiz,
         \A x \in Question : question[x] # NoQuestion => question'[x] # NoQuestion,
         \A b \in Author : authoring'[b].op = "ask" => question'[authoring'[b].x] = question[authoring'[b].x],
         \A q \in Quizzes' \ raced' : (\E b \in Author : authoring'[b].op = "publish" /\ authoring'[b].quiz = q) =>
           /\ q \in Quizzes \ raced /\ Kept(q)
           /\ quiz'[q].count = quiz[q].count \/ quiz'[q].count = Cardinality(Held(q)),
         QuestionsPlaced',
         PublishedSound'
  PROVE  AuthoringInv'
<1>0. AuthoringTypeOK
  BY DEF AuthoringInv
<1>1. \A b \in Author : PendingSound(authoring[b])'
  <2> TAKE b \in Author
  <2>1. PICK v : v = authoring'[b]
    OBVIOUS
  <2>2. CASE v.op \in {"rest", "resync"}
    <3>1. PendingSound(v)'
      BY <2>2 DEF PendingSound
    <3> QED BY <2>1, <3>1, PendingAfter
  <2>3. CASE v.op \notin {"rest", "resync"}
    <3>1. v = authoring[b] /\ PendingSound(v)
      BY <2>1, <2>3 DEF AuthoringInv
    <3>2. /\ v.quiz \in Quiz
          /\ v.op \in {"ask", "rework", "reworked", "drop"} => v.x \in Question
      BY <1>0, <2>3, <3>1, AuthorFields
    <3>3. v.op = "publish" => PublishHolds(v.quiz, v.count)'
      <4> SUFFICES ASSUME v.op = "publish", v.quiz \in Quizzes' \ raced'
                   PROVE  /\ Publishable(v.quiz)'
                          /\ quiz'[v.quiz].count = v.count \/ quiz'[v.quiz].count = Cardinality(Held(v.quiz))'
        BY DEF PublishHolds
      <4>1. /\ v.quiz \in Quizzes \ raced /\ Kept(v.quiz)
            /\ quiz'[v.quiz].count = quiz[v.quiz].count \/ quiz'[v.quiz].count = Cardinality(Held(v.quiz))
        BY <2>1
      <4>2. /\ Publishable(v.quiz)
            /\ quiz[v.quiz].count = v.count \/ quiz[v.quiz].count = Cardinality(Held(v.quiz))
        BY <3>1, <4>1 DEF PendingSound, PublishHolds
      <4>3. (Publishable(v.quiz)' <=> Publishable(v.quiz)) /\ Cardinality(Held(v.quiz))' = Cardinality(Held(v.quiz))
        BY <4>1, KeptSound
      <4> QED BY <4>1, <4>2, <4>3
    <3>4. v.op = "ask" => question'[v.x] = NoQuestion
      BY <2>1, <3>1 DEF PendingSound
    <3>5. v.op \in {"edit", "publish"} => quiz'[v.quiz] # NoQuiz
      BY <3>1, <3>2 DEF PendingSound
    <3>6. v.op \in {"rework", "reworked", "drop"} => question'[v.x] # NoQuestion
      BY <3>1, <3>2 DEF PendingSound
    <3>7. PendingSound(v)'
      BY <3>1, <3>3, <3>4, <3>5, <3>6 DEF PendingSound
    <3> QED BY <2>1, <3>7, PendingAfter
  <2> QED BY <2>2, <2>3
<1>2. AsksApart'
  <2>1. \A b \in Author : authoring'[b].op = "ask" => authoring'[b] = authoring[b]
    OBVIOUS
  <2> QED BY <2>1 DEF AuthoringInv, AsksApart
<1> QED BY <1>1, <1>2 DEF AuthoringInv

-----------------------------------------------------------------------------
LEMMA BeginKeepsInv ==
  ASSUME AuthoringInv, NEW a \in Author, NEW r \in Writing, Begin(a, r), PendingSound(r),
         r.op = "ask" => \A b \in Author : authoring[b].op = "ask" => authoring[b].x # r.x
  PROVE  AuthoringInv'
BY RequestKeepsInv DEF Begin

LEMMA BeginEditKeepsInv ==
  ASSUME AuthoringInv, NEW a \in Author, NEW q \in Quiz, NEW wanted \in Status \cup {"same"},
         NEW content \in BOOLEAN, BeginEdit(a, q, wanted, content)
  PROVE  AuthoringInv'
<1>0. AuthoringTypeOK
  BY DEF AuthoringInv
<1>1. q \in Quizzes /\ MayEdit(quiz[q], wanted, content)
  BY DEF BeginEdit
<1>2. quiz[q] \in QuizRow /\ quiz[q].status \in Status /\ quiz[q] # NoQuiz
  BY <1>0, <1>1, QuizFields DEF Quizzes
<1>3. PICK st \in Status : st = IF wanted = "same" THEN quiz[q].status ELSE wanted
  BY <1>2
<1>4. PICK row \in QuizRow : row = quiz[q]
  BY <1>2
<1> DEFINE r == [op |-> "edit", quiz |-> q, row |-> row, status |-> st]
<1>5. r \in Writing /\ r.op = "edit" /\ r.quiz = q /\ r.row = row /\ r.status = st
  BY DEF Writing
<1>6. Begin(a, r)
  BY <1>3, <1>4 DEF BeginEdit
<1> HIDE DEF r
<1>7. (st = "published" => row.status = "published") /\ (st = "draft" => row.status = "draft")
  BY <1>1, <1>2, <1>3, <1>4 DEF MayEdit, Status
<1>8. PendingSound(r)
  BY <1>2, <1>5, <1>7 DEF PendingSound
<1> QED BY <1>5, <1>6, <1>8, BeginKeepsInv

LEMMA BeginPublishKeepsInv ==
  ASSUME AuthoringInv, NEW a \in Author, NEW q \in Quiz, BeginPublish(a, q)
  PROVE  AuthoringInv'
<1>0. AuthoringTypeOK
  BY DEF AuthoringInv
<1>1. q \in Quizzes /\ Publishable(q)
  BY DEF BeginPublish
<1>2. quiz[q] \in QuizRow /\ quiz[q] # NoQuiz
  BY <1>0, <1>1, QuizFields
<1>3. PICK n \in Counts : n = quiz[q].count
  BY <1>2 DEF QuizRow
<1> DEFINE r == [op |-> "publish", quiz |-> q, count |-> n]
<1>4. r \in Writing /\ r.op = "publish" /\ r.quiz = q /\ r.count = n
  BY DEF Writing
<1>5. Begin(a, r)
  BY <1>3 DEF BeginPublish
<1> HIDE DEF r
<1>6. PendingSound(r)
  BY <1>1, <1>2, <1>3, <1>4 DEF PendingSound, PublishHolds
<1> QED BY <1>4, <1>5, <1>6, BeginKeepsInv

LEMMA BeginAskKeepsInv ==
  ASSUME AuthoringInv, NEW a \in Author, NEW q \in Quiz, NEW x \in Question, NEW sound \in BOOLEAN,
         BeginAsk(a, q, x, sound)
  PROVE  AuthoringInv'
<1>0. AuthoringTypeOK
  BY DEF AuthoringInv
<1>1. q \in Quizzes
  BY DEF BeginAsk, ManualDraft, Quizzes, Status
<1>2. PICK n \in Counts : n = quiz[q].count
  BY <1>0, <1>1, QuizFields DEF QuizRow
<1> DEFINE r == [op |-> "ask", quiz |-> q, count |-> n, x |-> x, sound |-> sound]
<1>3. r \in Writing /\ r.op = "ask" /\ r.x = x
  BY DEF Writing
<1>4. Begin(a, r)
  BY <1>2 DEF BeginAsk
<1> HIDE DEF r
<1>5. question[x] = NoQuestion /\ \A b \in Author : authoring[b].op = "ask" => authoring[b].x # x
  BY DEF BeginAsk, Fresh
<1>6. PendingSound(r)
  BY <1>3, <1>5 DEF PendingSound
<1> QED BY <1>3, <1>4, <1>5, <1>6, BeginKeepsInv

LEMMA BeginReworkKeepsInv ==
  ASSUME AuthoringInv, NEW a \in Author, NEW q \in Quiz, NEW x \in Question, NEW choices \in BOOLEAN,
         BeginRework(a, x, q, choices)
  PROVE  AuthoringInv'
<1> DEFINE r == [op |-> "rework", quiz |-> q, x |-> x, choices |-> choices]
<1>1. r \in Writing /\ r.op = "rework" /\ r.x = x
  BY DEF Writing
<1>2. Begin(a, r)
  BY DEF BeginRework
<1> HIDE DEF r
<1>3. question[x] # NoQuestion
  BY QuestionFields DEF BeginRework, Questions
<1>4. PendingSound(r)
  BY <1>1, <1>3 DEF PendingSound
<1> QED BY <1>1, <1>2, <1>4, BeginKeepsInv

LEMMA BeginDropKeepsInv ==
  ASSUME AuthoringInv, NEW a \in Author, NEW q \in Quiz, NEW x \in Question, BeginDrop(a, x, q)
  PROVE  AuthoringInv'
<1>0. AuthoringTypeOK
  BY DEF AuthoringInv
<1>1. q \in Quizzes
  BY DEF BeginDrop, ManualDraft, Quizzes, Status
<1>2. PICK n \in Counts : n = quiz[q].count
  BY <1>0, <1>1, QuizFields DEF QuizRow
<1> DEFINE r == [op |-> "drop", quiz |-> q, count |-> n, x |-> x]
<1>3. r \in Writing /\ r.op = "drop" /\ r.x = x
  BY DEF Writing
<1>4. Begin(a, r)
  BY <1>2 DEF BeginDrop
<1> HIDE DEF r
<1>5. question[x] # NoQuestion
  BY QuestionFields DEF BeginDrop, Held, Questions
<1>6. PendingSound(r)
  BY <1>3, <1>5 DEF PendingSound
<1> QED BY <1>3, <1>4, <1>6, BeginKeepsInv

LEMMA RestKeepsInv ==
  ASSUME AuthoringInv, NEW a \in Author, Rest(a), UNCHANGED <<quizRows, raced>>
  PROVE  AuthoringInv'
<1>1. Resting.op = "rest"
  BY DEF Resting
<1>2. PendingSound(Resting)
  BY <1>1 DEF PendingSound
<1> QED BY <1>1, <1>2, RequestKeepsInv DEF Rest

LEMMA LookAgainKeepsInv ==
  ASSUME AuthoringInv, NEW a \in Author, LookAgain(a)
  PROVE  AuthoringInv'
<1>0. AuthoringTypeOK /\ authoring[a].op = "rework" /\ UNCHANGED <<quizRows, raced>>
  BY DEF AuthoringInv, LookAgain
<1>1. CASE Rest(a)
  BY <1>0, <1>1, RestKeepsInv
<1>2. CASE authoring' = [authoring EXCEPT ![a].op = "reworked"]
  <2>1. authoring[a] \in Writing
    BY <1>0, AuthorFields
  <2>2. authoring[a] \in [op : {"rework", "reworked"}, quiz : Quiz, x : Question, choices : BOOLEAN]
    BY <1>0, <2>1 DEF Writing
  <2>3. PICK r : r = [authoring[a] EXCEPT !.op = "reworked"]
    OBVIOUS
  <2>4. /\ r \in [op : {"rework", "reworked"}, quiz : Quiz, x : Question, choices : BOOLEAN]
        /\ r.op = "reworked" /\ r.x = authoring[a].x
    BY <2>2, <2>3
  <2>5. r \in Writing
    BY <2>4 DEF Writing
  <2>6. authoring' = [authoring EXCEPT ![a] = r]
    BY <1>2, <2>3
  <2>7. PendingSound(r)
    BY <1>0, <2>4 DEF AuthoringInv, PendingSound
  <2> QED BY <1>0, <2>4, <2>5, <2>6, <2>7, RequestKeepsInv
<1> QED BY <1>1, <1>2 DEF LookAgain

(* A request that ends. *)
LEMMA RestEffect ==
  ASSUME AuthoringTypeOK, NEW a \in Author, Rest(a)
  PROVE  /\ authoring' \in [Author -> Writing \cup {Resting}]
         /\ \A b \in Author : authoring'[b] = IF b = a THEN Resting ELSE authoring[b]
         /\ Resting.op = "rest"
         /\ \A b \in Author : authoring'[b] = authoring[b] \/ authoring'[b].op \in {"rest", "resync"}
BY DEF AuthoringTypeOK, Rest, Resting

-----------------------------------------------------------------------------
LEMMA CreateQuizKeepsInv ==
  ASSUME AuthoringInv, NEW q \in Quiz, CreateQuiz(q)
  PROVE  AuthoringInv'
<1>0. AuthoringTypeOK
  BY DEF AuthoringInv
<1> DEFINE row == [status |-> "draft", made |-> "manual", count |-> 0]
<1>1. row \in QuizRow /\ row.status = "draft"
  BY AuthoringAssumption, FS_CardinalityType DEF QuizRow, Status, Counts
<1>2. /\ quiz[q] = NoQuiz /\ quiz' = [quiz EXCEPT ![q] = row]
      /\ UNCHANGED <<question, authoring, raced>>
  BY DEF CreateQuiz
<1> HIDE DEF row
<1>3. /\ quiz' \in [Quiz -> QuizRow \cup {NoQuiz, DeletedQuiz}]
      /\ \A o \in Quiz : quiz'[o] = IF o = q THEN row ELSE quiz[o]
      /\ Quizzes' = Quizzes \cup {q} /\ row # NoQuiz
  BY <1>0, <1>1, <1>2, QuizWritten
<1>4. Questions' = Questions
  BY <1>2 DEF Questions
<1>5. \A o : Held(o)' = Held(o) /\ Kept(o)
  BY <1>2, <1>4 DEF Held, Kept
<1>6. AuthoringTypeOK'
  BY <1>0, <1>2, <1>3 DEF AuthoringTypeOK
<1>7. \A b \in Author : authoring[b].op = "publish" => authoring[b].quiz # q
  BY <1>2 DEF AuthoringInv, PendingSound
<1>8. QuestionsPlaced'
  BY <1>2, <1>3, <1>4, QuestionFields DEF AuthoringInv, QuestionsPlaced, Questions
<1>9. PublishedSound'
  <2> SUFFICES ASSUME NEW o \in Quizzes' \ raced', quiz'[o].status = "published"
               PROVE  Publishable(o)' /\ quiz'[o].count = Cardinality(Held(o))'
    BY DEF PublishedSound
  <2>1. o \in Quizzes \ raced /\ quiz'[o] = quiz[o]
    BY <1>1, <1>2, <1>3 DEF Quizzes
  <2> QED BY <1>5, <2>1, KeptSound DEF AuthoringInv, PublishedSound
<1> QED BY <1>2, <1>3, <1>5, <1>6, <1>7, <1>8, <1>9, WriteKeepsInv DEF Quizzes

LEMMA ReceiveQuizKeepsInv ==
  ASSUME AuthoringInv, NEW q \in Quiz, NEW S \in SUBSET Question, ReceiveQuiz(q, S)
  PROVE  AuthoringInv'
<1>0. AuthoringTypeOK
  BY DEF AuthoringInv
<1>1. IsFiniteSet(S) /\ Cardinality(S) \in Counts
  BY AuthoringAssumption, FS_Subset, FS_CardinalityType DEF Counts
<1> DEFINE row == [status |-> "published", made |-> "ai", count |-> Cardinality(S)]
           asked == [quiz |-> q, sound |-> TRUE]
<1>2. row \in QuizRow /\ row.count = Cardinality(S)
  BY <1>1 DEF QuizRow, Status
<1>3. asked \in QuestionRow /\ asked.quiz = q /\ asked.sound = TRUE
  BY DEF QuestionRow
<1>4. /\ quiz[q] = NoQuiz /\ quiz' = [quiz EXCEPT ![q] = row] /\ S # {} /\ S \subseteq Fresh
      /\ question' = [x \in Question |-> IF x \in S THEN asked ELSE question[x]]
      /\ UNCHANGED <<authoring, raced>>
  BY DEF ReceiveQuiz
<1> HIDE DEF row, asked
<1>5. /\ quiz' \in [Quiz -> QuizRow \cup {NoQuiz, DeletedQuiz}]
      /\ \A o \in Quiz : quiz'[o] = IF o = q THEN row ELSE quiz[o]
      /\ Quizzes' = Quizzes \cup {q} /\ row # NoQuiz
  BY <1>0, <1>2, <1>4, QuizWritten
<1>6. /\ question' \in [Question -> QuestionRow \cup {NoQuestion, Removed}]
      /\ \A x \in Question : question'[x] = IF x \in S THEN asked ELSE question[x]
  BY <1>0, <1>3, <1>4 DEF AuthoringTypeOK
<1>7. \A x \in S : question[x] = NoQuestion /\ x \notin Questions
  BY <1>4, QuestionFields DEF Fresh, Questions
<1>8. Questions' = Questions \cup S
  BY <1>3, <1>6 DEF Questions
<1>9. \A o \in Quiz : o # q => Kept(o)
  <2> TAKE o \in Quiz
  <2> HAVE o # q
  <2>1. Held(o)' = Held(o)
    BY <1>3, <1>6, <1>7, <1>8 DEF Held, Questions
  <2> QED BY <1>6, <1>7, <2>1 DEF Kept, Held, Questions
<1>10. Held(q)' = S
  <2>1. \A x \in Questions : question[x].quiz # q
    BY <1>4 DEF AuthoringInv, QuestionsPlaced
  <2> QED BY <1>3, <1>6, <1>7, <1>8, <2>1 DEF Held, Questions
<1>11. AuthoringTypeOK'
  BY <1>0, <1>4, <1>5, <1>6 DEF AuthoringTypeOK
<1>12. \A b \in Author : authoring[b].op = "publish" => authoring[b].quiz # q
  BY <1>4 DEF AuthoringInv, PendingSound
<1>13. QuestionsPlaced'
  <2> SUFFICES ASSUME NEW x \in Questions' PROVE quiz'[question'[x].quiz] # NoQuiz
    BY DEF QuestionsPlaced
  <2>1. CASE x \in S
    BY <1>3, <1>5, <1>6, <2>1
  <2>2. CASE x \notin S
    <3>1. x \in Questions /\ x \in Question /\ question'[x] = question[x]
      BY <1>6, <1>8, <2>2 DEF Questions
    <3>2. question[x].quiz \in Quiz
      BY <3>1, QuestionFields DEF Questions
    <3> QED BY <1>5, <3>1, <3>2 DEF AuthoringInv, QuestionsPlaced
  <2> QED BY <2>1, <2>2
<1>14. PublishedSound'
  <2> SUFFICES ASSUME NEW o \in Quizzes' \ raced', quiz'[o].status = "published"
               PROVE  Publishable(o)' /\ quiz'[o].count = Cardinality(Held(o))'
    BY DEF PublishedSound
  <2>1. CASE o = q
    <3>1. quiz'[o].count = Cardinality(Held(o))'
      BY <1>2, <1>5, <1>10, <2>1
    <3>2. Publishable(o)'
      BY <1>3, <1>4, <1>6, <1>10, <2>1 DEF Publishable
    <3> QED BY <3>1, <3>2
  <2>2. CASE o # q
    <3>1. o \in Quiz /\ o \in Quizzes \ raced /\ quiz'[o] = quiz[o] /\ Kept(o)
      BY <1>4, <1>5, <1>9, <2>2 DEF Quizzes
    <3> QED BY <3>1, KeptSound DEF AuthoringInv, PublishedSound
  <2> QED BY <2>1, <2>2
<1>15. \A x \in Question : question[x] # NoQuestion => question'[x] # NoQuestion
  BY <1>6, <1>7
<1>16. \A b \in Author : authoring'[b].op = "ask" => question'[authoring'[b].x] = question[authoring'[b].x]
  <2> TAKE b \in Author
  <2> HAVE authoring'[b].op = "ask"
  <2>1. authoring[b].x \in Question /\ authoring[b].x \notin S /\ authoring' = authoring
    BY <1>0, <1>4, AuthorFields DEF Fresh
  <2> QED BY <1>6, <2>1
<1> QED BY <1>4, <1>5, <1>9, <1>11, <1>12, <1>13, <1>14, <1>15, <1>16, WriteKeepsInv DEF Quizzes

LEMMA ArchiveQuizKeepsInv ==
  ASSUME AuthoringInv, NEW q \in Quiz, ArchiveQuiz(q)
  PROVE  AuthoringInv'
<1>0. AuthoringTypeOK /\ q \in Quizzes /\ UNCHANGED <<question, authoring, raced>>
  BY DEF AuthoringInv, ArchiveQuiz
<1>1. quiz[q] \in QuizRow
  BY <1>0, QuizFields
<1>2. PICK row : row = [quiz[q] EXCEPT !.status = "archived"]
  OBVIOUS
<1>3. row \in QuizRow /\ row.status = "archived" /\ row.count = quiz[q].count
  BY <1>1, <1>2 DEF QuizRow, Status
<1>4. quiz' = [quiz EXCEPT ![q] = row]
  BY <1>2 DEF ArchiveQuiz
<1>5. /\ quiz' \in [Quiz -> QuizRow \cup {NoQuiz, DeletedQuiz}]
      /\ \A o \in Quiz : quiz'[o] = IF o = q THEN row ELSE quiz[o]
      /\ Quizzes' = Quizzes /\ row # NoQuiz
  <2>1. q \in Quiz /\ Quizzes \cup {q} = Quizzes
    BY <1>0 DEF Quizzes
  <2> QED BY <1>0, <1>3, <1>4, <2>1, QuizWritten
<1>6. Questions' = Questions
  BY <1>0 DEF Questions
<1>7. \A o : Held(o)' = Held(o) /\ Kept(o)
  BY <1>0, <1>6 DEF Held, Kept
<1>8. AuthoringTypeOK'
  BY <1>0, <1>5 DEF AuthoringTypeOK
<1>9. QuestionsPlaced'
  BY <1>0, <1>5, <1>6, QuestionFields DEF AuthoringInv, QuestionsPlaced, Questions
<1>10. PublishedSound'
  <2> SUFFICES ASSUME NEW o \in Quizzes' \ raced', quiz'[o].status = "published"
               PROVE  Publishable(o)' /\ quiz'[o].count = Cardinality(Held(o))'
    BY DEF PublishedSound
  <2>1. o \in Quizzes \ raced /\ quiz'[o] = quiz[o]
    BY <1>0, <1>3, <1>5 DEF Quizzes
  <2> QED BY <1>7, <2>1, KeptSound DEF AuthoringInv, PublishedSound
<1>11. \A o \in Quizzes : quiz'[o].count = quiz[o].count
  BY <1>3, <1>5 DEF Quizzes
<1> QED BY <1>0, <1>5, <1>7, <1>8, <1>9, <1>10, <1>11, WriteKeepsInv

LEMMA DeleteQuizKeepsInv ==
  ASSUME AuthoringInv, NEW q \in Quiz, DeleteQuiz(q)
  PROVE  AuthoringInv'
<1>0. AuthoringTypeOK /\ q \in Quizzes /\ authoring' = authoring /\ raced' = raced \ {q}
  BY DEF AuthoringInv, DeleteQuiz
<1>1. /\ quiz' \in [Quiz -> QuizRow \cup {NoQuiz, DeletedQuiz}]
      /\ \A o \in Quiz : quiz'[o] = IF o = q THEN DeletedQuiz ELSE quiz[o]
  BY <1>0 DEF AuthoringTypeOK, DeleteQuiz
<1>2. /\ question' \in [Question -> QuestionRow \cup {NoQuestion, Removed}]
      /\ \A x \in Question : question'[x] = IF x \in Held(q) THEN Removed ELSE question[x]
  BY <1>0 DEF AuthoringTypeOK, DeleteQuiz
<1>3. Quizzes' = Quizzes \ {q} /\ DeletedQuiz # NoQuiz
  BY <1>0, <1>1, QuizFields DEF Quizzes, DeletedQuiz, Status
<1>4. Questions' = Questions \ Held(q)
  BY <1>2, QuestionFields DEF Questions
<1>5. \A o \in Quiz : o # q => Kept(o)
  <2> TAKE o \in Quiz
  <2> HAVE o # q
  <2>1. Held(o)' = Held(o)
    BY <1>2, <1>4 DEF Held, Questions
  <2> QED BY <1>2, <2>1 DEF Kept, Held, Questions
<1>6. AuthoringTypeOK'
  <2>1. raced' \subseteq Quiz
    BY <1>0 DEF AuthoringTypeOK
  <2> QED BY <1>0, <1>1, <1>2, <2>1 DEF AuthoringTypeOK
<1>7. QuestionsPlaced'
  <2> SUFFICES ASSUME NEW x \in Questions' PROVE quiz'[question'[x].quiz] # NoQuiz
    BY DEF QuestionsPlaced
  <2>1. x \in Questions /\ x \in Question /\ question'[x] = question[x]
    BY <1>2, <1>4 DEF Questions
  <2>2. question[x].quiz \in Quiz
    BY <2>1, QuestionFields DEF Questions
  <2> QED BY <1>1, <1>3, <2>1, <2>2 DEF AuthoringInv, QuestionsPlaced
<1>8. \A o \in Quizzes' \ raced' : o \in Quiz /\ o \in Quizzes \ raced /\ quiz'[o] = quiz[o] /\ Kept(o)
  BY <1>0, <1>1, <1>3, <1>5 DEF Quizzes
<1>9. PublishedSound'
  <2> SUFFICES ASSUME NEW o \in Quizzes' \ raced', quiz'[o].status = "published"
               PROVE  Publishable(o)' /\ quiz'[o].count = Cardinality(Held(o))'
    BY DEF PublishedSound
  <2> QED BY <1>8, KeptSound DEF AuthoringInv, PublishedSound
<1>10. \A x \in Question : question[x] # NoQuestion => question'[x] # NoQuestion
  BY <1>2, QuestionFields
<1>11. \A b \in Author : authoring'[b].op = "ask" => question'[authoring'[b].x] = question[authoring'[b].x]
  <2> TAKE b \in Author
  <2> HAVE authoring'[b].op = "ask"
  <2>1. authoring[b].x \in Question /\ question[authoring[b].x] = NoQuestion
    BY <1>0, AuthorFields DEF AuthoringInv, PendingSound
  <2>2. authoring[b].x \notin Held(q)
    BY <2>1, QuestionFields DEF Held, Questions
  <2> QED BY <1>0, <1>2, <2>1, <2>2
<1>12. \A o \in Quiz : quiz[o] # NoQuiz => quiz'[o] # NoQuiz
  BY <1>1, <1>3
<1> QED BY <1>0, <1>6, <1>7, <1>8, <1>9, <1>10, <1>11, <1>12, WriteKeepsInv

-----------------------------------------------------------------------------
LEMMA FinishEditKeepsInv ==
  ASSUME AuthoringInv, NEW a \in Author, FinishEdit(a)
  PROVE  AuthoringInv'
<1> DEFINE r == authoring[a]
           q == r.quiz
           stale == \/ q \notin Quizzes
                    \/ quiz[q].count # r.row.count
                    \/ r.row.status # quiz[q].status /\ r.status # "archived"
<1>0. AuthoringTypeOK /\ r.op = "edit" /\ Rest(a) /\ UNCHANGED question
  BY DEF AuthoringInv, FinishEdit
<1>1. q \in Quiz /\ r.row \in QuizRow /\ r.status \in Status
  BY <1>0, AuthorFields
<1>2. /\ r.status = "published" => r.row.status = "published"
      /\ quiz[q] # NoQuiz
  BY <1>0 DEF AuthoringInv, PendingSound
<1>3. PICK row : row = [r.row EXCEPT !.status = r.status]
  OBVIOUS
<1>4. row \in QuizRow /\ row.status = r.status /\ row.count = r.row.count
  BY <1>1, <1>3 DEF QuizRow
<1>5. quiz' = [quiz EXCEPT ![q] = row]
  BY <1>3 DEF FinishEdit
<1>6. /\ quiz' \in [Quiz -> QuizRow \cup {NoQuiz, DeletedQuiz}]
      /\ \A o \in Quiz : quiz'[o] = IF o = q THEN row ELSE quiz[o]
      /\ Quizzes' = Quizzes \cup {q} /\ row # NoQuiz
  BY <1>0, <1>1, <1>4, <1>5, QuizWritten
<1>7. raced' = (IF stale THEN raced \cup {q} ELSE raced)
  BY DEF FinishEdit
<1>8. Questions' = Questions
  BY <1>0 DEF Questions
<1>9. \A o : Held(o)' = Held(o) /\ Kept(o)
  BY <1>0, <1>8 DEF Held, Kept
<1>10. AuthoringTypeOK'
  <2>1. raced' \subseteq Quiz
    BY <1>0, <1>1, <1>7 DEF AuthoringTypeOK
  <2> QED BY <1>0, <1>6, <2>1, RestEffect DEF AuthoringTypeOK
<1>11. QuestionsPlaced'
  BY <1>0, <1>6, <1>8, QuestionFields DEF AuthoringInv, QuestionsPlaced, Questions
<1>12. \A o \in Quizzes' \ raced' :
         /\ o \in Quizzes \ raced /\ o \in Quiz /\ quiz'[o].count = quiz[o].count
         /\ quiz'[o].status = "published" => quiz[o].status = "published"
  <2> TAKE o \in Quizzes' \ raced'
  <2>1. o \in Quiz /\ o \notin raced
    BY <1>7 DEF Quizzes
  <2>2. CASE o # q
    BY <1>6, <2>1, <2>2
  <2>3. CASE o = q
    <3>1. ~stale
      BY <1>7, <2>3
    <3>2. o \in Quizzes /\ quiz[o].count = row.count
      BY <1>4, <2>3, <3>1
    <3>3. r.status = "published" => quiz[q].status = "published"
      BY <1>2, <3>1
    <3>4. quiz'[o] = row
      BY <1>6, <2>1, <2>3
    <3> QED BY <1>4, <2>1, <2>3, <3>2, <3>3, <3>4
  <2> QED BY <2>2, <2>3
<1> HIDE DEF stale
<1>13. PublishedSound'
  <2> SUFFICES ASSUME NEW o \in Quizzes' \ raced', quiz'[o].status = "published"
               PROVE  Publishable(o)' /\ quiz'[o].count = Cardinality(Held(o))'
    BY DEF PublishedSound
  <2> QED BY <1>9, <1>12, KeptSound DEF AuthoringInv, PublishedSound
<1>14. \A o \in Quiz : quiz[o] # NoQuiz => quiz'[o] # NoQuiz
  BY <1>6
<1> QED BY <1>0, <1>9, <1>10, <1>11, <1>12, <1>13, <1>14, RestEffect, WriteKeepsInv

LEMMA SyncedFits ==
  ASSUME AuthoringTypeOK, NEW q \in Quizzes, NEW n, NEW m \in Counts
  PROVE  /\ Synced(q, n, m) \in Counts
         /\ Synced(q, n, m) = quiz[q].count \/ Synced(q, n, m) = m
         /\ quiz[q].count = n => Synced(q, n, m) = m
BY QuizFields DEF Synced, Quizzes, QuizRow

LEMMA FinishPublishKeepsInv ==
  ASSUME AuthoringInv, NEW a \in Author, FinishPublish(a)
  PROVE  AuthoringInv'
<1> DEFINE r == authoring[a]
           q == r.quiz
<1>0. AuthoringTypeOK /\ r.op = "publish" /\ Rest(a) /\ UNCHANGED <<question, raced>>
  BY DEF AuthoringInv, FinishPublish
<1>1. CASE q \notin Quizzes
  <2>1. UNCHANGED <<quizRows, raced>>
    BY <1>0, <1>1 DEF FinishPublish, quizRows
  <2> QED BY <1>0, <2>1, RestKeepsInv
<1>2. CASE q \in Quizzes
  <2>1. q \in Quiz /\ quiz[q] \in QuizRow
    BY <1>0, <1>2, QuizFields DEF Quizzes
  <2>2. PICK n \in Counts : n = Synced(q, r.count, Cardinality(Held(q)))
    BY <1>0, <1>2, HeldCount, SyncedFits
  <2>3. n = quiz[q].count \/ n = Cardinality(Held(q))
    BY <1>0, <1>2, <2>2, HeldCount, SyncedFits
  <2>4. q \notin raced => Publishable(q) /\ n = Cardinality(Held(q))
    <3> SUFFICES ASSUME q \notin raced PROVE Publishable(q) /\ n = Cardinality(Held(q))
      OBVIOUS
    <3>1. /\ Publishable(q)
          /\ quiz[q].count = r.count \/ quiz[q].count = Cardinality(Held(q))
      BY <1>0, <1>2 DEF AuthoringInv, PendingSound, PublishHolds
    <3> QED BY <2>2, <3>1 DEF Synced
  <2>5. PICK row : row = [quiz[q] EXCEPT !.status = "published", !.count = n]
    OBVIOUS
  <2>6. row \in QuizRow /\ row.status = "published" /\ row.count = n
    BY <2>1, <2>5 DEF QuizRow, Status
  <2>7. quiz' = [quiz EXCEPT ![q] = row]
    BY <1>2, <2>2, <2>5 DEF FinishPublish
  <2>8. /\ quiz' \in [Quiz -> QuizRow \cup {NoQuiz, DeletedQuiz}]
        /\ \A o \in Quiz : quiz'[o] = IF o = q THEN row ELSE quiz[o]
        /\ Quizzes' = Quizzes \cup {q} /\ row # NoQuiz
    BY <1>0, <2>1, <2>6, <2>7, QuizWritten
  <2>9. Questions' = Questions
    BY <1>0 DEF Questions
  <2>10. \A o : Held(o)' = Held(o) /\ Kept(o)
    BY <1>0, <2>9 DEF Held, Kept
  <2>11. AuthoringTypeOK'
    BY <1>0, <2>8, RestEffect DEF AuthoringTypeOK
  <2>12. QuestionsPlaced'
    BY <1>0, <2>8, <2>9, QuestionFields DEF AuthoringInv, QuestionsPlaced, Questions
  <2>13. PublishedSound'
    <3> SUFFICES ASSUME NEW o \in Quizzes' \ raced', quiz'[o].status = "published"
                 PROVE  Publishable(o)' /\ quiz'[o].count = Cardinality(Held(o))'
      BY DEF PublishedSound
    <3>1. o \in Quiz /\ o \in Quizzes \ raced
      BY <1>0, <1>2, <2>8 DEF Quizzes
    <3>2. CASE o = q
      BY <2>4, <2>6, <2>8, <2>10, <3>1, <3>2, KeptSound
    <3>3. CASE o # q
      BY <2>8, <2>10, <3>1, <3>3, KeptSound DEF AuthoringInv, PublishedSound
    <3> QED BY <3>2, <3>3
  <2>14. \A o \in Quizzes' \ raced' :
           /\ o \in Quizzes \ raced /\ o \in Quiz
           /\ quiz'[o].count = quiz[o].count \/ quiz'[o].count = Cardinality(Held(o))
    BY <1>0, <1>2, <2>3, <2>6, <2>8 DEF Quizzes
  <2>15. \A o \in Quiz : quiz[o] # NoQuiz => quiz'[o] # NoQuiz
    BY <2>8
  <2> QED BY <1>0, <2>10, <2>11, <2>12, <2>13, <2>14, <2>15, RestEffect, WriteKeepsInv
<1> QED BY <1>1, <1>2

LEMMA FinishResyncKeepsInv ==
  ASSUME AuthoringInv, NEW a \in Author, FinishResync(a)
  PROVE  AuthoringInv'
<1> DEFINE r == authoring[a]
           q == r.quiz
<1>0. AuthoringTypeOK /\ r.op = "resync" /\ Rest(a) /\ UNCHANGED <<question, raced>>
  BY DEF AuthoringInv, FinishResync
<1>1. CASE q \notin Quizzes
  <2>1. UNCHANGED <<quizRows, raced>>
    BY <1>0, <1>1 DEF FinishResync, quizRows
  <2> QED BY <1>0, <2>1, RestKeepsInv
<1>2. CASE q \in Quizzes
  <2>1. q \in Quiz /\ quiz[q] \in QuizRow
    BY <1>0, <1>2, QuizFields DEF Quizzes
  <2>2. PICK n \in Counts : n = Synced(q, r.count, Cardinality(Held(q)))
    BY <1>0, <1>2, HeldCount, SyncedFits
  <2>3. n = quiz[q].count \/ n = Cardinality(Held(q))
    BY <1>0, <1>2, <2>2, HeldCount, SyncedFits
  <2>4. PICK row : row = [quiz[q] EXCEPT !.count = n]
    OBVIOUS
  <2>5. row \in QuizRow /\ row.status = quiz[q].status /\ row.count = n
    BY <2>1, <2>4 DEF QuizRow
  <2>6. quiz' = [quiz EXCEPT ![q] = row]
    BY <1>2, <2>2, <2>4 DEF FinishResync
  <2>7. /\ quiz' \in [Quiz -> QuizRow \cup {NoQuiz, DeletedQuiz}]
        /\ \A o \in Quiz : quiz'[o] = IF o = q THEN row ELSE quiz[o]
        /\ Quizzes' = Quizzes \cup {q} /\ row # NoQuiz
    BY <1>0, <2>1, <2>5, <2>6, QuizWritten
  <2>8. Questions' = Questions
    BY <1>0 DEF Questions
  <2>9. \A o : Held(o)' = Held(o) /\ Kept(o)
    BY <1>0, <2>8 DEF Held, Kept
  <2>10. AuthoringTypeOK'
    BY <1>0, <2>7, RestEffect DEF AuthoringTypeOK
  <2>11. QuestionsPlaced'
    BY <1>0, <2>7, <2>8, QuestionFields DEF AuthoringInv, QuestionsPlaced, Questions
  <2>12. \A o \in Quizzes' \ raced' :
           /\ o \in Quizzes \ raced /\ o \in Quiz /\ quiz'[o].status = quiz[o].status
           /\ quiz'[o].count = quiz[o].count \/ quiz'[o].count = Cardinality(Held(o))
    BY <1>0, <1>2, <2>3, <2>5, <2>7 DEF Quizzes
  <2>13. PublishedSound'
    <3> SUFFICES ASSUME NEW o \in Quizzes' \ raced', quiz'[o].status = "published"
                 PROVE  Publishable(o)' /\ quiz'[o].count = Cardinality(Held(o))'
      BY DEF PublishedSound
    <3> QED BY <2>9, <2>12, KeptSound DEF AuthoringInv, PublishedSound
  <2>14. \A o \in Quiz : quiz[o] # NoQuiz => quiz'[o] # NoQuiz
    BY <2>7
  <2> QED BY <1>0, <2>9, <2>10, <2>11, <2>12, <2>13, <2>14, RestEffect, WriteKeepsInv
<1> QED BY <1>1, <1>2

(* A step that writes one question.  The quizzes it is taken from and put in
   are drafts that nobody publishes, or raced. *)
LEMMA QuestionWritten ==
  ASSUME AuthoringTypeOK, NEW x \in Question, NEW row \in QuestionRow \cup {Removed},
         question' = [question EXCEPT ![x] = row]
  PROVE  /\ question' \in [Question -> QuestionRow \cup {NoQuestion, Removed}]
         /\ \A y \in Question : question'[y] = IF y = x THEN row ELSE question[y]
         /\ \A o : /\ x \notin Questions \/ question[x].quiz # o
                   /\ row = Removed \/ row.quiz # o
                   => Kept(o)
         /\ row = Removed => Questions' = Questions \ {x}
         /\ row # Removed => Questions' = Questions \cup {x}
<1>1. /\ question' \in [Question -> QuestionRow \cup {NoQuestion, Removed}]
      /\ \A y \in Question : question'[y] = IF y = x THEN row ELSE question[y]
  BY DEF AuthoringTypeOK
<1>2. row = Removed => Questions' = Questions \ {x}
  BY <1>1, QuestionFields DEF Questions
<1>3. row # Removed => Questions' = Questions \cup {x}
  BY <1>1, QuestionFields DEF Questions
<1>4. ASSUME NEW o, x \notin Questions \/ question[x].quiz # o, row = Removed \/ row.quiz # o
      PROVE  Kept(o)
  <2>1. x \notin Held(o)
    BY <1>4 DEF Held
  <2>2. \A y : y \in Held(o)' <=> y \in Held(o)
    <3> TAKE y
    <3>1. CASE y = x
      BY <1>1, <1>2, <1>3, <1>4, <2>1, <3>1 DEF Held, Questions
    <3>2. CASE y # x
      BY <1>1, <1>2, <1>3, <3>2 DEF Held, Questions
    <3> QED BY <3>1, <3>2
  <2>3. Held(o)' = Held(o)
    BY <2>2
  <2> QED BY <1>1, <2>1, <2>3 DEF Kept, Held, Questions
<1> QED BY <1>1, <1>2, <1>3, <1>4

(* What the quizzes that are not raced by a step that writes one question have
   to show. *)
LEMMA QuestionKeepsInv ==
  ASSUME AuthoringInv, AuthoringTypeOK', NEW S \in SUBSET Quiz,
         \A b \in Author : authoring'[b] = authoring[b] \/ authoring'[b].op \in {"rest", "resync"},
         \A b \in Author : authoring'[b].op = "ask" => question'[authoring'[b].x] = question[authoring'[b].x],
         \A x \in Question : question[x] # NoQuestion => question'[x] # NoQuestion,
         \A x \in Questions' : quiz[question'[x].quiz] # NoQuiz,
         \A o \in Quiz : quiz'[o] = quiz[o] \/ (o \in S /\ o \in Quizzes /\ quiz'[o] # NoQuiz),
         \A o \in Quizzes' : o \in Quizzes /\ quiz'[o].status = quiz[o].status,
         \A o \in Quiz \ S : Kept(o),
         raced' = raced \cup NotQuiet(S)
  PROVE  AuthoringInv'
<1>1. \A o \in Quizzes' \ raced' : o \in Quiz /\ o \in Quizzes \ raced
  BY DEF Quizzes
<1>2. \A o \in (Quizzes' \ raced') \cap S :
        quiz[o].status = "draft" /\ ~Publishing(o)
  BY DEF NotQuiet
<1>3. PublishedSound'
  <2> SUFFICES ASSUME NEW o \in Quizzes' \ raced', quiz'[o].status = "published"
               PROVE  Publishable(o)' /\ quiz'[o].count = Cardinality(Held(o))'
    BY DEF PublishedSound
  <2>1. quiz[o].status = "published"
    OBVIOUS
  <2>2. o \notin S
    BY <1>2, <2>1
  <2>3. Kept(o) /\ quiz'[o] = quiz[o]
    BY <1>1, <2>2
  <2> QED BY <1>1, <2>1, <2>3, KeptSound DEF AuthoringInv, PublishedSound
<1>4. \A o \in Quizzes' \ raced' :
        (\E b \in Author : authoring'[b].op = "publish" /\ authoring'[b].quiz = o) =>
          /\ o \in Quizzes \ raced /\ Kept(o)
          /\ quiz'[o].count = quiz[o].count
  <2> SUFFICES ASSUME NEW o \in Quizzes' \ raced', NEW b \in Author,
                      authoring'[b].op = "publish", authoring'[b].quiz = o
               PROVE  o \in Quizzes \ raced /\ Kept(o) /\ quiz'[o].count = quiz[o].count
    OBVIOUS
  <2>1. authoring[b].op = "publish" /\ authoring[b].quiz = o
    OBVIOUS
  <2>2. o \notin S
    BY <1>2, <2>1 DEF Publishing
  <2> QED BY <1>1, <2>2
<1>5. \A o \in Quiz : quiz[o] # NoQuiz => quiz'[o] # NoQuiz
  OBVIOUS
<1>6. QuestionsPlaced'
  <2> SUFFICES ASSUME NEW x \in Questions' PROVE quiz'[question'[x].quiz] # NoQuiz
    BY DEF QuestionsPlaced
  <2>1. question'[x].quiz \in Quiz
    BY QuestionFields DEF Questions
  <2> QED BY <1>5, <2>1
<1> QED BY <1>3, <1>4, <1>5, <1>6, WriteKeepsInv

LEMMA FinishAskKeepsInv ==
  ASSUME AuthoringInv, NEW a \in Author, FinishAsk(a)
  PROVE  AuthoringInv'
<1> DEFINE r == authoring[a]
           q == r.quiz
<1>0. AuthoringTypeOK /\ r.op = "ask" /\ Rest(a)
  BY DEF AuthoringInv, FinishAsk
<1>1. CASE q \notin Quizzes
  <2>1. UNCHANGED <<quizRows, raced>>
    BY <1>1 DEF FinishAsk, quizRows
  <2> QED BY <1>0, <2>1, RestKeepsInv
<1>2. CASE q \in Quizzes
  <2>1. /\ q \in Quiz /\ quiz[q] \in QuizRow /\ r.x \in Question /\ r.sound \in BOOLEAN
        /\ question[r.x] = NoQuestion
    BY <1>0, <1>2, QuizFields, AuthorFields DEF Quizzes, AuthoringInv, PendingSound
  <2>2. r.x \notin Questions /\ r.x \notin Held(q)
    BY <2>1, QuestionFields DEF Held, Questions
  <2>3. PICK n \in Counts : n = Synced(q, r.count, Cardinality(Held(q)) + 1)
    <3>1. Cardinality(Held(q)) + 1 \in Counts
      BY <2>1, <2>2, HeldCount
    <3> QED BY <1>0, <1>2, <3>1, SyncedFits
  <2>4. PICK row : row = [quiz[q] EXCEPT !.count = n]
    OBVIOUS
  <2>5. row \in QuizRow /\ row.status = quiz[q].status
    BY <2>1, <2>4 DEF QuizRow
  <2>6. quiz' = [quiz EXCEPT ![q] = row]
    BY <1>2, <2>3, <2>4 DEF FinishAsk
  <2>7. /\ quiz' \in [Quiz -> QuizRow \cup {NoQuiz, DeletedQuiz}]
        /\ \A o \in Quiz : quiz'[o] = IF o = q THEN row ELSE quiz[o]
        /\ Quizzes' = Quizzes \cup {q} /\ row # NoQuiz
    BY <1>0, <2>1, <2>5, <2>6, QuizWritten
  <2>8. PICK asked : asked = [quiz |-> q, sound |-> r.sound]
    OBVIOUS
  <2>9. asked \in QuestionRow /\ asked.quiz = q
    BY <2>1, <2>8 DEF QuestionRow
  <2>10. question' = [question EXCEPT ![r.x] = asked] /\ raced' = raced \cup NotQuiet({q})
    BY <1>2, <2>8 DEF FinishAsk
  <2>11. asked # Removed
    BY <2>9, QuestionFields
  <2>12. /\ question' \in [Question -> QuestionRow \cup {NoQuestion, Removed}]
         /\ \A y \in Question : question'[y] = IF y = r.x THEN asked ELSE question[y]
         /\ \A o : o # q => Kept(o)
         /\ Questions' = Questions \cup {r.x}
    <3>1. asked \in QuestionRow \cup {Removed}
      BY <2>9
    <3> HIDE DEF r
    <3>2. /\ question' \in [Question -> QuestionRow \cup {NoQuestion, Removed}]
          /\ \A y \in Question : question'[y] = IF y = r.x THEN asked ELSE question[y]
          /\ \A o : /\ r.x \notin Questions \/ question[r.x].quiz # o
                    /\ asked = Removed \/ asked.quiz # o
                    => Kept(o)
          /\ Questions' = Questions \cup {r.x}
      BY <1>0, <2>1, <2>10, <2>11, <3>1, QuestionWritten
    <3> QED BY <2>2, <2>9, <3>2
  <2>13. AuthoringTypeOK'
    <3>1. raced' \subseteq Quiz
      BY <1>0, <2>1, <2>10 DEF AuthoringTypeOK, NotQuiet
    <3> QED BY <1>0, <2>7, <2>12, <3>1, RestEffect DEF AuthoringTypeOK
  <2>14. \A b \in Author : authoring'[b].op = "ask" => question'[authoring'[b].x] = question[authoring'[b].x]
    <3> TAKE b \in Author
    <3> HAVE authoring'[b].op = "ask"
    <3>1. b # a /\ authoring'[b] = authoring[b]
      BY <1>0, RestEffect
    <3>2. authoring[b].x # r.x /\ authoring[b].x \in Question
      BY <1>0, <3>1, AuthorFields DEF AuthoringInv, AsksApart
    <3> QED BY <2>12, <3>1, <3>2
  <2>15. \A x \in Question : question[x] # NoQuestion => question'[x] # NoQuestion
    BY <2>1, <2>12
  <2>16. \A x \in Questions' : quiz[question'[x].quiz] # NoQuiz
    <3> TAKE x \in Questions'
    <3>1. CASE x = r.x
      BY <1>0, <2>1, <2>9, <2>12, <3>1, <1>2, QuizFields
    <3>2. CASE x # r.x
      BY <2>12, <3>2 DEF AuthoringInv, QuestionsPlaced, Questions
    <3> QED BY <3>1, <3>2
  <2>17. \A o \in Quiz : quiz'[o] = quiz[o] \/ (o \in {q} /\ o \in Quizzes /\ quiz'[o] # NoQuiz)
    BY <1>2, <2>7
  <2>18. \A o \in Quizzes' : o \in Quizzes /\ quiz'[o].status = quiz[o].status
    BY <1>2, <2>5, <2>7 DEF Quizzes
  <2>19. \A o \in Quiz \ {q} : Kept(o)
    BY <2>12
  <2>20. {q} \in SUBSET Quiz
    BY <2>1
  <2>21. \A b \in Author : authoring'[b] = authoring[b] \/ authoring'[b].op \in {"rest", "resync"}
    BY <1>0, RestEffect
  <2> QED BY <2>10, <2>13, <2>14, <2>15, <2>16, <2>17, <2>18, <2>19, <2>20, <2>21, QuestionKeepsInv
<1> QED BY <1>1, <1>2

LEMMA FinishReworkKeepsInv ==
  ASSUME AuthoringInv, NEW a \in Author, FinishRework(a)
  PROVE  AuthoringInv'
<1> DEFINE r == authoring[a]
           q == r.quiz
           before == IF r.x \in Questions THEN {question[r.x].quiz} ELSE {}
           S == before \cup {q}
<1>0. AuthoringTypeOK /\ r.op = "reworked" /\ Rest(a) /\ UNCHANGED quiz
  BY DEF AuthoringInv, FinishRework
<1>1. CASE q \notin Quizzes
  <2>1. UNCHANGED <<quizRows, raced>>
    BY <1>0, <1>1 DEF FinishRework, quizRows
  <2> QED BY <1>0, <2>1, RestKeepsInv
<1>2. CASE q \in Quizzes
  <2>1. q \in Quiz /\ r.x \in Question /\ r.choices \in BOOLEAN /\ question[r.x] # NoQuestion
    BY <1>0, <1>2, AuthorFields DEF Quizzes, AuthoringInv, PendingSound
  <2>2. \A x \in Questions : question[x].sound \in BOOLEAN /\ question[x].quiz \in Quiz
    BY QuestionFields DEF Questions
  <2>3. PICK snd : snd = (r.choices \/ (r.x \in Questions /\ question[r.x].sound))
    OBVIOUS
  <2>4. snd \in BOOLEAN
    BY <2>1, <2>2, <2>3
  <2>5. PICK row : row = [quiz |-> q, sound |-> snd]
    OBVIOUS
  <2>6. row \in QuestionRow /\ row.quiz = q
    BY <2>1, <2>4, <2>5 DEF QuestionRow
  <2>7. question' = [question EXCEPT ![r.x] = row] /\ raced' = raced \cup NotQuiet(S)
    BY <1>2, <2>3, <2>5 DEF FinishRework
  <2>8. row # Removed /\ row # NoQuestion
    BY <2>6, QuestionFields
  <2>9. S \in SUBSET Quiz
    BY <2>1, <2>2
  <2>10. /\ question' \in [Question -> QuestionRow \cup {NoQuestion, Removed}]
         /\ \A y \in Question : question'[y] = IF y = r.x THEN row ELSE question[y]
         /\ \A o : (r.x \notin Questions \/ question[r.x].quiz # o) /\ o # q => Kept(o)
         /\ Questions' = Questions \cup {r.x}
    <3>1. row \in QuestionRow \cup {Removed}
      BY <2>6
    <3> HIDE DEF r
    <3>2. /\ question' \in [Question -> QuestionRow \cup {NoQuestion, Removed}]
          /\ \A y \in Question : question'[y] = IF y = r.x THEN row ELSE question[y]
          /\ \A o : /\ r.x \notin Questions \/ question[r.x].quiz # o
                    /\ row = Removed \/ row.quiz # o
                    => Kept(o)
          /\ Questions' = Questions \cup {r.x}
      BY <1>0, <2>1, <2>7, <2>8, <3>1, QuestionWritten
    <3> QED BY <2>6, <3>2
  <2>11. \A o \in Quiz \ S : Kept(o)
    BY <2>10
  <2> HIDE DEF S
  <2>12. AuthoringTypeOK'
    <3>1. raced' \subseteq Quiz
      BY <1>0, <2>7, <2>9 DEF AuthoringTypeOK, NotQuiet
    <3> QED BY <1>0, <2>10, <3>1, RestEffect DEF AuthoringTypeOK
  <2>13. \A b \in Author : authoring'[b].op = "ask" => question'[authoring'[b].x] = question[authoring'[b].x]
    <3> TAKE b \in Author
    <3> HAVE authoring'[b].op = "ask"
    <3>1. authoring'[b] = authoring[b]
      BY <1>0, RestEffect
    <3>2. authoring[b].x # r.x /\ authoring[b].x \in Question
      BY <1>0, <2>1, <3>1, AuthorFields DEF AuthoringInv, PendingSound
    <3> QED BY <2>10, <3>1, <3>2
  <2>14. \A x \in Question : question[x] # NoQuestion => question'[x] # NoQuestion
    BY <2>8, <2>10
  <2>15. \A x \in Questions' : quiz[question'[x].quiz] # NoQuiz
    <3> TAKE x \in Questions'
    <3>1. CASE x = r.x
      BY <1>0, <1>2, <2>1, <2>6, <2>10, <3>1, QuizFields
    <3>2. CASE x # r.x
      BY <2>10, <3>2 DEF AuthoringInv, QuestionsPlaced, Questions
    <3> QED BY <3>1, <3>2
  <2>16. Quizzes' = Quizzes
    BY <1>0 DEF Quizzes
  <2>17. \A b \in Author : authoring'[b] = authoring[b] \/ authoring'[b].op \in {"rest", "resync"}
    BY <1>0, RestEffect
  <2> QED BY <1>0, <2>7, <2>9, <2>11, <2>12, <2>13, <2>14, <2>15, <2>16, <2>17, QuestionKeepsInv
<1> QED BY <1>1, <1>2

LEMMA FinishDropKeepsInv ==
  ASSUME AuthoringInv, NEW a \in Author, FinishDrop(a)
  PROVE  AuthoringInv'
<1> DEFINE r == authoring[a]
           S == IF r.x \in Questions THEN {question[r.x].quiz} ELSE {}
<1>0. /\ AuthoringTypeOK /\ r.op = "drop" /\ UNCHANGED quiz
      /\ question' = [question EXCEPT ![r.x] = Removed]
  BY DEF AuthoringInv, FinishDrop
<1>1. r \in Writing /\ r.quiz \in Quiz /\ r.count \in Counts /\ r.x \in Question /\ question[r.x] # NoQuestion
  BY <1>0, AuthorFields DEF AuthoringInv, PendingSound
<1>2. PICK left : left = [op |-> "resync", quiz |-> r.quiz, count |-> r.count]
  OBVIOUS
<1>3. left \in Writing /\ left.op = "resync"
  BY <1>1, <1>2 DEF Writing
<1>4. authoring' = [authoring EXCEPT ![a] = left]
  BY <1>2 DEF FinishDrop
<1>5. /\ authoring' \in [Author -> Writing \cup {Resting}]
      /\ \A b \in Author : authoring'[b] = IF b = a THEN left ELSE authoring[b]
  BY <1>0, <1>3, <1>4 DEF AuthoringTypeOK
<1>6. S \in SUBSET Quiz
  BY QuestionFields DEF Questions
<1>7. raced' = raced \cup NotQuiet(S)
  <2>1. CASE r.x \in Questions
    BY <2>1 DEF FinishDrop
  <2>2. CASE r.x \notin Questions
    BY <2>2 DEF FinishDrop, NotQuiet
  <2> QED BY <2>1, <2>2
<1>8. /\ question' \in [Question -> QuestionRow \cup {NoQuestion, Removed}]
      /\ \A y \in Question : question'[y] = IF y = r.x THEN Removed ELSE question[y]
      /\ \A o : r.x \notin Questions \/ question[r.x].quiz # o => Kept(o)
      /\ Questions' = Questions \ {r.x}
  BY <1>0, <1>1, QuestionWritten
<1>9. \A o \in Quiz \ S : Kept(o)
  BY <1>8
<1> HIDE DEF S
<1>10. AuthoringTypeOK'
  <2>1. raced' \subseteq Quiz
    BY <1>0, <1>6, <1>7 DEF AuthoringTypeOK, NotQuiet
  <2> QED BY <1>0, <1>5, <1>8, <2>1 DEF AuthoringTypeOK
<1>11. \A b \in Author : authoring'[b].op = "ask" => question'[authoring'[b].x] = question[authoring'[b].x]
  <2> TAKE b \in Author
  <2> HAVE authoring'[b].op = "ask"
  <2>1. authoring'[b] = authoring[b]
    BY <1>3, <1>5
  <2>2. authoring[b].x # r.x /\ authoring[b].x \in Question
    BY <1>0, <1>1, <2>1, AuthorFields DEF AuthoringInv, PendingSound
  <2> QED BY <1>8, <2>1, <2>2
<1>12. \A x \in Question : question[x] # NoQuestion => question'[x] # NoQuestion
  BY <1>8, QuestionFields
<1>13. \A x \in Questions' : quiz[question'[x].quiz] # NoQuiz
  BY <1>8 DEF AuthoringInv, QuestionsPlaced, Questions
<1>14. Quizzes' = Quizzes
  BY <1>0 DEF Quizzes
<1>15. \A b \in Author : authoring'[b] = authoring[b] \/ authoring'[b].op \in {"rest", "resync"}
  BY <1>3, <1>5
<1> QED BY <1>0, <1>6, <1>7, <1>9, <1>10, <1>11, <1>12, <1>13, <1>14, <1>15, QuestionKeepsInv

-----------------------------------------------------------------------------
LEMMA AuthoringInitInv == AuthoringInit => AuthoringInv
<1> SUFFICES ASSUME AuthoringInit PROVE AuthoringInv
  OBVIOUS
<1> USE DEF AuthoringInit
<1>1. Quizzes = {} /\ Questions = {}
  BY QuestionFields DEF Quizzes, Questions, NoQuiz, Status
<1>2. \A a \in Author : authoring[a].op = "rest"
  BY DEF Resting
<1>3. AuthoringTypeOK
  BY DEF AuthoringTypeOK
<1> QED BY <1>1, <1>2, <1>3 DEF AuthoringInv, PendingSound, AsksApart, QuestionsPlaced, PublishedSound

LEMMA AuthoringNextInv == AuthoringInv /\ [AuthoringNext]_authoringVars => AuthoringInv'
<1> SUFFICES ASSUME AuthoringInv, [AuthoringNext]_authoringVars PROVE AuthoringInv'
  OBVIOUS
<1>1. CASE QuizStep
  BY <1>1, CreateQuizKeepsInv, ArchiveQuizKeepsInv, DeleteQuizKeepsInv, ReceiveQuizKeepsInv DEF QuizStep
<1>2. ASSUME NEW a \in Author, BeginAuthoring(a) PROVE AuthoringInv'
  BY <1>2, BeginEditKeepsInv, BeginPublishKeepsInv, BeginAskKeepsInv, BeginReworkKeepsInv, BeginDropKeepsInv
     DEF BeginAuthoring
<1>3. ASSUME NEW a \in Author, FinishAuthoring(a) PROVE AuthoringInv'
  <2>1. CASE LoseAuthor(a)
    BY <2>1, RestKeepsInv DEF LoseAuthor, Refuse
  <2> QED BY <1>3, <2>1, FinishEditKeepsInv, FinishPublishKeepsInv, FinishAskKeepsInv, LookAgainKeepsInv,
             FinishReworkKeepsInv, FinishDropKeepsInv, FinishResyncKeepsInv DEF FinishAuthoring
<1>4. CASE UNCHANGED authoringVars
  <2> USE <1>4 DEF authoringVars, quizRows
  <2>1. AuthoringTypeOK'
    BY DEF AuthoringInv, AuthoringTypeOK
  <2>2. Quizzes' = Quizzes /\ Questions' = Questions
    BY DEF Quizzes, Questions
  <2>3. \A o : Held(o)' = Held(o) /\ Kept(o)
    BY <2>2 DEF Held, Kept
  <2>4. QuestionsPlaced' /\ PublishedSound'
    BY <2>2, <2>3 DEF AuthoringInv, QuestionsPlaced, PublishedSound, Publishable
  <2> QED BY <2>1, <2>2, <2>3, <2>4, WriteKeepsInv
<1> QED BY <1>1, <1>2, <1>3, <1>4 DEF AuthoringNext

(* The invariant holds in every state of the quizzes. *)
THEOREM AuthoringInvariance == AuthoringSpec => []AuthoringInv
BY AuthoringInitInv, AuthoringNextInv, PTL DEF AuthoringSpec

(* The variables of the authoring keep their types; no count exceeds the
   questions there are. *)
THEOREM AuthoringTypeCorrect == AuthoringSpec => []AuthoringTypeOK
<1>1. AuthoringInv => AuthoringTypeOK
  BY DEF AuthoringInv
<1> QED BY <1>1, AuthoringInvariance, PTL

(* A published quiz has questions, all sound, and the right count of them,
   however requests interleave, unless one wrote what another had read
   (publish_quiz, sync_question_count). *)
THEOREM PublishedIsSound == AuthoringSpec => []PublishedSound
<1>1. AuthoringInv => PublishedSound
  BY DEF AuthoringInv
<1> QED BY <1>1, AuthoringInvariance, PTL

(* A published quiz goes back to a draft only by a PATCH that had read it as a
   draft (validate of the quiz serializer). *)
THEOREM PublishedStaysClosed == AuthoringSpec => PublishedOnlyArchived
<1>1. AuthoringInv /\ [AuthoringNext]_authoringVars =>
        [\A q \in Quiz : quiz[q].status = "published" /\ quiz'[q].status = "draft" => q \in raced']_authoringVars
  <2> SUFFICES ASSUME AuthoringInv, AuthoringNext, NEW q \in Quiz,
                      quiz[q].status = "published", quiz'[q].status = "draft"
               PROVE  q \in raced'
    OBVIOUS
  <2>0. AuthoringTypeOK /\ q \in Quizzes /\ quiz[q] \in QuizRow /\ quiz[q] # NoQuiz
    <3>1. q \in Quizzes
      BY DEF Quizzes, Status
    <3> QED BY <3>1, QuizFields DEF AuthoringInv
  <2>1. quiz'[q] # quiz[q] /\ quiz \in [Quiz -> QuizRow \cup {NoQuiz, DeletedQuiz}]
    BY <2>0 DEF AuthoringTypeOK
  <2>2. ASSUME NEW o \in Quiz, CreateQuiz(o) PROVE FALSE
    BY <2>0, <2>1, <2>2 DEF CreateQuiz
  <2>3. ASSUME NEW o \in Quiz, NEW S \in SUBSET Question, ReceiveQuiz(o, S) PROVE FALSE
    BY <2>0, <2>1, <2>3 DEF ReceiveQuiz
  <2>4. ASSUME NEW o \in Quiz, ArchiveQuiz(o) PROVE FALSE
    BY <2>0, <2>1, <2>4 DEF ArchiveQuiz, QuizRow
  <2>5. ASSUME NEW o \in Quiz, DeleteQuiz(o) PROVE FALSE
    BY <2>0, <2>1, <2>5 DEF DeleteQuiz, DeletedQuiz
  <2>6. ASSUME NEW a \in Author, BeginAuthoring(a) PROVE FALSE
    BY <2>1, <2>6 DEF BeginAuthoring, BeginEdit, BeginPublish, BeginAsk, BeginRework, BeginDrop, Begin, quizRows
  <2>7. ASSUME NEW a \in Author, FinishEdit(a) PROVE q \in raced'
    <3> DEFINE r == authoring[a]
    <3>1. r.op = "edit" /\ r.quiz \in Quiz /\ r.row \in QuizRow
      BY <2>0, <2>7, AuthorFields DEF FinishEdit
    <3>2. quiz' = [quiz EXCEPT ![r.quiz] = [r.row EXCEPT !.status = r.status]]
      BY <2>7 DEF FinishEdit
    <3>3. q = r.quiz /\ r.status = "draft"
      BY <2>1, <3>1, <3>2 DEF QuizRow
    <3>4. r.row.status = "draft"
      BY <3>1, <3>3 DEF AuthoringInv, PendingSound
    <3> QED BY <2>7, <3>3, <3>4 DEF FinishEdit
  <2>8. ASSUME NEW a \in Author, FinishPublish(a) PROVE FALSE
    <3> DEFINE o == authoring[a].quiz
               row == [quiz[o] EXCEPT !.status = "published",
                         !.count = Synced(o, authoring[a].count, Cardinality(Held(o)))]
    <3>1. o \in Quizzes /\ quiz' = [quiz EXCEPT ![o] = row]
      BY <2>1, <2>8 DEF FinishPublish
    <3>2. quiz[o] \in QuizRow /\ o \in Quiz
      BY <2>0, <3>1, QuizFields DEF Quizzes
    <3>3. row.status = "published"
      BY <3>2 DEF QuizRow
    <3> HIDE DEF row
    <3> QED BY <2>1, <3>1, <3>2, <3>3
  <2>9. ASSUME NEW a \in Author, FinishAsk(a) PROVE FALSE
    <3> DEFINE o == authoring[a].quiz
    <3>1. PICK n : quiz' = [quiz EXCEPT ![o].count = n]
      BY <2>1, <2>9 DEF FinishAsk, quizRows
    <3> QED BY <2>0, <2>1, <3>1 DEF QuizRow
  <2>10. ASSUME NEW a \in Author, FinishResync(a) PROVE FALSE
    <3> DEFINE o == authoring[a].quiz
    <3>1. PICK n : quiz' = [quiz EXCEPT ![o].count = n]
      BY <2>1, <2>10 DEF FinishResync
    <3> QED BY <2>0, <2>1, <3>1 DEF QuizRow
  <2>11. ASSUME NEW a \in Author, LookAgain(a) \/ FinishRework(a) \/ FinishDrop(a) \/ LoseAuthor(a) PROVE FALSE
    BY <2>1, <2>11 DEF LookAgain, FinishRework, FinishDrop, LoseAuthor, Refuse, quizRows
  <2>12. CASE QuizStep
    BY <2>2, <2>3, <2>4, <2>5, <2>12 DEF QuizStep
  <2>13. ASSUME NEW a \in Author, FinishAuthoring(a) PROVE q \in raced'
    BY <2>7, <2>8, <2>9, <2>10, <2>11, <2>13 DEF FinishAuthoring
  <2> QED BY <2>6, <2>12, <2>13 DEF AuthoringNext
<1> QED BY <1>1, AuthoringInvariance, PTL DEF AuthoringSpec, PublishedOnlyArchived

-----------------------------------------------------------------------------
(***************************************************************************)
(* Accounts, for any visitors and bounds.                                  *)
(*                                                                         *)
(* OneResetPerPassword counts what was accepted; the next confirmation     *)
(* knows only the hash its link was checked against.  AccountsInv adds,    *)
(* as long as no two confirmations overlapped and no password was put      *)
(* back: at most one is open, its password was not reset yet, and the      *)
(* password of the account was not reset either.                           *)
(***************************************************************************)

(* Hashes are numbered as they are made. *)
HashesMade ==
  /\ user.hash <= hashes
  /\ \A v \in Visitor : visit[v].op \in {"confirm", "change"} => visit[v].hash <= hashes
  /\ \A v \in Visitor : visit[v].op = "me" => visit[v].row.hash <= hashes
  /\ \A h \in Hash : resets[h] > 0 => h <= hashes

Confirming(v) == visit[v].op = "confirm"

(* No confirmation is open for a password that was reset, and the account does
   not have one. *)
ResetsAreOver ==
  /\ \A v, w \in Visitor : Confirming(v) /\ Confirming(w) => v = w
  /\ \A v \in Visitor : Confirming(v) => resets[visit[v].hash] = 0
  /\ resets[user.hash] = 0
  /\ \A h \in Hash : resets[h] <= 1

Excused == muddled \/ undone

AccountsInv == AccountsTypeOK /\ HashesMade /\ (Excused \/ ResetsAreOver)

-----------------------------------------------------------------------------
(* What the operation of a visit tells of it. *)
LEMMA VisitByOp ==
  ASSUME AccountsTypeOK, NEW v \in Visitor
  PROVE  /\ visit[v].op \in {"confirm", "change"} => visit[v].hash \in Hash
         /\ visit[v].op = "me" => visit[v].row \in User
BY DEF AccountsTypeOK, Visit, Away

(* A student who has registered has reset nothing. *)
LEMMA AccountsInitInv == AccountsInit => AccountsInv
<1> SUFFICES ASSUME AccountsInit PROVE AccountsInv
  OBVIOUS
<1>1. 0 \in Hash /\ 0 \in 0..MaxLogin
  BY AccountsAssumption DEF Hash
<1>2. AccountsTypeOK
  BY <1>1 DEF AccountsInit, AccountsTypeOK, User
<1>3. HashesMade /\ ResetsAreOver
  BY <1>1 DEF AccountsInit, HashesMade, ResetsAreOver, Confirming, Away
<1> QED BY <1>2, <1>3 DEF AccountsInv

(* A step that leaves visits and passwords alone. *)
LEMMA RowStepKeepsInv ==
  ASSUME AccountsInv, user' \in User, user'.hash = user.hash, links' \subseteq ResetLink,
         UNCHANGED <<visit, hashes, resets, muddled, undone>>
  PROVE  AccountsInv'
<1>1. AccountsTypeOK'
  BY DEF AccountsInv, AccountsTypeOK
<1>2. HashesMade' /\ (Excused \/ ResetsAreOver)'
  BY DEF AccountsInv, HashesMade, Excused, ResetsAreOver, Confirming
<1> QED BY <1>1, <1>2 DEF AccountsInv

(* Sign-ins, mailed links and suspensions are such steps. *)
LEMMA OutsideKeepsInv ==
  ASSUME AccountsInv, SignIn \/ RequestReset \/ \E b \in BOOLEAN : SetUserActive(b)
  PROVE  AccountsInv'
<1>1. user \in User /\ links \subseteq ResetLink
  BY DEF AccountsInv, AccountsTypeOK
<1>2. CASE SignIn
  <2>1. user' \in User /\ user'.hash = user.hash
    BY <1>1, <1>2, AccountsAssumption DEF SignIn, User
  <2> QED BY <1>1, <1>2, <2>1, RowStepKeepsInv DEF SignIn
<1>3. CASE RequestReset
  <2>1. [hash |-> user.hash, login |-> user.login] \in ResetLink
    BY <1>1 DEF User, ResetLink
  <2> QED BY <1>1, <1>3, <2>1, RowStepKeepsInv DEF RequestReset
<1>4. ASSUME NEW b \in BOOLEAN, SetUserActive(b) PROVE AccountsInv'
  <2>1. user' \in User /\ user'.hash = user.hash
    BY <1>1, <1>4 DEF SetUserActive, User
  <2> QED BY <1>1, <1>4, <2>1, RowStepKeepsInv DEF SetUserActive
<1> QED BY <1>2, <1>3, <1>4

-----------------------------------------------------------------------------
(* A visit begins that confirms nothing. *)
LEMMA VisitingKeepsInv ==
  ASSUME AccountsInv, NEW v \in Visitor, NEW r \in Visit, r.op # "confirm",
         r.op = "change" => r.hash = user.hash, r.op = "me" => r.row.hash = user.hash,
         Visiting(v, r), UNCHANGED muddled
  PROVE  AccountsInv'
<1>0. AccountsTypeOK /\ HashesMade
  BY DEF AccountsInv
<1>1. visit'[v] = r /\ \A w \in Visitor \ {v} : visit'[w] = visit[w]
  BY <1>0 DEF Visiting, AccountsTypeOK
<1>2. AccountsTypeOK'
  BY <1>0 DEF AccountsTypeOK, Visiting
<1>3. HashesMade'
  BY <1>0, <1>1 DEF HashesMade, Visiting
<1>4. (Excused \/ ResetsAreOver)'
  BY <1>1 DEF AccountsInv, Excused, ResetsAreOver, Confirming, Visiting
<1> QED BY <1>2, <1>3, <1>4 DEF AccountsInv

(* A confirmation begins: alone, for the password the account has, which was
   not reset yet. *)
LEMMA ConfirmKeepsInv ==
  ASSUME AccountsInv, NEW v \in Visitor, NEW k \in links, BeginConfirm(v, k)
  PROVE  AccountsInv'
<1>0. AccountsTypeOK /\ HashesMade
  BY DEF AccountsInv
<1> DEFINE r == [op |-> "confirm", hash |-> k.hash]
<1>1. r \in Visit /\ k.hash = user.hash /\ k.hash \in Hash
  BY <1>0 DEF BeginConfirm, Honoured, AccountsTypeOK, ResetLink, Visit
<1>2. /\ visit' = [visit EXCEPT ![v] = r] /\ visit[v] = Away
      /\ UNCHANGED <<user, links, hashes, resets, undone>>
      /\ muddled' = (muddled \/ \E w \in Visitor : visit[w].op = "confirm")
  BY DEF BeginConfirm, Visiting
<1> HIDE DEF r
<1>3. visit'[v] = r /\ \A w \in Visitor \ {v} : visit'[w] = visit[w]
  BY <1>0, <1>2 DEF AccountsTypeOK
<1>4. r.op = "confirm" /\ r.hash = user.hash
  BY <1>1 DEF r
<1>5. AccountsTypeOK'
  <2>1. visit' \in [Visitor -> Visit \cup {Away}]
    BY <1>0, <1>1, <1>2 DEF AccountsTypeOK
  <2>2. muddled' \in BOOLEAN
    BY <1>2
  <2> QED BY <1>0, <1>2, <2>1, <2>2 DEF AccountsTypeOK
<1>6. HashesMade'
  BY <1>0, <1>2, <1>3, <1>4 DEF HashesMade
<1>7. (Excused \/ ResetsAreOver)'
  <2>1. CASE Excused \/ \E w \in Visitor : Confirming(w)
    BY <1>2, <2>1 DEF Excused, Confirming
  <2>2. CASE ~Excused /\ \A w \in Visitor : ~Confirming(w)
    BY <1>2, <1>3, <1>4, <2>2 DEF AccountsInv, Excused, ResetsAreOver, Confirming
  <2> QED BY <2>1, <2>2
<1> QED BY <1>5, <1>6, <1>7 DEF AccountsInv

(* A visit ends; passwords are as they were. *)
LEMMA AwayKeepsInv ==
  ASSUME AccountsInv, NEW v \in Visitor, GoAway(v), UNCHANGED <<links, hashes, resets, muddled>>,
         user' \in User, undone' \in BOOLEAN, user'.hash <= hashes,
         undone' \/ (user'.hash = user.hash /\ undone' = undone)
  PROVE  AccountsInv'
<1>0. AccountsTypeOK /\ HashesMade
  BY DEF AccountsInv
<1>1. visit'[v] = Away /\ \A w \in Visitor \ {v} : visit'[w] = visit[w]
  BY <1>0 DEF GoAway, AccountsTypeOK
<1>2. AccountsTypeOK'
  BY <1>0 DEF AccountsTypeOK, GoAway
<1>3. HashesMade'
  BY <1>0, <1>1 DEF HashesMade, Away
<1>4. (Excused \/ ResetsAreOver)'
  <2>1. CASE undone'
    BY <2>1 DEF Excused
  <2>2. CASE user'.hash = user.hash /\ undone' = undone
    BY <1>1, <2>2 DEF AccountsInv, Excused, ResetsAreOver, Confirming, Away
  <2> QED BY <2>1, <2>2
<1> QED BY <1>2, <1>3, <1>4 DEF AccountsInv

(* A visit that is lost. *)
LEMMA LoseVisitorKeepsInv ==
  ASSUME AccountsInv, NEW v \in Visitor, LoseVisitor(v) PROVE AccountsInv'
BY AwayKeepsInv DEF LoseVisitor, AccountsInv, AccountsTypeOK, HashesMade

(* The saved row carries the password as read; another one than the account
   has now is known to be undone. *)
LEMMA FinishMeKeepsInv ==
  ASSUME AccountsInv, NEW v \in Visitor, FinishMe(v) PROVE AccountsInv'
<1>1. user' = visit[v].row /\ visit[v].row \in User /\ visit[v].row.hash <= hashes
  BY VisitByOp DEF FinishMe, AccountsInv, HashesMade
<1>2. undone' = (undone \/ user.hash # visit[v].row.hash) /\ undone \in BOOLEAN
  BY DEF FinishMe, AccountsInv, AccountsTypeOK
<1>3. undone' \in BOOLEAN /\ (undone' \/ (user'.hash = user.hash /\ undone' = undone))
  BY <1>1, <1>2
<1> QED BY <1>1, <1>3, AwayKeepsInv DEF FinishMe

(* A password is saved: with a hash that is new.  If a link was confirmed, it
   was the only one, and the password it was for had not been reset. *)
LEMMA FinishPasswordKeepsInv ==
  ASSUME AccountsInv, NEW v \in Visitor, FinishPassword(v) PROVE AccountsInv'
<1> DEFINE h == visit[v].hash
<1>0. AccountsTypeOK /\ HashesMade
  BY DEF AccountsInv
<1>1. /\ h \in Hash /\ h <= hashes /\ hashes \in Nat /\ MaxHash \in Nat
      /\ hashes' = hashes + 1 /\ hashes' \in Hash
  BY <1>0, VisitByOp, AccountsAssumption
     DEF FinishPassword, HashesMade, AccountsTypeOK, Hash
<1>2. user' \in User /\ user'.hash = hashes + 1
  BY <1>0, <1>1 DEF FinishPassword, AccountsTypeOK, User
<1>3. visit'[v] = Away /\ \A w \in Visitor \ {v} : visit'[w] = visit[w]
  BY <1>0 DEF FinishPassword, GoAway, AccountsTypeOK
<1>4. /\ resets' \in [Hash -> Nat]
      /\ \A x \in Hash : resets'[x] = IF Confirming(v) /\ x = h THEN resets[x] + 1 ELSE resets[x]
  BY <1>0, <1>1 DEF FinishPassword, AccountsTypeOK, Confirming
<1>5. AccountsTypeOK'
  BY <1>0, <1>1, <1>2, <1>4 DEF AccountsTypeOK, FinishPassword, GoAway
<1>6. \A x \in Hash : x \in Nat /\ resets[x] \in Nat
  BY <1>0, AccountsAssumption DEF Hash, AccountsTypeOK
<1>7. HashesMade'
  <2>1. ASSUME NEW w \in Visitor, visit'[w].op \in {"confirm", "change"}
        PROVE  visit'[w].hash <= hashes'
    <3>1. w # v /\ visit'[w] = visit[w]
      BY <1>3, <2>1 DEF Away
    <3>2. visit[w].hash \in Nat /\ visit[w].hash <= hashes
      BY <1>0, <1>6, <2>1, <3>1, VisitByOp DEF HashesMade
    <3> QED BY <1>1, <3>1, <3>2
  <2>2. ASSUME NEW w \in Visitor, visit'[w].op = "me"
        PROVE  visit'[w].row.hash <= hashes'
    <3>1. w # v /\ visit'[w] = visit[w]
      BY <1>3, <2>2 DEF Away
    <3>2. visit[w].row.hash \in Nat /\ visit[w].row.hash <= hashes
      BY <1>0, <1>6, <2>2, <3>1, VisitByOp DEF HashesMade, User
    <3> QED BY <1>1, <3>1, <3>2
  <2>3. \A x \in Hash : resets'[x] > 0 => x <= hashes'
    BY <1>0, <1>1, <1>4, <1>6 DEF HashesMade
  <2> QED BY <1>1, <1>2, <2>1, <2>2, <2>3 DEF HashesMade
<1>8. (Excused \/ ResetsAreOver)'
  <2>1. CASE Excused
    BY <2>1 DEF Excused, FinishPassword
  <2>2. CASE ResetsAreOver
    <3>1. resets'[user'.hash] = 0
      <4>1. hashes + 1 \in Hash /\ hashes + 1 # h /\ ~(hashes + 1 <= hashes)
        BY <1>1, <1>6
      <4>2. ~(resets[hashes + 1] > 0)
        BY <1>0, <4>1 DEF HashesMade
      <4>3. resets[hashes + 1] = 0
        BY <1>6, <4>1, <4>2
      <4>4. resets'[hashes + 1] = resets[hashes + 1]
        BY <1>4, <4>1
      <4> QED BY <1>2, <4>3, <4>4
    <3>2. \A x \in Hash : resets'[x] <= 1
      <4>1. \A x \in Hash : resets[x] <= 1
        BY <2>2 DEF ResetsAreOver
      <4>2. Confirming(v) => resets[h] = 0
        BY <2>2 DEF ResetsAreOver
      <4> QED BY <1>4, <4>1, <4>2
    <3>3. \A w, u \in Visitor : Confirming(w)' /\ Confirming(u)' => w = u
      BY <1>3, <2>2 DEF ResetsAreOver, Confirming, Away
    <3>4. ASSUME NEW w \in Visitor, Confirming(w)' PROVE resets'[visit'[w].hash] = 0
      <4>1. w # v /\ visit'[w] = visit[w] /\ Confirming(w)
        BY <1>3, <3>4 DEF Confirming, Away
      <4>2. ~Confirming(v) /\ resets[visit[w].hash] = 0
        BY <2>2, <4>1 DEF ResetsAreOver
      <4>3. visit[w].hash \in Hash
        BY <1>0, <4>1, VisitByOp DEF Confirming
      <4> QED BY <1>4, <4>1, <4>2, <4>3
    <3> QED BY <3>1, <3>2, <3>3, <3>4 DEF ResetsAreOver
  <2> QED BY <2>1, <2>2 DEF AccountsInv
<1> QED BY <1>5, <1>7, <1>8 DEF AccountsInv

(* What a visitor may do. *)
LEMMA VisitorKeepsInv ==
  ASSUME AccountsInv, NEW v \in Visitor, VisitorStep(v) PROVE AccountsInv'
<1>1. user \in User
  BY DEF AccountsInv, AccountsTypeOK
<1>2. CASE BeginChange(v)
  <2>1. [op |-> "change", hash |-> user.hash] \in Visit
    BY <1>1 DEF Visit, User
  <2> QED BY <1>2, <2>1, VisitingKeepsInv DEF BeginChange
<1>3. CASE BeginMe(v)
  <2>1. [op |-> "me", row |-> user] \in Visit
    BY <1>1 DEF Visit
  <2> QED BY <1>3, <2>1, VisitingKeepsInv DEF BeginMe
<1>4. ASSUME NEW b \in BOOLEAN, BeginManage(v, b) PROVE AccountsInv'
  <2> DEFINE row == [user EXCEPT !.active = b]
  <2>1. row \in User /\ row.hash = user.hash
    BY <1>1 DEF User
  <2>2. [op |-> "me", row |-> row] \in Visit
    BY <2>1 DEF Visit
  <2> QED BY <1>4, <2>1, <2>2, VisitingKeepsInv DEF BeginManage
<1> QED BY <1>2, <1>3, <1>4, ConfirmKeepsInv, FinishPasswordKeepsInv, FinishMeKeepsInv,
           LoseVisitorKeepsInv DEF VisitorStep

(* Every step keeps the invariant. *)
THEOREM AccountsInvariance == AccountsSpec => []AccountsInv
<1>1. AccountsInv /\ [AccountsNext]_accountVars => AccountsInv'
  <2> SUFFICES ASSUME AccountsInv, [AccountsNext]_accountVars PROVE AccountsInv'
    OBVIOUS
  <2>1. CASE UNCHANGED accountVars
    BY <2>1 DEF accountVars, AccountsInv, AccountsTypeOK, HashesMade, Excused, ResetsAreOver,
                Confirming
  <2>2. CASE AccountsNext
    BY <2>2, OutsideKeepsInv, VisitorKeepsInv DEF AccountsNext
  <2> QED BY <2>1, <2>2
<1> QED BY <1>1, AccountsInitInv, PTL DEF AccountsSpec

-----------------------------------------------------------------------------
(* Every variable keeps its type. *)
THEOREM AccountsTypeCorrect == AccountsSpec => []AccountsTypeOK
<1>1. AccountsInv => AccountsTypeOK
  BY DEF AccountsInv
<1> QED BY <1>1, AccountsInvariance, PTL

(* Of all the links mailed for one password one at most is accepted, unless
   two confirmations overlapped or a PATCH put the password back:
   PasswordResetConfirmView checks the token against the row it reads. *)
THEOREM ResetOnce == AccountsSpec => []OneResetPerPassword
<1>1. AccountsInv => OneResetPerPassword
  BY DEF AccountsInv, Excused, ResetsAreOver, OneResetPerPassword
<1> QED BY <1>1, AccountsInvariance, PTL

-----------------------------------------------------------------------------
(***************************************************************************)
(* The composition.  A behaviour works one component and leaves the others *)
(* as they were, so all that is proved of a component holds of it.         *)
(***************************************************************************)
LEMMA PlatformSteps ==
  [PlatformNext]_platformVars =>
    [LibraryNext]_libVars /\ [AuthoringNext]_authoringVars /\ [AccountsNext]_accountVars
BY DEF PlatformNext, platformVars

(* The composition implements every component. *)
THEOREM PlatformComponents == PlatformSpec => LibrarySpec /\ AuthoringSpec /\ AccountsSpec
<1>1. PlatformInit => LibraryInit /\ AuthoringInit /\ AccountsInit
  BY DEF PlatformInit
<1> QED BY <1>1, PlatformSteps, PTL DEF PlatformSpec, LibrarySpec, AuthoringSpec, AccountsSpec

(* Every variable of the composition keeps its type. *)
THEOREM PlatformTypeCorrect == PlatformSpec => []PlatformTypeOK
<1> DEFINE Focus == focus \in {"library", "authoring", "accounts"}
<1>1. PlatformInit => Focus
  BY DEF PlatformInit
<1>2. Focus /\ [PlatformNext]_platformVars => Focus'
  BY DEF PlatformNext, platformVars
<1>3. LibraryTypeOK /\ AuthoringTypeOK /\ AccountsTypeOK /\ Focus => PlatformTypeOK
  BY DEF PlatformTypeOK
<1> HIDE DEF Focus
<1> QED BY <1>1, <1>2, <1>3, PlatformComponents, LibraryTypeCorrect, AuthoringTypeCorrect,
           AccountsTypeCorrect, PTL DEF PlatformSpec
=============================================================================
