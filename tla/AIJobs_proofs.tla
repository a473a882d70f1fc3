---------------------------- MODULE AIJobs_proofs ----------------------------
(***************************************************************************)
(* What AIJobs guarantees for every number of jobs, requests, callers,     *)
(* months and plans.  The inductive invariant is IInv: CreditsFollowOutcome *)
(* alone is not inductive, because it says nothing of two jobs that share  *)
(* a key, or of a ledger entry left under the key of a job still to come.  *)
(* LedgerInv, over IInv, is what the counters of the usage rows need.      *)
(***************************************************************************)
EXTENDS AIJobs, TLAPS, FiniteSetTheorems

(* The unique constraint: existing jobs have different keys. *)
KeysDistinct ==
  \A i, j \in Job : Exists(i) /\ Exists(j) /\ Key(i) = Key(j) => i = j

(* Every ledger entry was written for a job that exists. *)
LedgerOwned == \A e \in ledger : \E j \in Job : Exists(j) /\ e.key = Key(j)

(* A row that does not exist has not been charged, and the AI service has not
   answered for a job that is still queued. *)
RowsFresh ==
  \A j \in Job :
    /\ ~Exists(j) => ~committed[j]
    /\ status[j] \in {"none", "queued"} => externalId[j] = NoExternalId

LedgerFinite == IsFiniteSet(ledger)

TypeInv == TypeOK /\ LedgerFinite

IInv ==
  /\ TypeInv
  /\ RowsFresh
  /\ KeysDistinct
  /\ LedgerOwned
  /\ CreditsFollowOutcome
  /\ OutcomeShownOnce

-----------------------------------------------------------------------------
(* Keys are operation keys, and a job that exists has one. *)
LEMMA KeyType ==
  ASSUME NEW j \in Job, NEW r \in Request, NEW f \in BOOLEAN
  PROVE  KeyFor(j, r, f) \in OperationKey
BY JobAssumption DEF KeyFor

(* max(n - 1, 0) stays a natural number. *)
LEMMA LessOneType == ASSUME NEW n \in Nat PROVE LessOne(n) \in Nat
BY DEF LessOne

(* Replaying a finite ledger gives natural numbers. *)
LEMMA NetType ==
  ASSUME NEW A, NEW B, IsFiniteSet(A), IsFiniteSet(B)
  PROVE  Net(A, B) \in Nat
<1>1. Cardinality(A) \in Nat /\ Cardinality(B) \in Nat
  BY FS_CardinalityType
<1> QED BY <1>1 DEF Net

LEMMA ReplayType ==
  ASSUME LedgerFinite, NEW m, NEW c
  PROVE  ReplayedRequests(m) \in Nat /\ ReplayedCharacter(m, c) \in Nat
<1>1. \A op : EntriesOf(op, m) \subseteq ledger /\ EntriesOfCharacter(op, m, c) \subseteq ledger
  BY DEF EntriesOf, EntriesOfCharacter
<1>2. \A op : IsFiniteSet(EntriesOf(op, m)) /\ IsFiniteSet(EntriesOfCharacter(op, m, c))
  BY <1>1, FS_Subset DEF LedgerFinite
<1> QED BY <1>2, NetType DEF ReplayedRequests, ReplayedCharacter

-----------------------------------------------------------------------------
(* The three services of the allowance keep its types. *)
LEMMA ReserveType ==
  ASSUME UsageTypeOK, LedgerFinite, NEW k \in OperationKey, NEW c \in Character,
         ReserveCharacterRequest(k, c)
  PROVE  UsageTypeOK' /\ LedgerFinite'
<1>1. CASE Recorded("reserve", k)
  BY <1>1 DEF ReserveCharacterRequest, UsageTypeOK, LedgerFinite
<1>2. CASE ~Recorded("reserve", k)
  <2>1. EntryNow("reserve", k, c) \in LedgerEntry
    BY DEF EntryNow, LedgerEntry, Operation, UsageTypeOK
  <2>2. LedgerFinite'
    BY <1>2, FS_AddElement DEF ReserveCharacterRequest, LedgerFinite
  <2>3. requestsUsed' \in [Month -> Nat]
    BY <1>2 DEF ReserveCharacterRequest, UsageTypeOK
  <2>4. characterUsed' \in [Month -> [Character -> Nat]]
    BY <1>2 DEF ReserveCharacterRequest, UsageTypeOK
  <2> QED BY <1>2, <2>1, <2>2, <2>3, <2>4 DEF ReserveCharacterRequest, UsageTypeOK
<1> QED BY <1>1, <1>2

LEMMA CommitType ==
  ASSUME UsageTypeOK, LedgerFinite, NEW k \in OperationKey, NEW c \in Character,
         CommitCharacterRequest(k, c)
  PROVE  UsageTypeOK' /\ LedgerFinite'
<1>1. EntryNow("commit", k, c) \in LedgerEntry
  BY DEF EntryNow, LedgerEntry, Operation, UsageTypeOK
<1>2. LedgerFinite'
  BY FS_AddElement DEF CommitCharacterRequest, LedgerFinite
<1>3. UsageTypeOK'
  BY <1>1 DEF CommitCharacterRequest, UsageTypeOK
<1> QED BY <1>2, <1>3

LEMMA RefundType ==
  ASSUME UsageTypeOK, LedgerFinite, NEW k \in OperationKey, NEW c \in Character,
         RefundCharacterRequest(k, c)
  PROVE  UsageTypeOK' /\ LedgerFinite'
<1>1. CASE Recorded("refund", k)
  BY <1>1 DEF RefundCharacterRequest, UsageTypeOK, LedgerFinite
<1>2. CASE ~Recorded("refund", k)
  <2>1. EntryNow("refund", k, c) \in LedgerEntry
    BY DEF EntryNow, LedgerEntry, Operation, UsageTypeOK
  <2>2. LedgerFinite'
    BY <1>2, FS_AddElement DEF RefundCharacterRequest, LedgerFinite
  <2>3. requestsUsed' \in [Month -> Nat]
    BY <1>2, LessOneType DEF RefundCharacterRequest, UsageTypeOK
  <2>4. characterUsed' \in [Month -> [Character -> Nat]]
    BY <1>2, LessOneType DEF RefundCharacterRequest, UsageTypeOK
  <2> QED BY <1>2, <2>1, <2>2, <2>3, <2>4 DEF RefundCharacterRequest, UsageTypeOK
<1> QED BY <1>1, <1>2

-----------------------------------------------------------------------------
(* A job's key and character are in range. *)
LEMMA JobKeyType ==
  ASSUME TypeOK, NEW j \in Job
  PROVE  Key(j) \in OperationKey /\ CharacterFor(j) \in Character
BY KeyType, JobAssumption DEF TypeOK, Key, CharacterFor

(* Giving a reservation back keeps the types. *)
LEMMA GiveBackType ==
  ASSUME TypeInv, NEW j \in Job, GiveReservationBack(j)
  PROVE  UsageTypeOK' /\ LedgerFinite' /\ reserved' \in [Job -> BOOLEAN]
<1>1. CASE reserved[j] /\ ~committed[j]
  BY <1>1, JobKeyType, RefundType DEF GiveReservationBack, TypeInv, TypeOK
<1>2. CASE ~(reserved[j] /\ ~committed[j])
  BY <1>2 DEF GiveReservationBack, TypeInv, TypeOK, usageVars, UsageTypeOK, LedgerFinite
<1> QED BY <1>1, <1>2

(* The initial state has the declared types. *)
LEMMA TypeInit == Init => TypeInv
<1> SUFFICES ASSUME Init PROVE TypeInv
  OBVIOUS
<1>1. UsageTypeOK
  BY LedgerAssumption DEF Init, UsageInit, UsageTypeOK, Month
<1>2. LedgerFinite
  BY FS_EmptySet DEF Init, UsageInit, LedgerFinite
<1>3. (CHOOSE r \in Request : TRUE) \in Request
  BY JobAssumption
<1>4. TypeOK
  BY <1>1, <1>3 DEF Init, TypeOK, Status
<1> QED BY <1>2, <1>4 DEF TypeInv

(* The types are kept by every step. *)
LEMMA TypeStep == TypeInv /\ [Next]_vars => TypeInv'
<1> SUFFICES ASSUME TypeInv, [Next]_vars PROVE TypeInv'
  OBVIOUS
<1> USE DEF TypeInv
<1>1. ASSUME NEW p \in Caller, NEW r \in Request, NEW f \in ForceFlags, BeginCreate(p, r, f)
      PROVE  TypeInv'
  <2>1. [caller |-> p, request |-> r, forced |-> f] \in Creation
    BY JobAssumption DEF Creation
  <2> QED BY <1>1, <2>1 DEF BeginCreate, TypeOK, UsageTypeOK, LedgerFinite, usageVars, jobVars
<1>2. ASSUME NEW w \in creating, AbortCreate(w) PROVE TypeInv'
  BY <1>2 DEF AbortCreate, TypeOK, UsageTypeOK, LedgerFinite, usageVars, jobVars
<1>3. ASSUME NEW w \in creating, NEW j \in Job, FinishCreate(w, j) PROVE TypeInv'
  <2>1. w.request \in Request /\ w.forced \in BOOLEAN
    BY DEF TypeOK, Creation
  <2>2. KeyFor(j, w.request, w.forced) \in OperationKey /\ CharacterOf[w.request] \in Character
    BY <2>1, KeyType, JobAssumption
  <2>3. UsageTypeOK' /\ LedgerFinite'
    BY <1>3, <2>2, ReserveType DEF FinishCreate, TypeOK
  <2> QED BY <1>3, <2>1, <2>3 DEF FinishCreate, TypeOK, Status
<1>4. ASSUME NEW j \in Job, NEW next \in Progress, NEW x \in ExternalId \cup {NoExternalId},
             UpdateJobProgress(j, next, x)
      PROVE  TypeInv'
  <2>1. UsageTypeOK' /\ LedgerFinite'
    BY <1>4 DEF UpdateJobProgress, TypeOK, UsageTypeOK, LedgerFinite, usageVars
  <2> QED BY <1>4, <2>1 DEF UpdateJobProgress, TypeOK, Status
<1>5. ASSUME NEW j \in Job, FailJob(j) PROVE TypeInv'
  <2>1. UsageTypeOK' /\ LedgerFinite' /\ reserved' \in [Job -> BOOLEAN]
    BY <1>5, GiveBackType DEF FailJob
  <2>2. notified' \subseteq Job \X {"completed", "failed"}
    BY <1>5 DEF FailJob, TypeOK
  <2> QED BY <1>5, <2>1, <2>2 DEF FailJob, TypeOK, Status, Terminal
<1>6. ASSUME NEW j \in Job, CompleteJob(j) PROVE TypeInv'
  <2>1. UsageTypeOK' /\ LedgerFinite'
    <3>1. CASE reserved[j] /\ ~committed[j]
      BY <1>6, <3>1, JobKeyType, CommitType DEF CompleteJob, TypeOK
    <3>2. CASE ~(reserved[j] /\ ~committed[j])
      BY <1>6, <3>2 DEF CompleteJob, TypeOK, usageVars, UsageTypeOK, LedgerFinite
    <3> QED BY <3>1, <3>2
  <2>2. /\ status' \in [Job -> Status]
        /\ committed' \in [Job -> BOOLEAN]
        /\ results' \in [Job -> Nat]
    BY <1>6 DEF CompleteJob, TypeOK, Status, Terminal
  <2>3. interaction' \in [Job -> {"none", "created", "completed"}]
    BY <1>6 DEF CompleteJob, TypeOK
  <2>4. notified' \subseteq Job \X {"completed", "failed"}
    BY <1>6 DEF CompleteJob, TypeOK
  <2>5. UNCHANGED <<request, forced, externalId, reserved, dispatchSent,
                    cancelSent, creating>>
    BY <1>6 DEF CompleteJob
  <2> QED BY <2>1, <2>2, <2>3, <2>4, <2>5 DEF TypeOK
<1>7. ASSUME NEW j \in Job, CancelJob(j) PROVE TypeInv'
  <2>1. UsageTypeOK' /\ LedgerFinite' /\ reserved' \in [Job -> BOOLEAN]
    BY <1>7, GiveBackType DEF CancelJob
  <2> QED BY <1>7, <2>1 DEF CancelJob, TypeOK, Status, Terminal
<1>8. ASSUME AllowanceStep PROVE TypeInv'
  <2>1. ASSUME NEW p \in Plan, ChangePlan(p) PROVE UsageTypeOK' /\ LedgerFinite'
    BY <2>1 DEF ChangePlan, TypeOK, UsageTypeOK, LedgerFinite
  <2>2. ASSUME NEW m \in Month, RebuildUsageProjection(m) PROVE UsageTypeOK' /\ LedgerFinite'
    <3>1. ReplayedRequests(m) \in Nat /\ \A c \in Character : ReplayedCharacter(m, c) \in Nat
      BY ReplayType
    <3> QED BY <2>2, <3>1 DEF RebuildUsageProjection, TypeOK, UsageTypeOK, LedgerFinite
  <2>3. ASSUME NewMonth PROVE UsageTypeOK' /\ LedgerFinite'
    BY <2>3, LedgerAssumption DEF NewMonth, TypeOK, UsageTypeOK, LedgerFinite, Month
  <2>4. UsageTypeOK' /\ LedgerFinite'
    BY <1>8, <2>1, <2>2, <2>3 DEF AllowanceStep
  <2> QED BY <1>8, <2>4 DEF AllowanceStep, TypeOK, jobVars
<1>9. CASE UNCHANGED vars
  BY <1>9 DEF vars, usageVars, jobVars, TypeOK, UsageTypeOK, LedgerFinite
<1> QED BY <1>1, <1>2, <1>3, <1>4, <1>5, <1>6, <1>7, <1>8, <1>9
        DEF Next, CreateStep, ServiceStep

(* Every reachable state has the declared types. *)
THEOREM TypeCorrect == Spec => []TypeOK
<1>1. Init => TypeInv
  BY TypeInit
<1>2. TypeInv /\ [Next]_vars => TypeInv'
  BY TypeStep
<1>3. TypeInv => TypeOK
  BY DEF TypeInv
<1> QED BY <1>1, <1>2, <1>3, PTL DEF Spec

-----------------------------------------------------------------------------
(* Looking a key up in the ledger. *)
LEMMA RecordedOperations ==
  ASSUME NEW op, NEW k
  PROVE  Recorded(op, k) <=> op \in Operations(k)
BY DEF Recorded, Operations

(* A new entry shows under its own key and under no other. *)
LEMMA OperationsGrow ==
  ASSUME NEW op, NEW k, NEW c, ledger' = ledger \cup {EntryNow(op, k, c)}
  PROVE  /\ Operations(k)' = Operations(k) \cup {op}
         /\ \A k2 : k2 # k => Operations(k2)' = Operations(k2)
<1>1. EntryNow(op, k, c).key = k /\ EntryNow(op, k, c).operation = op
  BY DEF EntryNow
<1> QED BY <1>1 DEF Operations

(* The keys stay as they are while no job is created. *)
NoNewJob ==
  /\ UNCHANGED <<request, forced>>
  /\ \A i \in Job : Exists(i)' <=> Exists(i)

(* An entry written for a job that exists changes what the ledger tells of
   that job alone. *)
LEMMA EntryForJob ==
  ASSUME KeysDistinct, LedgerOwned, NoNewJob,
         NEW j \in Job, Exists(j), NEW op, NEW c,
         ledger' = ledger \cup {EntryNow(op, Key(j), c)}
  PROVE  /\ KeysDistinct'
         /\ LedgerOwned'
         /\ Operations(Key(j))' = Operations(Key(j)) \cup {op}
         /\ \A i \in Job \ {j} :
              Exists(i) => Operations(Key(i))' = Operations(Key(i))
<1>1. \A i : Key(i)' = Key(i)
  BY DEF NoNewJob, Key, KeyFor
<1>2. EntryNow(op, Key(j), c).key = Key(j)
  BY DEF EntryNow
<1>3. KeysDistinct'
  BY <1>1 DEF KeysDistinct, NoNewJob
<1>4. LedgerOwned'
  BY <1>1, <1>2 DEF LedgerOwned, NoNewJob
<1>5. Operations(Key(j))' = Operations(Key(j)) \cup {op}
  <2>1. PICK k : k = Key(j)
    OBVIOUS
  <2>2. Operations(k)' = Operations(k) \cup {op}
    BY <2>1, OperationsGrow
  <2> QED BY <1>1, <2>1, <2>2 DEF Operations
<1>6. ASSUME NEW i \in Job \ {j}, Exists(i)
      PROVE  Operations(Key(i))' = Operations(Key(i))
  <2>1. Key(i) # Key(j)
    BY <1>6 DEF KeysDistinct
  <2> QED BY <1>1, <1>2, <2>1 DEF Operations
<1> QED BY <1>3, <1>4, <1>5, <1>6

(* A step that writes no entry and creates no job. *)
LEMMA LedgerUntouched ==
  ASSUME KeysDistinct, LedgerOwned, NoNewJob, UNCHANGED ledger
  PROVE  /\ KeysDistinct'
         /\ LedgerOwned'
         /\ \A i \in Job : Operations(Key(i))' = Operations(Key(i))
<1>1. \A i : Key(i)' = Key(i)
  BY DEF NoNewJob, Key, KeyFor
<1> QED BY <1>1 DEF KeysDistinct, LedgerOwned, NoNewJob, Operations

(* A created job is the first with its key, so it holds one reservation and
   nothing is known of it before. *)
LEMMA EntryForNewJob ==
  ASSUME IInv, NEW w \in creating, NEW j \in Job, FinishCreate(w, j)
  PROVE  /\ KeysDistinct'
         /\ LedgerOwned'
         /\ Operations(Key(j))' = {"reserve"}
         /\ \A i \in Job \ {j} : Key(i)' = Key(i)
         /\ \A i \in Job \ {j} :
              Exists(i) => /\ Operations(Key(i))' = Operations(Key(i))
                           /\ Key(i) # Key(j)'
<1> DEFINE k == KeyFor(j, w.request, w.forced)
           c == CharacterOf[w.request]
<1>1. /\ ~Exists(j) /\ ~KeyTaken(k)
      /\ status' = [status EXCEPT ![j] = "queued"]
      /\ request' = [request EXCEPT ![j] = w.request]
      /\ forced' = [forced EXCEPT ![j] = w.forced]
      /\ ReserveCharacterRequest(k, c)
  BY DEF FinishCreate
<1>2. Key(j)' = k
  BY <1>1 DEF Key, KeyFor, IInv, TypeInv, TypeOK
<1>3. \A i \in Job \ {j} : Key(i)' = Key(i) /\ (Exists(i)' <=> Exists(i))
  BY <1>1 DEF Key, KeyFor, Exists, IInv, TypeInv, TypeOK
<1>4. Exists(j)'
  BY <1>1 DEF Exists, IInv, TypeInv, TypeOK
<1>5. \A e \in ledger : e.key # k
  BY <1>1 DEF KeyTaken, IInv, LedgerOwned
<1>6. ~Recorded("reserve", k) /\ Operations(k) = {}
  BY <1>5 DEF Recorded, Operations
<1>7. ledger' = ledger \cup {EntryNow("reserve", k, c)}
  BY <1>1, <1>6 DEF ReserveCharacterRequest
<1>8. \A i \in Job : Exists(i) => Key(i) # k
  BY <1>1 DEF KeyTaken
<1> HIDE DEF k, c
<1>9. KeysDistinct'
  BY <1>2, <1>3, <1>4, <1>8 DEF KeysDistinct, IInv
<1>10. LedgerOwned'
  <2>1. EntryNow("reserve", k, c).key = k
    BY DEF EntryNow
  <2>2. \A e \in ledger : \E i \in Job \ {j} : Exists(i) /\ e.key = Key(i)
    BY <1>1 DEF IInv, LedgerOwned
  <2> QED BY <1>2, <1>3, <1>4, <1>7, <2>1, <2>2 DEF LedgerOwned
<1>11. Operations(k)' = {"reserve"} /\ \A k2 : k2 # k => Operations(k2)' = Operations(k2)
  BY <1>6, <1>7, OperationsGrow
<1>12. Operations(Key(j))' = {"reserve"}
  BY <1>2, <1>11 DEF Operations
<1>13. \A i \in Job \ {j} : Exists(i) => Operations(Key(i))' = Operations(Key(i))
  BY <1>3, <1>8, <1>11 DEF Operations
<1> QED BY <1>2, <1>3, <1>8, <1>9, <1>10, <1>12, <1>13

-----------------------------------------------------------------------------
(* A step that leaves the row and the entries of every other job alone needs
   a look at one job only. *)
SameRow(i) ==
  /\ status'[i] = status[i]
  /\ reserved'[i] = reserved[i]
  /\ committed'[i] = committed[i]
  /\ Exists(i) => Operations(Key(i))' = Operations(Key(i))

LEMMA OneJobSettles ==
  ASSUME CreditsFollowOutcome, NEW j \in Job, SettledAs(j)',
         \A i \in Job \ {j} : SameRow(i)
  PROVE  CreditsFollowOutcome'
<1>1. ASSUME NEW i \in Job \ {j}, Exists(i)' PROVE SettledAs(i)'
  BY <1>1 DEF SameRow, CreditsFollowOutcome, SettledAs, Exists, Live
<1> QED BY <1>1 DEF CreditsFollowOutcome

(* A job in flight has never been refunded nor charged. *)
LEMMA LiveHoldsReservation ==
  ASSUME CreditsFollowOutcome, NEW j \in Job, Live(j)
  PROVE  /\ Exists(j)
         /\ Operations(Key(j)) = {"reserve"}
         /\ reserved[j] /\ ~committed[j]
         /\ ~Recorded("refund", Key(j))
         /\ ~Recorded("commit", Key(j))
BY DEF CreditsFollowOutcome, SettledAs, Live, Recorded, Operations

(* fail_job and cancel_job give back the reservation of a job in flight. *)
LEMMA GiveBackEffect ==
  ASSUME IInv, NEW j \in Job, Live(j), GiveReservationBack(j)
  PROVE  /\ ledger' = ledger \cup {EntryNow("refund", Key(j), CharacterFor(j))}
         /\ reserved' = [reserved EXCEPT ![j] = FALSE]
BY LiveHoldsReservation DEF IInv, GiveReservationBack, RefundCharacterRequest

(* complete_job charges a job in flight. *)
LEMMA ChargeEffect ==
  ASSUME IInv, NEW j \in Job, CompleteJob(j)
  PROVE  ledger' = ledger \cup {EntryNow("commit", Key(j), CharacterFor(j))}
BY LiveHoldsReservation DEF IInv, CompleteJob, CommitCharacterRequest

(* Closing a job without a result: what fail_job and cancel_job share. *)
LEMMA CloseSettles ==
  ASSUME IInv, NEW j \in Job, Live(j), GiveReservationBack(j),
         NEW s \in {"failed", "canceled"}, status' = [status EXCEPT ![j] = s],
         UNCHANGED <<request, forced, committed>>
  PROVE  KeysDistinct' /\ LedgerOwned' /\ CreditsFollowOutcome'
<1> USE DEF IInv, TypeInv, TypeOK
<1>1. /\ ledger' = ledger \cup {EntryNow("refund", Key(j), CharacterFor(j))}
      /\ reserved' = [reserved EXCEPT ![j] = FALSE]
  BY GiveBackEffect
<1>2. Exists(j) /\ Operations(Key(j)) = {"reserve"} /\ ~committed[j]
  BY LiveHoldsReservation
<1>3. NoNewJob
  BY <1>2 DEF NoNewJob, Exists
<1>4. /\ KeysDistinct' /\ LedgerOwned'
      /\ Operations(Key(j))' = Operations(Key(j)) \cup {"refund"}
      /\ \A i \in Job \ {j} : Exists(i) => Operations(Key(i))' = Operations(Key(i))
  BY <1>1, <1>2, <1>3, EntryForJob
<1>5. status'[j] = s /\ ~reserved'[j] /\ ~committed'[j]
  BY <1>1, <1>2
<1>6. Operations(Key(j))' = {"reserve", "refund"}
  BY <1>2, <1>4
<1>7. SettledAs(j)'
  BY <1>5, <1>6 DEF SettledAs, Live, Terminal
<1>8. \A i \in Job \ {j} : SameRow(i)
  BY <1>1, <1>4 DEF SameRow
<1> QED BY <1>4, <1>7, <1>8, OneJobSettles

LEMMA CompleteSettles ==
  ASSUME IInv, NEW j \in Job, CompleteJob(j)
  PROVE  KeysDistinct' /\ LedgerOwned' /\ CreditsFollowOutcome'
<1> USE DEF IInv, TypeInv, TypeOK
<1>1. /\ status' = [status EXCEPT ![j] = "completed"]
      /\ committed' = [committed EXCEPT ![j] = TRUE]
      /\ UNCHANGED <<request, forced, reserved>>
      /\ Live(j)
  BY DEF CompleteJob
<1>2. Exists(j) /\ Operations(Key(j)) = {"reserve"}
  BY <1>1, LiveHoldsReservation
<1>3. NoNewJob
  BY <1>1, <1>2 DEF NoNewJob, Exists
<1>4. /\ KeysDistinct' /\ LedgerOwned'
      /\ Operations(Key(j))' = Operations(Key(j)) \cup {"commit"}
      /\ \A i \in Job \ {j} : Exists(i) => Operations(Key(i))' = Operations(Key(i))
  BY <1>2, <1>3, ChargeEffect, EntryForJob
<1>5. status'[j] = "completed" /\ committed'[j]
  BY <1>1
<1>6. Operations(Key(j))' = {"reserve", "commit"}
  BY <1>2, <1>4
<1>7. SettledAs(j)'
  BY <1>5, <1>6 DEF SettledAs, Live, Terminal
<1>8. \A i \in Job \ {j} : SameRow(i)
  BY <1>1, <1>4 DEF SameRow
<1> QED BY <1>4, <1>7, <1>8, OneJobSettles

-----------------------------------------------------------------------------
(* The credit part of the invariant, step by step. *)
CreditInv == KeysDistinct /\ LedgerOwned /\ CreditsFollowOutcome

LEMMA CreateCredits ==
  ASSUME IInv, NEW w \in creating, NEW j \in Job, FinishCreate(w, j)
  PROVE  CreditInv'
<1> USE DEF IInv, TypeInv, TypeOK
<1>1. /\ KeysDistinct' /\ LedgerOwned'
      /\ Operations(Key(j))' = {"reserve"}
      /\ \A i \in Job \ {j} : Exists(i) => Operations(Key(i))' = Operations(Key(i))
  BY EntryForNewJob
<1>2. /\ ~Exists(j)
      /\ status' = [status EXCEPT ![j] = "queued"]
      /\ reserved' = [reserved EXCEPT ![j] = TRUE]
      /\ committed' = committed
  BY DEF FinishCreate
<1>3. \A i \in Job \ {j} : SameRow(i)
  BY <1>1, <1>2 DEF SameRow
<1>4. ~committed[j]
  BY <1>2 DEF RowsFresh
<1>5. SettledAs(j)'
  BY <1>1, <1>2, <1>4 DEF SettledAs, Live, Terminal, Exists
<1> QED BY <1>1, <1>3, <1>5, OneJobSettles DEF CreditInv

(* A step that touches no row, key or entry: most of the rest. *)
LEMMA SameRowsCredits ==
  ASSUME IInv, UNCHANGED <<status, request, forced, reserved, committed, ledger>>
  PROVE  CreditInv'
<1>1. NoNewJob
  BY DEF NoNewJob, Exists
<1>2. /\ KeysDistinct' /\ LedgerOwned'
      /\ \A i \in Job : Operations(Key(i))' = Operations(Key(i))
  BY <1>1, LedgerUntouched DEF IInv
<1>3. CreditsFollowOutcome'
  BY <1>2 DEF IInv, CreditsFollowOutcome, SettledAs, Exists, Live
<1> QED BY <1>2, <1>3 DEF CreditInv

LEMMA ProgressCredits ==
  ASSUME IInv, NEW j \in Job, NEW next \in Progress,
         NEW x \in ExternalId \cup {NoExternalId}, UpdateJobProgress(j, next, x)
  PROVE  CreditInv'
<1> USE DEF IInv, TypeInv, TypeOK
<1>1. /\ Live(j)
      /\ status' = [status EXCEPT ![j] = next]
      /\ UNCHANGED <<request, forced, reserved, committed, ledger>>
  BY DEF UpdateJobProgress, usageVars
<1>2. NoNewJob
  BY <1>1 DEF NoNewJob, Exists, Live, Progress
<1>3. /\ KeysDistinct' /\ LedgerOwned'
      /\ \A i \in Job : Operations(Key(i))' = Operations(Key(i))
  BY <1>1, <1>2, LedgerUntouched
<1>4. Operations(Key(j)) = {"reserve"} /\ reserved[j] /\ ~committed[j]
  BY <1>1, LiveHoldsReservation
<1>5. SettledAs(j)'
  BY <1>1, <1>3, <1>4 DEF SettledAs, Live, Terminal, Progress
<1>6. \A i \in Job \ {j} : SameRow(i)
  BY <1>1, <1>3 DEF SameRow
<1> QED BY <1>3, <1>5, <1>6, OneJobSettles DEF CreditInv

LEMMA CreditStep == IInv /\ [Next]_vars => CreditInv'
<1> SUFFICES ASSUME IInv, [Next]_vars PROVE CreditInv'
  OBVIOUS
<1>1. ASSUME NEW p \in Caller, NEW r \in Request, NEW f \in ForceFlags, BeginCreate(p, r, f)
      PROVE  CreditInv'
  BY <1>1, SameRowsCredits DEF BeginCreate, usageVars, jobVars
<1>2. ASSUME NEW w \in creating, AbortCreate(w) PROVE CreditInv'
  BY <1>2, SameRowsCredits DEF AbortCreate, usageVars, jobVars
<1>3. ASSUME NEW w \in creating, NEW j \in Job, FinishCreate(w, j) PROVE CreditInv'
  BY <1>3, CreateCredits
<1>4. ASSUME NEW j \in Job, NEW next \in Progress, NEW x \in ExternalId \cup {NoExternalId},
             UpdateJobProgress(j, next, x)
      PROVE  CreditInv'
  BY <1>4, ProgressCredits
<1>5. ASSUME NEW j \in Job, FailJob(j) PROVE CreditInv'
  BY <1>5, CloseSettles DEF FailJob, CreditInv
<1>6. ASSUME NEW j \in Job, CompleteJob(j) PROVE CreditInv'
  BY <1>6, CompleteSettles DEF CreditInv
<1>7. ASSUME NEW j \in Job, CancelJob(j) PROVE CreditInv'
  BY <1>7, CloseSettles DEF CancelJob, CreditInv
<1>8. ASSUME AllowanceStep PROVE CreditInv'
  BY <1>8, SameRowsCredits
     DEF AllowanceStep, ChangePlan, RebuildUsageProjection, NewMonth, jobVars
<1>9. CASE UNCHANGED vars
  BY <1>9, SameRowsCredits DEF vars, usageVars, jobVars
<1> QED BY <1>1, <1>2, <1>3, <1>4, <1>5, <1>6, <1>7, <1>8, <1>9
        DEF Next, CreateStep, ServiceStep

-----------------------------------------------------------------------------
(* The rest of the invariant: what the student is shown, and fresh rows. *)
ShownInv == RowsFresh /\ OutcomeShownOnce

LEMMA ShownStep == IInv /\ [Next]_vars => ShownInv'
<1> SUFFICES ASSUME IInv, [Next]_vars PROVE ShownInv'
  OBVIOUS
<1> USE DEF IInv, TypeInv, TypeOK
<1>1. ASSUME NEW j \in Job, NEW w \in creating, FinishCreate(w, j) PROVE ShownInv'
  <2>1. RowsFresh'
    BY <1>1 DEF FinishCreate, RowsFresh, Exists
  <2>2. OutcomeShown(j)'
    BY <1>1 DEF FinishCreate, OutcomeShownOnce, OutcomeShown, Exists
  <2>3. \A i \in Job \ {j} : OutcomeShown(i)'
    BY <1>1 DEF FinishCreate, OutcomeShownOnce, OutcomeShown
  <2> QED BY <2>1, <2>2, <2>3 DEF ShownInv, OutcomeShownOnce
<1>2. ASSUME NEW j \in Job, NEW next \in Progress, NEW x \in ExternalId \cup {NoExternalId},
             UpdateJobProgress(j, next, x)
      PROVE  ShownInv'
  <2>1. RowsFresh'
    BY <1>2 DEF UpdateJobProgress, RowsFresh, Exists, Progress
  <2>2. OutcomeShown(j)'
    BY <1>2 DEF UpdateJobProgress, OutcomeShownOnce, OutcomeShown, Live, Terminal, Progress
  <2>3. \A i \in Job \ {j} : OutcomeShown(i)'
    BY <1>2 DEF UpdateJobProgress, OutcomeShownOnce, OutcomeShown
  <2> QED BY <2>1, <2>2, <2>3 DEF ShownInv, OutcomeShownOnce
<1>3. ASSUME NEW j \in Job, FailJob(j) PROVE ShownInv'
  <2>1. RowsFresh'
    BY <1>3 DEF FailJob, RowsFresh, Exists
  <2>2. OutcomeShown(j)'
    BY <1>3 DEF FailJob, OutcomeShownOnce, OutcomeShown, Live, Terminal
  <2>3. \A i \in Job \ {j} : OutcomeShown(i)'
    BY <1>3 DEF FailJob, OutcomeShownOnce, OutcomeShown
  <2> QED BY <2>1, <2>2, <2>3 DEF ShownInv, OutcomeShownOnce
<1>4. ASSUME NEW j \in Job, CompleteJob(j) PROVE ShownInv'
  <2>1. RowsFresh'
    BY <1>4 DEF CompleteJob, RowsFresh, Exists
  <2>2. OutcomeShown(j)'
    BY <1>4 DEF CompleteJob, OutcomeShownOnce, OutcomeShown, Live, Terminal
  <2>3. \A i \in Job \ {j} : OutcomeShown(i)'
    BY <1>4 DEF CompleteJob, OutcomeShownOnce, OutcomeShown
  <2> QED BY <2>1, <2>2, <2>3 DEF ShownInv, OutcomeShownOnce
<1>5. ASSUME NEW j \in Job, CancelJob(j) PROVE ShownInv'
  <2>1. RowsFresh'
    BY <1>5 DEF CancelJob, RowsFresh, Exists
  <2>2. \A i \in Job : OutcomeShown(i)'
    BY <1>5 DEF CancelJob, OutcomeShownOnce, OutcomeShown, Live, Terminal
  <2> QED BY <2>1, <2>2 DEF ShownInv, OutcomeShownOnce
<1>6. ASSUME UNCHANGED jobVars PROVE ShownInv'
  BY <1>6 DEF jobVars, ShownInv, RowsFresh, Exists, OutcomeShownOnce, OutcomeShown
<1> QED BY <1>1, <1>2, <1>3, <1>4, <1>5, <1>6
        DEF Next, CreateStep, ServiceStep, AllowanceStep, BeginCreate, AbortCreate, vars

LEMMA IInvInit == Init => IInv
<1> SUFFICES ASSUME Init PROVE IInv
  OBVIOUS
<1>1. \A j \in Job : ~Exists(j)
  BY DEF Init, Exists
<1>2. RowsFresh /\ OutcomeShownOnce
  BY DEF Init, RowsFresh, OutcomeShownOnce, OutcomeShown
<1>3. ledger = {}
  BY DEF Init, UsageInit
<1> QED BY <1>1, <1>2, <1>3, TypeInit
        DEF IInv, KeysDistinct, LedgerOwned, CreditsFollowOutcome

LEMMA IInvStep == IInv /\ [Next]_vars => IInv'
BY TypeStep, CreditStep, ShownStep DEF IInv, CreditInv, ShownInv

LEMMA Inductive == Spec => []IInv
BY IInvInit, IInvStep, PTL DEF Spec

-----------------------------------------------------------------------------
(* The ledger and the flags on the row tell the same story as the status of
   every job: held, charged or given back, once (create_ai_job, complete_job,
   fail_job, cancel_job). *)
THEOREM CreditsCorrect == Spec => []CreditsFollowOutcome
<1>1. IInv => CreditsFollowOutcome
  BY DEF IInv
<1> QED BY <1>1, Inductive, PTL

(* One result and one notice per settled job, none before
   (complete_job, fail_job). *)
THEOREM OutcomeCorrect == Spec => []OutcomeShownOnce
<1>1. IInv => OutcomeShownOnce
  BY DEF IInv
<1> QED BY <1>1, Inductive, PTL

(* Concurrent requests for the same content leave one job (create_ai_job's
   unlocked read, decided by the unique constraint). *)
THEOREM RequestsNotDoubled == Spec => []OneJobPerRequest
<1>1. IInv => OneJobPerRequest
  <2> SUFFICES ASSUME IInv, NEW i \in Job, NEW j \in Job, Exists(i), Exists(j),
                      ~forced[i], ~forced[j], request[i] = request[j]
               PROVE  i = j
    BY DEF OneJobPerRequest
  <2>1. Key(i) = Key(j)
    BY DEF Key, KeyFor
  <2> QED BY <2>1 DEF IInv, KeysDistinct
<1> QED BY <1>1, Inductive, PTL

-----------------------------------------------------------------------------
(* The notices of a job change only when one is written for it. *)
LEMMA OtherNoticesKept ==
  ASSUME NEW i, NEW j, NEW kind, i # j, notified' = notified \cup {<<i, kind>>}
  PROVE  {n \in notified' : n[1] = j} = {n \in notified : n[1] = j}
OBVIOUS

(* The step of one live or new job freezes the settled others. *)
LEMMA SettledFrozenStep ==
  IInv /\ [Next]_vars =>
    \A j \in Job : status[j] \in Terminal => FrozenStep(j)
<1> SUFFICES ASSUME IInv, [Next]_vars, NEW j \in Job, status[j] \in Terminal
             PROVE  FrozenStep(j)
  OBVIOUS
<1> USE DEF IInv, TypeInv, TypeOK
<1>0. Exists(j) /\ ~Live(j)
  BY DEF Exists, Live, Terminal
<1>1. ASSUME NEW i \in Job, NEW w \in creating, FinishCreate(w, i) PROVE FrozenStep(j)
  <2> DEFINE k == KeyFor(i, w.request, w.forced)
             c == CharacterOf[w.request]
  <2>1. i # j /\ k # Key(j) /\ ReserveCharacterRequest(k, c)
    BY <1>0, <1>1 DEF FinishCreate, KeyTaken
  <2>2. ledger' = ledger \/ ledger' = ledger \cup {EntryNow("reserve", k, c)}
    BY <2>1 DEF ReserveCharacterRequest
  <2>3. {e \in ledger' : e.key = Key(j)} = {e \in ledger : e.key = Key(j)}
    <3>1. k # Key(j)
      BY <2>1
    <3> HIDE DEF k, c
    <3>2. EntryNow("reserve", k, c).key = k
      BY DEF EntryNow
    <3> QED BY <2>2, <3>1, <3>2
  <2> QED BY <1>1, <2>1, <2>3 DEF FinishCreate, FrozenStep
<1>2. ASSUME NEW i \in Job, NEW next \in Progress, NEW x \in ExternalId \cup {NoExternalId},
             UpdateJobProgress(i, next, x)
      PROVE  FrozenStep(j)
  <2>1. i # j
    BY <1>0, <1>2 DEF UpdateJobProgress
  <2> QED BY <1>2, <2>1 DEF UpdateJobProgress, FrozenStep, usageVars
<1>3. ASSUME NEW i \in Job, Live(i), NEW op, NEW c,
             ledger' = ledger \cup {EntryNow(op, Key(i), c)}
      PROVE  {e \in ledger' : e.key = Key(j)} = {e \in ledger : e.key = Key(j)}
  <2>1. Key(i) # Key(j)
    BY <1>0, <1>3 DEF KeysDistinct, Live
  <2>2. EntryNow(op, Key(i), c).key = Key(i)
    BY DEF EntryNow
  <2> QED BY <1>3, <2>1, <2>2
<1>4. ASSUME NEW i \in Job, FailJob(i) PROVE FrozenStep(j)
  <2>1. i # j /\ Live(i) /\ GiveReservationBack(i)
    BY <1>0, <1>4 DEF FailJob
  <2>2. {e \in ledger' : e.key = Key(j)} = {e \in ledger : e.key = Key(j)}
    BY <1>3, <2>1, GiveBackEffect
  <2>3. reserved'[j] = reserved[j]
    BY <2>1, GiveBackEffect
  <2>4. {n \in notified' : n[1] = j} = {n \in notified : n[1] = j}
    BY <1>4, <2>1, OtherNoticesKept DEF FailJob
  <2> QED BY <1>4, <2>1, <2>2, <2>3, <2>4 DEF FailJob, FrozenStep
<1>5. ASSUME NEW i \in Job, CompleteJob(i) PROVE FrozenStep(j)
  <2>1. i # j /\ Live(i)
    BY <1>0, <1>5 DEF CompleteJob
  <2>2. {e \in ledger' : e.key = Key(j)} = {e \in ledger : e.key = Key(j)}
    BY <1>3, <1>5, <2>1, ChargeEffect
  <2>3. {n \in notified' : n[1] = j} = {n \in notified : n[1] = j}
    BY <1>5, <2>1, OtherNoticesKept DEF CompleteJob
  <2> QED BY <1>5, <2>1, <2>2, <2>3 DEF CompleteJob, FrozenStep
<1>6. ASSUME NEW i \in Job, CancelJob(i) PROVE FrozenStep(j)
  <2>1. i # j /\ Live(i) /\ GiveReservationBack(i)
    BY <1>0, <1>6 DEF CancelJob
  <2>2. {e \in ledger' : e.key = Key(j)} = {e \in ledger : e.key = Key(j)}
    BY <1>3, <2>1, GiveBackEffect
  <2>3. reserved'[j] = reserved[j]
    BY <2>1, GiveBackEffect
  <2> QED BY <1>6, <2>1, <2>2, <2>3 DEF CancelJob, FrozenStep
<1>7. ASSUME UNCHANGED <<jobVars, ledger>> PROVE FrozenStep(j)
  BY <1>7 DEF jobVars, FrozenStep
<1>8. CASE AllowanceStep
  BY <1>7, <1>8 DEF AllowanceStep, ChangePlan, RebuildUsageProjection, NewMonth
<1> QED BY <1>1, <1>2, <1>4, <1>5, <1>6, <1>7, <1>8
        DEF Next, CreateStep, ServiceStep, BeginCreate, AbortCreate, vars, usageVars

(* A late report, failure or cancellation never reopens a settled job. *)
THEOREM SettledStaysSettled == Spec => SettledJobsFrozen
BY SettledFrozenStep, Inductive, PTL DEF Spec, SettledJobsFrozen

-----------------------------------------------------------------------------
(* The refinement.  Under the invariant the ledger's reading of a job is a
   function of its status, so a step moves both together. *)
CreditFor(o) ==
  CASE o = "absent"    -> "none"
    [] o = "pending"   -> "held"
    [] o = "delivered" -> "charged"
    [] OTHER           -> "released"

Outcomes == [j \in Job |-> OutcomeOf(j)]
Credits == [j \in Job |-> CreditOf(j)]

LEMMA CreditReading ==
  ASSUME IInv, NEW j \in Job
  PROVE  CreditOf(j) = CreditFor(OutcomeOf(j))
<1>1. \A op : Recorded(op, Key(j)) <=> op \in Operations(Key(j))
  BY DEF Recorded, Operations
<1>2. Exists(j) => SettledAs(j)
  BY DEF IInv, CreditsFollowOutcome
<1>3. CASE ~Exists(j)
  BY <1>3 DEF CreditOf, CreditFor, OutcomeOf, Exists
<1>4. CASE status[j] = "completed"
  BY <1>1, <1>2, <1>4 DEF CreditOf, CreditFor, OutcomeOf, Exists, SettledAs
<1>5. CASE status[j] \in {"failed", "canceled"}
  BY <1>1, <1>2, <1>5 DEF CreditOf, CreditFor, OutcomeOf, Exists, SettledAs
<1>6. CASE Live(j)
  BY <1>1, <1>2, <1>6 DEF CreditOf, CreditFor, OutcomeOf, Exists, SettledAs, Live, Terminal
<1> QED BY <1>3, <1>4, <1>5, <1>6 DEF Live, Terminal

LEMMA CreditReadings == IInv => \A j \in Job : CreditOf(j) = CreditFor(OutcomeOf(j))
BY CreditReading

LEMMA CreditReadingsNext ==
  IInv' => \A j \in Job : CreditOf(j)' = CreditFor(OutcomeOf(j)')
<1>1. (IInv => \A j \in Job : CreditOf(j) = CreditFor(OutcomeOf(j)))'
  BY CreditReadings, PTL
<1> QED BY <1>1 DEF CreditFor

LEMMA MoveTogether ==
  ASSUME IInv, IInv', NEW j \in Job, NEW from, NEW to,
         OutcomeOf(j) = from, OutcomeOf(j)' = to,
         \A i \in Job \ {j} : status'[i] = status[i]
  PROVE  Account!Move(j, from, to, CreditFor(from), CreditFor(to))
<1>1. \A i \in Job : CreditOf(i) = CreditFor(OutcomeOf(i))
  BY CreditReading
<1>2. \A i \in Job : CreditOf(i)' = CreditFor(OutcomeOf(i)')
  BY CreditReadingsNext
<1>3. \A i \in Job \ {j} : OutcomeOf(i)' = OutcomeOf(i)
  BY DEF OutcomeOf
<1>4. \A i \in Job \ {j} : CreditOf(i)' = CreditOf(i)
  BY <1>1, <1>2, <1>3
<1>5. Outcomes[j] = from /\ Outcomes' = [Outcomes EXCEPT ![j] = to]
  BY <1>3 DEF Outcomes
<1>6. Credits[j] = CreditFor(from) /\ Credits' = [Credits EXCEPT ![j] = CreditFor(to)]
  BY <1>1, <1>2, <1>4 DEF Credits
<1> QED BY <1>5, <1>6 DEF Account!Move, Outcomes, Credits

(* A step after which every job is read as before is a stutter. *)
LEMMA ReadAsBefore ==
  ASSUME IInv, IInv', \A i \in Job : OutcomeOf(i)' = OutcomeOf(i)
  PROVE  UNCHANGED Account!accountVars
<1>1. \A i \in Job : CreditOf(i)' = CreditOf(i)
  BY CreditReadings, CreditReadingsNext
<1>2. Outcomes' = Outcomes /\ Credits' = Credits
  BY <1>1 DEF Outcomes, Credits
<1> QED BY <1>2 DEF Account!accountVars, Outcomes, Credits

LEMMA RefinesInit == Init => Account!Init
<1> SUFFICES ASSUME Init PROVE Account!Init
  OBVIOUS
<1>1. \A j \in Job : OutcomeOf(j) = "absent" /\ CreditOf(j) = "none"
  BY DEF Init, OutcomeOf, CreditOf, Exists
<1> QED BY <1>1 DEF Account!Init

LEMMA RefinesStep ==
  IInv /\ IInv' /\ [Next]_vars => [Account!Next]_(Account!accountVars)
<1> SUFFICES ASSUME IInv, IInv', [Next]_vars
             PROVE  Account!Next \/ UNCHANGED Account!accountVars
  OBVIOUS
<1> USE DEF IInv, TypeInv, TypeOK
<1>1. ASSUME NEW w \in creating, NEW j \in Job, FinishCreate(w, j) PROVE Account!Accept(j)
  <2>1. status[j] = "none" /\ status' = [status EXCEPT ![j] = "queued"]
    BY <1>1 DEF FinishCreate, Exists
  <2>2. OutcomeOf(j) = "absent" /\ OutcomeOf(j)' = "pending"
    BY <2>1 DEF OutcomeOf
  <2>3. Account!Move(j, "absent", "pending", CreditFor("absent"), CreditFor("pending"))
    BY <2>1, <2>2, MoveTogether
  <2> QED BY <2>3 DEF Account!Accept, CreditFor
<1>2. ASSUME NEW j \in Job, Live(j), NEW s \in {"failed", "canceled"},
             status' = [status EXCEPT ![j] = s]
      PROVE  Account!Close(j)
  <2>1. OutcomeOf(j) = "pending" /\ OutcomeOf(j)' = "closed"
    BY <1>2 DEF OutcomeOf, Live, Exists, Terminal
  <2>2. Account!Move(j, "pending", "closed", CreditFor("pending"), CreditFor("closed"))
    BY <1>2, <2>1, MoveTogether
  <2> QED BY <2>2 DEF Account!Close, CreditFor
<1>3. ASSUME NEW j \in Job, CompleteJob(j) PROVE Account!Deliver(j)
  <2>1. Live(j) /\ status' = [status EXCEPT ![j] = "completed"]
    BY <1>3 DEF CompleteJob
  <2>2. OutcomeOf(j) = "pending" /\ OutcomeOf(j)' = "delivered"
    BY <2>1 DEF OutcomeOf, Live, Exists, Terminal
  <2>3. Account!Move(j, "pending", "delivered", CreditFor("pending"), CreditFor("delivered"))
    BY <2>1, <2>2, MoveTogether
  <2> QED BY <2>3 DEF Account!Deliver, CreditFor
<1>4. ASSUME NEW j \in Job, NEW next \in Progress, NEW x \in ExternalId \cup {NoExternalId},
             UpdateJobProgress(j, next, x)
      PROVE  UNCHANGED Account!accountVars
  <2>1. Live(j) /\ status' = [status EXCEPT ![j] = next]
    BY <1>4 DEF UpdateJobProgress
  <2>2. \A i \in Job : OutcomeOf(i)' = OutcomeOf(i)
    BY <2>1 DEF OutcomeOf, Live, Exists, Terminal, Progress
  <2> QED BY <2>2, ReadAsBefore
<1>5. ASSUME UNCHANGED status PROVE UNCHANGED Account!accountVars
  <2>1. \A i \in Job : OutcomeOf(i)' = OutcomeOf(i)
    BY <1>5 DEF OutcomeOf
  <2> QED BY <2>1, ReadAsBefore
<1>6. CASE CreateStep
  BY <1>1, <1>5, <1>6 DEF CreateStep, BeginCreate, AbortCreate, jobVars, Account!Next
<1>7. CASE ServiceStep
  BY <1>2, <1>3, <1>4, <1>7 DEF ServiceStep, FailJob, CancelJob, Account!Next
<1> QED BY <1>5, <1>6, <1>7 DEF Next, AllowanceStep, jobVars, vars

(* Charging and refunding happen in the very step that delivers or closes a
   job, once: the services implement CreditAccount. *)
THEOREM CreditsKeepTheirPromise == Spec => CreditPromise
<1>1. Init => Account!Init
  BY RefinesInit
<1>2. IInv /\ IInv' /\ [Next]_vars => [Account!Next]_(Account!accountVars)
  BY RefinesStep
<1> QED BY <1>1, <1>2, Inductive, PTL DEF Spec, CreditPromise, Account!Spec

-----------------------------------------------------------------------------
(* The counters.  A row's counters are the reservations of its month less the
   refunds booked in it; that difference is never negative, so max(.., 0) in
   the refund loses nothing, as long as every refund of the month gives back a
   reservation of the same month and character.  For that the invariant has to
   say that a key is reserved and refunded once, for the job's character. *)
EntriesOnce ==
  \A d, e \in ledger : d.operation = e.operation /\ d.key = e.key => d = e

EntriesOfJob ==
  \A e \in ledger, j \in Job : Exists(j) /\ e.key = Key(j) => e.character = CharacterFor(j)

CountersOf(m) ==
  /\ requestsUsed[m] = ReplayedRequests(m)
  /\ \A c \in Character : characterUsed[m][c] = ReplayedCharacter(m, c)

LedgerInv ==
  /\ EntriesOnce
  /\ EntriesOfJob
  /\ ProjectionIsReplay

(* Entries with different keys, each of whose keys occurs in D, are no more
   than the elements of D. *)
LEMMA KeyedInto ==
  ASSUME NEW E, NEW D, IsFiniteSet(D),
         \A e \in E : \E d \in D : d.key = e.key,
         \A d, e \in E : d.key = e.key => d = e
  PROVE  /\ IsFiniteSet(E)
         /\ Cardinality(E) <= Cardinality(D)
<1> DEFINE f == [e \in E |-> CHOOSE d \in D : d.key = e.key]
<1>1. \A e \in E : f[e] \in D /\ f[e].key = e.key
  OBVIOUS
<1>2. f \in [E -> D]
  BY <1>1
<1> HIDE DEF f
<1>3. \A d, e \in E : f[d] = f[e] => d = e
  BY <1>1
<1>4. f \in Injection(E, D)
  BY <1>2, <1>3 DEF Injection, IsInjective
<1> QED BY <1>4, FS_Injection

(* Jobs whose reservations are in R and were not given back by an entry of F
   are no more than the replay of R and F counts. *)
LEMMA KeptReservations ==
  ASSUME NEW R, NEW F, IsFiniteSet(R), IsFiniteSet(F),
         \A e \in F : \E d \in R : d.key = e.key,
         \A d, e \in F : d.key = e.key => d = e,
         NEW C,
         \A j \in C : \E d \in R : d.key = Key(j),
         \A j \in C : \A e \in F : e.key # Key(j),
         \A i, j \in C : Key(i) = Key(j) => i = j
  PROVE  /\ Cardinality(C) \in Nat
         /\ Cardinality(C) <= Net(R, F)
<1> DEFINE Back == {d \in R : \E e \in F : d.key = e.key}
           Kept == R \ Back
           f == [j \in C |-> CHOOSE d \in Kept : d.key = Key(j)]
<1>1. IsFiniteSet(Back) /\ Back \subseteq R
  BY FS_Subset
<1>2. Cardinality(F) <= Cardinality(Back)
  <2>1. \A e \in F : \E d \in Back : d.key = e.key
    OBVIOUS
  <2> HIDE DEF Back
  <2> QED BY <1>1, <2>1, KeyedInto
<1>3. IsFiniteSet(Kept) /\ Cardinality(Kept) = Cardinality(R) - Cardinality(Back)
  <2>1. R \cap Back = Back
    BY <1>1
  <2> HIDE DEF Back
  <2>2. IsFiniteSet(R \ Back) /\ Cardinality(R \ Back) = Cardinality(R) - Cardinality(R \cap Back)
    BY FS_Difference
  <2> QED BY <2>1, <2>2
<1>4. \A j \in C : \E d \in Kept : d.key = Key(j)
  OBVIOUS
<1> HIDE DEF Kept, Back
<1>5. \A j \in C : f[j] \in Kept /\ f[j].key = Key(j)
  BY <1>4
<1>6. f \in [C -> Kept]
  BY <1>5
<1> HIDE DEF f
<1>7. \A i, j \in C : f[i] = f[j] => i = j
  BY <1>5
<1>8. f \in Injection(C, Kept)
  BY <1>6, <1>7 DEF Injection, IsInjective
<1>9. IsFiniteSet(C) /\ Cardinality(C) <= Cardinality(Kept)
  BY <1>3, <1>8, FS_Injection
<1>10. /\ Cardinality(C) \in Nat /\ Cardinality(R) \in Nat
       /\ Cardinality(F) \in Nat /\ Cardinality(Back) \in Nat
  BY <1>1, <1>9, FS_CardinalityType
<1> QED BY <1>2, <1>3, <1>9, <1>10 DEF Net

(* Entries of the ledger with one key are of one character. *)
LEMMA OneCharacter ==
  ASSUME LedgerOwned, EntriesOfJob, NEW d \in ledger, NEW e \in ledger, d.key = e.key
  PROVE  d.character = e.character
BY DEF LedgerOwned, EntriesOfJob

(* In a month of its own the refunds are among the reservations, character by
   character. *)
LEMMA RefundsAmongReserves ==
  ASSUME LedgerOwned, LedgerFinite, EntriesOnce, EntriesOfJob, NEW m, OwnMonth(m), NEW c
  PROVE  /\ \A e \in EntriesOf("refund", m) : \E d \in EntriesOf("reserve", m) : d.key = e.key
         /\ \A e \in EntriesOfCharacter("refund", m, c) :
              \E d \in EntriesOfCharacter("reserve", m, c) : d.key = e.key
         /\ \A d, e \in EntriesOf("refund", m) : d.key = e.key => d = e
<1>1. \A e \in EntriesOf("refund", m) : \E d \in EntriesOf("reserve", m) : d.key = e.key
  BY DEF OwnMonth
<1>2. ASSUME NEW e \in EntriesOfCharacter("refund", m, c)
      PROVE  \E d \in EntriesOfCharacter("reserve", m, c) : d.key = e.key
  <2>1. e \in EntriesOf("refund", m) /\ e.character = c /\ e \in ledger
    BY DEF EntriesOfCharacter, EntriesOf
  <2>2. PICK d \in EntriesOf("reserve", m) : d.key = e.key
    BY <1>1, <2>1
  <2>3. d \in ledger
    BY DEF EntriesOf
  <2>4. d.character = c
    BY <2>1, <2>2, <2>3, OneCharacter
  <2> QED BY <2>2, <2>4 DEF EntriesOfCharacter
<1>3. \A d, e \in EntriesOf("refund", m) : d.key = e.key => d = e
  BY DEF EntriesOf, EntriesOnce
<1> QED BY <1>1, <1>2, <1>3

(* The entries of one operation, month and character are finitely many. *)
LEMMA EntriesFinite ==
  ASSUME LedgerFinite, NEW op, NEW m, NEW c
  PROVE  /\ IsFiniteSet(EntriesOf(op, m)) /\ Cardinality(EntriesOf(op, m)) \in Nat
         /\ IsFiniteSet(EntriesOfCharacter(op, m, c))
         /\ Cardinality(EntriesOfCharacter(op, m, c)) \in Nat
<1>1. EntriesOf(op, m) \subseteq ledger /\ EntriesOfCharacter(op, m, c) \subseteq ledger
  BY DEF EntriesOf, EntriesOfCharacter
<1>2. IsFiniteSet(EntriesOf(op, m)) /\ IsFiniteSet(EntriesOfCharacter(op, m, c))
  BY <1>1, FS_Subset DEF LedgerFinite
<1> QED BY <1>2, FS_CardinalityType

(* One more reservation counts one more; one more refund, if it still is of a
   reservation, one less. *)
LEMMA NetSteps ==
  ASSUME NEW R, NEW F, IsFiniteSet(R), IsFiniteSet(F), NEW x
  PROVE  /\ Cardinality(F) <= Cardinality(R) /\ x \notin R =>
              Net(R \cup {x}, F) = Net(R, F) + 1
         /\ Cardinality(F) + 1 <= Cardinality(R) /\ x \notin F =>
              Net(R, F \cup {x}) = LessOne(Net(R, F))
<1>1. Cardinality(R) \in Nat /\ Cardinality(F) \in Nat
  BY FS_CardinalityType
<1>2. x \notin R => Cardinality(R \cup {x}) = Cardinality(R) + 1
  BY FS_AddElement
<1>3. x \notin F => Cardinality(F \cup {x}) = Cardinality(F) + 1
  BY FS_AddElement
<1> QED BY <1>1, <1>2, <1>3 DEF Net, LessOne

(* A new entry shows in its operation, month and character only. *)
LEMMA EntriesGrow ==
  ASSUME NEW op, NEW k, NEW c, NEW now, month = now,
         ledger' = ledger \cup {EntryNow(op, k, c)}
  PROVE  /\ EntriesOf(op, now)' = EntriesOf(op, now) \cup {EntryNow(op, k, c)}
         /\ EntriesOfCharacter(op, now, c)' =
              EntriesOfCharacter(op, now, c) \cup {EntryNow(op, k, c)}
         /\ \A o, m : o # op \/ m # now => EntriesOf(o, m)' = EntriesOf(o, m)
         /\ \A o, m, b : o # op \/ m # now \/ b # c =>
              EntriesOfCharacter(o, m, b)' = EntriesOfCharacter(o, m, b)
<1> DEFINE x == EntryNow(op, k, c)
<1>1. x.operation = op /\ x.period = now /\ x.character = c /\ x.key = k
  BY DEF EntryNow
<1>2. ledger' = ledger \cup {x}
  OBVIOUS
<1> HIDE DEF x
<1>3. /\ EntriesOf(op, now)' = EntriesOf(op, now) \cup {x}
      /\ EntriesOfCharacter(op, now, c)' = EntriesOfCharacter(op, now, c) \cup {x}
      /\ \A o, m : o # op \/ m # now => EntriesOf(o, m)' = EntriesOf(o, m)
      /\ \A o, m, b : o # op \/ m # now \/ b # c =>
           EntriesOfCharacter(o, m, b)' = EntriesOfCharacter(o, m, b)
  BY <1>1, <1>2 DEF EntriesOf, EntriesOfCharacter
<1> QED BY <1>3 DEF x

(* A new entry is the only one of its operation under its key. *)
LEMMA EntriesStayOnce ==
  ASSUME EntriesOnce, NEW op, NEW k, NEW c, ~Recorded(op, k),
         ledger' = ledger \cup {EntryNow(op, k, c)}
  PROVE  EntriesOnce'
<1>1. EntryNow(op, k, c).operation = op /\ EntryNow(op, k, c).key = k
  BY DEF EntryNow
<1> QED BY <1>1 DEF EntriesOnce, Recorded

(* A new reservation is counted in the row of its month. *)
LEMMA ReserveCounted ==
  ASSUME UsageTypeOK, LedgerFinite, LedgerOwned, LedgerInv,
         NEW k, NEW c \in Character, \A e \in ledger : e.key # k,
         ReserveCharacterRequest(k, c)
  PROVE  EntriesOnce' /\ ProjectionIsReplay'
<1> PICK now : now = month
  OBVIOUS
<1> DEFINE x == EntryNow("reserve", k, c)
<1>1. ~Recorded("reserve", k)
  BY DEF Recorded
<1>2. /\ requestsUsed' = [requestsUsed EXCEPT ![now] = @ + 1]
      /\ characterUsed' = [characterUsed EXCEPT ![now][c] = @ + 1]
      /\ ledger' = ledger \cup {x}
  BY <1>1 DEF ReserveCharacterRequest
<1>3. x.key = k
  BY DEF EntryNow
<1>4. /\ EntriesOf("reserve", now)' = EntriesOf("reserve", now) \cup {x}
      /\ EntriesOfCharacter("reserve", now, c)' = EntriesOfCharacter("reserve", now, c) \cup {x}
      /\ \A m : EntriesOf("refund", m)' = EntriesOf("refund", m)
      /\ \A m : m # now => EntriesOf("reserve", m)' = EntriesOf("reserve", m)
      /\ \A m, b : EntriesOfCharacter("refund", m, b)' = EntriesOfCharacter("refund", m, b)
      /\ \A m, b : m # now \/ b # c =>
           EntriesOfCharacter("reserve", m, b)' = EntriesOfCharacter("reserve", m, b)
  BY <1>2, EntriesGrow
<1>5. EntriesOnce'
  BY <1>1, <1>2, EntriesStayOnce DEF LedgerInv
<1> HIDE DEF x
<1>6. x \notin ledger
  BY <1>3
<1>7. ASSUME NEW m \in Month, OwnMonth(m)' PROVE OwnMonth(m)
  <2>1. \A e \in EntriesOf("refund", m) : \E d \in EntriesOf("reserve", m) \cup {x} : d.key = e.key
    BY <1>4, <1>7 DEF OwnMonth
  <2>2. \A e \in EntriesOf("refund", m) : e.key # k
    BY DEF EntriesOf
  <2> QED BY <1>3, <2>1, <2>2 DEF OwnMonth
<1>8. ASSUME NEW m \in Month, OwnMonth(m)', m # now PROVE CountersOf(m)'
  <2>1. CountersOf(m)
    BY <1>7, <1>8 DEF LedgerInv, ProjectionIsReplay, CountersOf
  <2>2. requestsUsed'[m] = requestsUsed[m] /\ characterUsed'[m] = characterUsed[m]
    BY <1>2, <1>8 DEF UsageTypeOK
  <2> QED BY <1>4, <1>8, <2>1, <2>2 DEF CountersOf, ReplayedRequests, ReplayedCharacter
<1>9. ASSUME OwnMonth(now)', now \in Month PROVE CountersOf(now)'
  <2>1. CountersOf(now) /\ OwnMonth(now)
    BY <1>7, <1>9 DEF LedgerInv, ProjectionIsReplay, CountersOf
  <2>2. /\ requestsUsed'[now] = requestsUsed[now] + 1
        /\ characterUsed'[now][c] = characterUsed[now][c] + 1
        /\ \A b \in Character \ {c} : characterUsed'[now][b] = characterUsed[now][b]
    BY <1>2, <1>9 DEF UsageTypeOK
  <2>3. /\ Cardinality(EntriesOf("refund", now)) <= Cardinality(EntriesOf("reserve", now))
        /\ Cardinality(EntriesOfCharacter("refund", now, c))
             <= Cardinality(EntriesOfCharacter("reserve", now, c))
    <3>1. /\ \A e \in EntriesOf("refund", now) : \E d \in EntriesOf("reserve", now) : d.key = e.key
          /\ \A e \in EntriesOfCharacter("refund", now, c) :
               \E d \in EntriesOfCharacter("reserve", now, c) : d.key = e.key
          /\ \A d, e \in EntriesOf("refund", now) : d.key = e.key => d = e
      BY <2>1, RefundsAmongReserves DEF LedgerInv
    <3>2. EntriesOfCharacter("refund", now, c) \subseteq EntriesOf("refund", now)
      BY DEF EntriesOfCharacter
    <3>3. IsFiniteSet(EntriesOf("reserve", now)) /\ IsFiniteSet(EntriesOfCharacter("reserve", now, c))
      BY EntriesFinite
    <3>4. Cardinality(EntriesOf("refund", now)) <= Cardinality(EntriesOf("reserve", now))
      BY <3>1, <3>3, KeyedInto
    <3>5. \A d, e \in EntriesOfCharacter("refund", now, c) : d.key = e.key => d = e
      BY <3>1, <3>2
    <3>6. Cardinality(EntriesOfCharacter("refund", now, c))
             <= Cardinality(EntriesOfCharacter("reserve", now, c))
      BY <3>1, <3>3, <3>5, KeyedInto
    <3> QED BY <3>4, <3>6
  <2>4. x \notin EntriesOf("reserve", now) /\ x \notin EntriesOfCharacter("reserve", now, c)
    BY <1>6 DEF EntriesOf, EntriesOfCharacter
  <2> DEFINE R == EntriesOf("reserve", now)
             F == EntriesOf("refund", now)
             Rc == EntriesOfCharacter("reserve", now, c)
             Fc == EntriesOfCharacter("refund", now, c)
  <2>5. Net(R \cup {x}, F) = Net(R, F) + 1 /\ Net(Rc \cup {x}, Fc) = Net(Rc, Fc) + 1
    <3>1. IsFiniteSet(R) /\ IsFiniteSet(Rc) /\ IsFiniteSet(F) /\ IsFiniteSet(Fc)
      BY EntriesFinite
    <3> HIDE DEF R, F, Rc, Fc
    <3> QED BY <2>3, <2>4, <3>1, NetSteps DEF R, F, Rc, Fc
  <2>6. /\ ReplayedRequests(now)' = ReplayedRequests(now) + 1
        /\ ReplayedCharacter(now, c)' = ReplayedCharacter(now, c) + 1
    BY <1>4, <2>5 DEF ReplayedRequests, ReplayedCharacter, Net
  <2>7. \A b \in Character \ {c} : ReplayedCharacter(now, b)' = ReplayedCharacter(now, b)
    BY <1>4 DEF ReplayedCharacter, Net
  <2> QED BY <2>1, <2>2, <2>6, <2>7 DEF CountersOf
<1>10. ProjectionIsReplay'
  <2>1. ASSUME NEW m \in Month, OwnMonth(m)' PROVE CountersOf(m)'
    BY <1>8, <1>9, <2>1
  <2> QED BY <2>1 DEF ProjectionIsReplay, CountersOf
<1> QED BY <1>5, <1>10

(* A refund of a request reserved in the same month is taken off its row. *)
LEMMA RefundCounted ==
  ASSUME UsageTypeOK, LedgerFinite, LedgerOwned, LedgerInv,
         NEW k, NEW c \in Character, ~Recorded("refund", k),
         \A e \in ledger : e.key = k => e.character = c,
         RefundCharacterRequest(k, c)
  PROVE  EntriesOnce' /\ ProjectionIsReplay'
<1> PICK now : now = month
  OBVIOUS
<1> DEFINE x == EntryNow("refund", k, c)
<1>1. /\ requestsUsed' = [requestsUsed EXCEPT ![now] = LessOne(@)]
      /\ characterUsed' = [characterUsed EXCEPT ![now][c] = LessOne(@)]
      /\ ledger' = ledger \cup {x}
  BY DEF RefundCharacterRequest
<1>2. x.key = k /\ x.operation = "refund"
  BY DEF EntryNow
<1>3. /\ EntriesOf("refund", now)' = EntriesOf("refund", now) \cup {x}
      /\ EntriesOfCharacter("refund", now, c)' = EntriesOfCharacter("refund", now, c) \cup {x}
      /\ \A m : EntriesOf("reserve", m)' = EntriesOf("reserve", m)
      /\ \A m : m # now => EntriesOf("refund", m)' = EntriesOf("refund", m)
      /\ \A m, b : EntriesOfCharacter("reserve", m, b)' = EntriesOfCharacter("reserve", m, b)
      /\ \A m, b : m # now \/ b # c =>
           EntriesOfCharacter("refund", m, b)' = EntriesOfCharacter("refund", m, b)
  BY <1>1, EntriesGrow
<1>4. EntriesOnce'
  BY <1>1, EntriesStayOnce DEF LedgerInv
<1> HIDE DEF x
<1>5. \A e \in ledger : e.operation = "refund" => e.key # k
  BY DEF Recorded
<1>6. ASSUME NEW m \in Month, OwnMonth(m)' PROVE OwnMonth(m)
  <2>1. EntriesOf("refund", m) \subseteq EntriesOf("refund", m)'
    BY <1>3
  <2> QED BY <1>3, <1>6, <2>1 DEF OwnMonth
<1>7. ASSUME NEW m \in Month, OwnMonth(m)', m # now PROVE CountersOf(m)'
  <2>1. CountersOf(m)
    BY <1>6, <1>7 DEF LedgerInv, ProjectionIsReplay, CountersOf
  <2>2. requestsUsed'[m] = requestsUsed[m] /\ characterUsed'[m] = characterUsed[m]
    BY <1>1, <1>7 DEF UsageTypeOK
  <2> QED BY <1>3, <1>7, <2>1, <2>2 DEF CountersOf, ReplayedRequests, ReplayedCharacter
<1>8. ASSUME OwnMonth(now)', now \in Month PROVE CountersOf(now)'
  <2> DEFINE R == EntriesOf("reserve", now)
             F == EntriesOf("refund", now)
             Rc == EntriesOfCharacter("reserve", now, c)
             Fc == EntriesOfCharacter("refund", now, c)
  <2>1. CountersOf(now) /\ OwnMonth(now)
    BY <1>6, <1>8 DEF LedgerInv, ProjectionIsReplay, CountersOf
  <2>2. /\ requestsUsed'[now] = LessOne(requestsUsed[now])
        /\ characterUsed'[now][c] = LessOne(characterUsed[now][c])
        /\ \A b \in Character \ {c} : characterUsed'[now][b] = characterUsed[now][b]
    BY <1>1, <1>8 DEF UsageTypeOK
  <2>3. /\ \A e \in F : \E d \in R : d.key = e.key
        /\ \A e \in Fc : \E d \in Rc : d.key = e.key
        /\ \A d, e \in F : d.key = e.key => d = e
    BY <2>1, RefundsAmongReserves DEF LedgerInv
  <2>4. PICK d \in R : d.key = k
    BY <1>2, <1>3, <1>8 DEF OwnMonth
  <2>5. d \in Rc
    <3>1. d \in ledger
      BY DEF EntriesOf
    <3>2. d.character = c
      BY <2>4, <3>1
    <3> QED BY <3>2 DEF EntriesOfCharacter
  <2>6. Fc \subseteq F /\ \A e \in F : e.key # k
    BY <1>5 DEF EntriesOf, EntriesOfCharacter
  <2>7. /\ IsFiniteSet(R) /\ IsFiniteSet(Rc) /\ IsFiniteSet(F) /\ IsFiniteSet(Fc)
    BY EntriesFinite
  <2> HIDE DEF R, F, Rc, Fc
  <2>8. Cardinality(F \cup {x}) <= Cardinality(R)
    <3>1. \A e \in F \cup {x} : \E b \in R : b.key = e.key
      BY <1>2, <2>3, <2>4
    <3>2. \A b, e \in F \cup {x} : b.key = e.key => b = e
      BY <1>2, <2>3, <2>6
    <3> QED BY <2>7, <3>1, <3>2, KeyedInto
  <2>9. Cardinality(Fc \cup {x}) <= Cardinality(Rc)
    <3>1. \A e \in Fc \cup {x} : \E b \in Rc : b.key = e.key
      BY <1>2, <2>3, <2>4, <2>5
    <3>2. \A b, e \in Fc \cup {x} : b.key = e.key => b = e
      BY <1>2, <2>3, <2>6
    <3> QED BY <2>7, <3>1, <3>2, KeyedInto
  <2>10. x \notin F /\ x \notin Fc
    BY <1>2, <2>6
  <2>11. Cardinality(F) + 1 <= Cardinality(R) /\ Cardinality(Fc) + 1 <= Cardinality(Rc)
    BY <2>7, <2>8, <2>9, <2>10, FS_AddElement
  <2>12. Net(R, F \cup {x}) = LessOne(Net(R, F)) /\ Net(Rc, Fc \cup {x}) = LessOne(Net(Rc, Fc))
    BY <2>7, <2>10, <2>11, NetSteps
  <2>13. ReplayedRequests(now)' = LessOne(ReplayedRequests(now))
    BY <1>3, <2>12 DEF ReplayedRequests, Net, R, F
  <2>14. ReplayedCharacter(now, c)' = LessOne(ReplayedCharacter(now, c))
    BY <1>3, <2>12 DEF ReplayedCharacter, Net, Rc, Fc
  <2>15. \A b \in Character \ {c} : ReplayedCharacter(now, b)' = ReplayedCharacter(now, b)
    BY <1>3 DEF ReplayedCharacter, Net
  <2> QED BY <2>1, <2>2, <2>13, <2>14, <2>15 DEF CountersOf
<1>9. ProjectionIsReplay'
  <2>1. ASSUME NEW m \in Month, OwnMonth(m)' PROVE CountersOf(m)'
    BY <1>7, <1>8, <2>1
  <2> QED BY <2>1 DEF ProjectionIsReplay, CountersOf
<1> QED BY <1>4, <1>9

(* Charging a job counts nothing. *)
LEMMA CommitCounted ==
  ASSUME LedgerInv, NEW k, NEW c, ~Recorded("commit", k), CommitCharacterRequest(k, c)
  PROVE  EntriesOnce' /\ ProjectionIsReplay'
<1> PICK now : now = month
  OBVIOUS
<1>1. ledger' = ledger \cup {EntryNow("commit", k, c)} /\ UNCHANGED <<requestsUsed, characterUsed>>
  BY DEF CommitCharacterRequest
<1>2. EntriesOnce'
  BY <1>1, EntriesStayOnce DEF LedgerInv
<1>3. /\ \A m : EntriesOf("reserve", m)' = EntriesOf("reserve", m)
      /\ \A m : EntriesOf("refund", m)' = EntriesOf("refund", m)
      /\ \A m, b : EntriesOfCharacter("reserve", m, b)' = EntriesOfCharacter("reserve", m, b)
      /\ \A m, b : EntriesOfCharacter("refund", m, b)' = EntriesOfCharacter("refund", m, b)
  BY <1>1, EntriesGrow
<1>4. ProjectionIsReplay'
  BY <1>1, <1>3 DEF LedgerInv, ProjectionIsReplay, OwnMonth, ReplayedRequests, ReplayedCharacter, Net
<1> QED BY <1>2, <1>4

(* A rebuild writes the replay itself; what neither counts nor writes an entry
   changes nothing. *)
LEMMA RebuildCounted ==
  ASSUME UsageTypeOK, LedgerInv, NEW m \in Month, RebuildUsageProjection(m)
  PROVE  EntriesOnce' /\ ProjectionIsReplay'
<1>1. ledger' = ledger
  BY DEF RebuildUsageProjection
<1>2. EntriesOnce'
  BY <1>1 DEF LedgerInv, EntriesOnce
<1>3. /\ \A n : EntriesOf("reserve", n)' = EntriesOf("reserve", n)
      /\ \A n : EntriesOf("refund", n)' = EntriesOf("refund", n)
      /\ \A n, b : EntriesOfCharacter("reserve", n, b)' = EntriesOfCharacter("reserve", n, b)
      /\ \A n, b : EntriesOfCharacter("refund", n, b)' = EntriesOfCharacter("refund", n, b)
  BY <1>1 DEF EntriesOf, EntriesOfCharacter
<1>4. /\ \A n : OwnMonth(n)' = OwnMonth(n)
      /\ \A n : ReplayedRequests(n)' = ReplayedRequests(n)
      /\ \A n, b : ReplayedCharacter(n, b)' = ReplayedCharacter(n, b)
  BY <1>3 DEF OwnMonth, ReplayedRequests, ReplayedCharacter, Net
<1>5. requestsUsed'[m] = ReplayedRequests(m)
      /\ \A b \in Character : characterUsed'[m][b] = ReplayedCharacter(m, b)
  BY DEF RebuildUsageProjection, UsageTypeOK
<1>6. \A n \in Month \ {m} :
         requestsUsed'[n] = requestsUsed[n] /\ characterUsed'[n] = characterUsed[n]
  BY DEF RebuildUsageProjection, UsageTypeOK
<1>7. ProjectionIsReplay'
  BY <1>4, <1>5, <1>6 DEF LedgerInv, ProjectionIsReplay
<1> QED BY <1>2, <1>7

LEMMA CountersKept ==
  ASSUME LedgerInv, UNCHANGED <<requestsUsed, characterUsed, ledger>>
  PROVE  EntriesOnce' /\ ProjectionIsReplay'
<1>1. EntriesOnce'
  BY DEF LedgerInv, EntriesOnce
<1>2. ProjectionIsReplay'
  BY DEF LedgerInv, ProjectionIsReplay, OwnMonth, EntriesOf, EntriesOfCharacter,
         ReplayedRequests, ReplayedCharacter, Net
<1> QED BY <1>1, <1>2

(* Every entry is of the character of the job it was written for. *)
LEMMA EntriesStayOfJob ==
  ASSUME KeysDistinct, EntriesOfJob, NoNewJob, NEW j \in Job, Exists(j), NEW op,
         \/ UNCHANGED ledger
         \/ ledger' = ledger \cup {EntryNow(op, Key(j), CharacterFor(j))}
  PROVE  EntriesOfJob'
<1>1. \A i : Key(i)' = Key(i) /\ CharacterFor(i)' = CharacterFor(i)
  BY DEF NoNewJob, Key, KeyFor, CharacterFor
<1> DEFINE x == EntryNow(op, Key(j), CharacterFor(j))
<1>2. x.key = Key(j) /\ x.character = CharacterFor(j)
  BY DEF EntryNow
<1>3. \A e \in ledger' : e \in ledger \/ e = x
  OBVIOUS
<1> HIDE DEF x
<1>4. ASSUME NEW e \in ledger', NEW i \in Job, Exists(i)', e.key = Key(i)'
      PROVE  e.character = CharacterFor(i)'
  <2>1. Exists(i) /\ e.key = Key(i)
    BY <1>1, <1>4 DEF NoNewJob
  <2>2. CASE e \in ledger
    BY <1>1, <2>1, <2>2 DEF EntriesOfJob
  <2>3. CASE e = x
    BY <1>1, <1>2, <2>1, <2>3 DEF KeysDistinct
  <2> QED BY <1>3, <2>2, <2>3
<1> QED BY <1>4 DEF EntriesOfJob

LEMMA EntriesKeptOfJob ==
  ASSUME EntriesOfJob, NoNewJob, UNCHANGED ledger
  PROVE  EntriesOfJob'
<1>1. \A i : Key(i)' = Key(i) /\ CharacterFor(i)' = CharacterFor(i)
  BY DEF NoNewJob, Key, KeyFor, CharacterFor
<1> QED BY <1>1 DEF EntriesOfJob, NoNewJob

LEMMA CreateCounted ==
  ASSUME IInv, LedgerInv, NEW w \in creating, NEW j \in Job, FinishCreate(w, j)
  PROVE  LedgerInv'
<1> USE DEF IInv, TypeInv, TypeOK
<1> DEFINE k == KeyFor(j, w.request, w.forced)
           c == CharacterOf[w.request]
<1>1. /\ ~Exists(j) /\ ~KeyTaken(k)
      /\ status' = [status EXCEPT ![j] = "queued"]
      /\ request' = [request EXCEPT ![j] = w.request]
      /\ forced' = [forced EXCEPT ![j] = w.forced]
      /\ ReserveCharacterRequest(k, c)
  BY DEF FinishCreate
<1>2. /\ Key(j)' = k /\ CharacterFor(j)' = c
      /\ \A i \in Job \ {j} :
           /\ Key(i)' = Key(i)
           /\ CharacterFor(i)' = CharacterFor(i)
           /\ Exists(i)' <=> Exists(i)
  BY <1>1 DEF Key, KeyFor, CharacterFor, Exists
<1>3. /\ \A e \in ledger : e.key # k
      /\ \A i \in Job : Exists(i) => Key(i) # k
  BY <1>1 DEF KeyTaken, LedgerOwned
<1>4. c \in Character
  BY JobAssumption DEF Creation
<1> HIDE DEF k, c
<1>5. EntriesOnce' /\ ProjectionIsReplay'
  BY <1>1, <1>3, <1>4, ReserveCounted
<1>6. ledger' = ledger \cup {EntryNow("reserve", k, c)}
  BY <1>1, <1>3 DEF ReserveCharacterRequest, Recorded
<1>7. EntryNow("reserve", k, c).key = k /\ EntryNow("reserve", k, c).character = c
  BY DEF EntryNow
<1>8. ASSUME NEW e \in ledger', NEW i \in Job, Exists(i)', e.key = Key(i)'
      PROVE  e.character = CharacterFor(i)'
  <2>1. CASE i = j
    BY <1>2, <1>3, <1>6, <1>7, <1>8, <2>1
  <2>2. CASE i # j
    <3>1. Exists(i) /\ e.key = Key(i) /\ Key(i) # k
      BY <1>2, <1>3, <1>8, <2>2
    <3>2. e \in ledger
      BY <1>6, <1>7, <3>1
    <3> QED BY <1>2, <2>2, <3>1, <3>2 DEF LedgerInv, EntriesOfJob
  <2> QED BY <2>1, <2>2
<1>9. EntriesOfJob'
  BY <1>8 DEF EntriesOfJob
<1> QED BY <1>5, <1>9 DEF LedgerInv

(* A job in flight is charged or given back under its own key. *)
LEMMA GiveBackCounted ==
  ASSUME IInv, LedgerInv, NEW j \in Job, Live(j), GiveReservationBack(j), NoNewJob
  PROVE  LedgerInv'
<1> USE DEF IInv, TypeInv, TypeOK
<1>1. /\ Exists(j) /\ ~Recorded("refund", Key(j))
      /\ RefundCharacterRequest(Key(j), CharacterFor(j))
      /\ ledger' = ledger \cup {EntryNow("refund", Key(j), CharacterFor(j))}
  BY LiveHoldsReservation, GiveBackEffect DEF GiveReservationBack
<1>2. EntriesOfJob'
  BY <1>1, EntriesStayOfJob DEF LedgerInv
<1>3. CharacterFor(j) \in Character
  BY JobKeyType
<1>4. \A e \in ledger : e.key = Key(j) => e.character = CharacterFor(j)
  BY <1>1 DEF LedgerInv, EntriesOfJob
<1>5. EntriesOnce' /\ ProjectionIsReplay'
  <2>1. PICK k, c : k = Key(j) /\ c = CharacterFor(j)
    OBVIOUS
  <2> QED BY <1>1, <1>3, <1>4, <2>1, RefundCounted
<1> QED BY <1>2, <1>5 DEF LedgerInv

LEMMA CompleteCounted ==
  ASSUME IInv, LedgerInv, NEW j \in Job, CompleteJob(j)
  PROVE  LedgerInv'
<1> USE DEF IInv, TypeInv, TypeOK
<1>1. Live(j)
  BY DEF CompleteJob
<1>2. /\ Exists(j) /\ ~Recorded("commit", Key(j))
      /\ CommitCharacterRequest(Key(j), CharacterFor(j))
      /\ ledger' = ledger \cup {EntryNow("commit", Key(j), CharacterFor(j))}
  BY <1>1, LiveHoldsReservation, ChargeEffect DEF CompleteJob
<1>3. NoNewJob
  BY <1>2 DEF NoNewJob, CompleteJob, Exists
<1>4. EntriesOfJob'
  BY <1>2, <1>3, EntriesStayOfJob DEF LedgerInv
<1>5. EntriesOnce' /\ ProjectionIsReplay'
  <2>1. PICK k, c : k = Key(j) /\ c = CharacterFor(j)
    OBVIOUS
  <2> QED BY <1>2, <2>1, CommitCounted
<1> QED BY <1>4, <1>5 DEF LedgerInv

(* Everything else leaves the ledger alone. *)
LEMMA SameLedgerCounted ==
  ASSUME LedgerInv, NoNewJob, UNCHANGED <<requestsUsed, characterUsed, ledger>>
  PROVE  LedgerInv'
BY CountersKept, EntriesKeptOfJob DEF LedgerInv

LEMMA LedgerStep == IInv /\ LedgerInv /\ [Next]_vars => LedgerInv'
<1> SUFFICES ASSUME IInv, LedgerInv, [Next]_vars PROVE LedgerInv'
  OBVIOUS
<1> USE DEF IInv, TypeInv, TypeOK
<1>1. ASSUME NEW w \in creating, NEW j \in Job, FinishCreate(w, j) PROVE LedgerInv'
  BY <1>1, CreateCounted
<1>2. ASSUME NEW j \in Job, NEW next \in Progress, NEW x \in ExternalId \cup {NoExternalId},
             UpdateJobProgress(j, next, x)
      PROVE  LedgerInv'
  <2>1. NoNewJob
    BY <1>2 DEF NoNewJob, UpdateJobProgress, Exists, Live, Progress
  <2> QED BY <1>2, <2>1, SameLedgerCounted DEF UpdateJobProgress, usageVars
<1>3. ASSUME NEW j \in Job, FailJob(j) PROVE LedgerInv'
  <2>1. NoNewJob
    BY <1>3 DEF NoNewJob, FailJob, Exists, Live
  <2> QED BY <1>3, <2>1, GiveBackCounted DEF FailJob
<1>4. ASSUME NEW j \in Job, CompleteJob(j) PROVE LedgerInv'
  BY <1>4, CompleteCounted
<1>5. ASSUME NEW j \in Job, CancelJob(j) PROVE LedgerInv'
  <2>1. NoNewJob
    BY <1>5 DEF NoNewJob, CancelJob, Exists, Live
  <2> QED BY <1>5, <2>1, GiveBackCounted DEF CancelJob
<1>6. ASSUME UNCHANGED <<usageVars, jobVars>> PROVE LedgerInv'
  BY <1>6, SameLedgerCounted DEF NoNewJob, Exists, usageVars, jobVars
<1>7. CASE AllowanceStep
  <2>1. NoNewJob /\ UNCHANGED ledger
    BY <1>7 DEF AllowanceStep, NoNewJob, Exists, jobVars, ChangePlan, RebuildUsageProjection, NewMonth
  <2>2. ASSUME NEW m \in Month, RebuildUsageProjection(m) PROVE LedgerInv'
    BY <2>1, <2>2, RebuildCounted, EntriesKeptOfJob DEF LedgerInv
  <2>3. ASSUME UNCHANGED <<requestsUsed, characterUsed>> PROVE LedgerInv'
    BY <2>1, <2>3, SameLedgerCounted
  <2> QED BY <1>7, <2>2, <2>3 DEF AllowanceStep, ChangePlan, NewMonth
<1> QED BY <1>1, <1>2, <1>3, <1>4, <1>5, <1>6, <1>7
        DEF Next, CreateStep, ServiceStep, BeginCreate, AbortCreate, vars

LEMMA LedgerInit == Init => LedgerInv
<1> SUFFICES ASSUME Init PROVE LedgerInv
  OBVIOUS
<1>1. ledger = {} /\ \A m \in Month : requestsUsed[m] = 0 /\ \A c \in Character : characterUsed[m][c] = 0
  BY DEF Init, UsageInit
<1>2. \A op, m : EntriesOf(op, m) = {} /\ \A c : EntriesOfCharacter(op, m, c) = {}
  BY <1>1 DEF EntriesOf, EntriesOfCharacter
<1>3. Net({}, {}) = 0
  BY FS_EmptySet DEF Net
<1>4. \A m : ReplayedRequests(m) = 0 /\ \A c : ReplayedCharacter(m, c) = 0
  BY <1>2, <1>3 DEF ReplayedRequests, ReplayedCharacter
<1> QED BY <1>1, <1>4 DEF LedgerInv, EntriesOnce, EntriesOfJob, ProjectionIsReplay

LEMMA LedgerInductive == Spec => [](IInv /\ LedgerInv)
BY LedgerInit, LedgerStep, Inductive, PTL DEF Spec

(* In every month that no refund has crossed into, the counters of the usage
   row are what replaying the ledger gives, in total and for each character
   (reserve_character_request, refund_character_request and
   rebuild_usage_projection agree). *)
THEOREM ReplayCorrect == Spec => []ProjectionIsReplay
<1>1. LedgerInv => ProjectionIsReplay
  BY DEF LedgerInv
<1> QED BY <1>1, LedgerInductive, PTL

-----------------------------------------------------------------------------
(* The plan.  The jobs that count against a month hold reservations of it that
   no refund gave back, so where the counter is the replay of the month it is
   no smaller than their number. *)
LEMMA ChargedHoldReservation ==
  ASSUME IInv, NEW m, NEW j \in ChargedJobs(m)
  PROVE  /\ j \in Job /\ Exists(j)
         /\ \E d \in EntriesOf("reserve", m) : d.key = Key(j)
         /\ \A e \in EntriesOf("refund", m) : e.key # Key(j)
<1>1. j \in Job /\ Exists(j) /\ status[j] \notin {"failed", "canceled"} /\ ReservedIn(j, m)
  BY DEF ChargedJobs, Exists
<1>2. "refund" \notin Operations(Key(j))
  <2>1. SettledAs(j)
    BY <1>1 DEF IInv, CreditsFollowOutcome
  <2> QED BY <1>1, <2>1 DEF SettledAs, Live, Terminal
<1>3. \A e \in EntriesOf("refund", m) : e.key # Key(j)
  BY <1>2 DEF EntriesOf, Operations
<1>4. \E d \in EntriesOf("reserve", m) : d.key = Key(j)
  BY <1>1 DEF ReservedIn, EntriesOf
<1> QED BY <1>1, <1>3, <1>4

LEMMA ChargedWithinReplay ==
  ASSUME IInv, LedgerInv, NEW m, OwnMonth(m), NEW c
  PROVE  /\ Cardinality(ChargedJobs(m)) \in Nat
         /\ Cardinality(ChargedJobs(m)) <= ReplayedRequests(m)
         /\ Cardinality({i \in ChargedJobs(m) : CharacterFor(i) = c}) \in Nat
         /\ Cardinality({i \in ChargedJobs(m) : CharacterFor(i) = c}) <= ReplayedCharacter(m, c)
<1> DEFINE R == EntriesOf("reserve", m)
           F == EntriesOf("refund", m)
           Rc == EntriesOfCharacter("reserve", m, c)
           Fc == EntriesOfCharacter("refund", m, c)
           C == ChargedJobs(m)
           Cc == {i \in C : CharacterFor(i) = c}
<1>1. /\ \A e \in F : \E d \in R : d.key = e.key
      /\ \A e \in Fc : \E d \in Rc : d.key = e.key
      /\ \A d, e \in F : d.key = e.key => d = e
  BY RefundsAmongReserves DEF IInv, TypeInv, LedgerInv
<1>2. IsFiniteSet(R) /\ IsFiniteSet(F) /\ IsFiniteSet(Rc) /\ IsFiniteSet(Fc)
  BY EntriesFinite DEF IInv, TypeInv
<1>3. /\ \A j \in C : \E d \in R : d.key = Key(j)
      /\ \A j \in C : \A e \in F : e.key # Key(j)
      /\ \A i, j \in C : Key(i) = Key(j) => i = j
  BY ChargedHoldReservation DEF IInv, KeysDistinct
<1>4. Fc \subseteq F
  BY DEF EntriesOfCharacter
<1>5. \A j \in Cc : \E d \in Rc : d.key = Key(j)
  <2> SUFFICES ASSUME NEW j \in Cc PROVE \E d \in Rc : d.key = Key(j)
    OBVIOUS
  <2>1. PICK d \in R : d.key = Key(j)
    BY <1>3
  <2>2. d \in ledger /\ j \in Job /\ Exists(j)
    BY ChargedHoldReservation DEF EntriesOf
  <2>3. d.character = c
    BY <2>1, <2>2 DEF LedgerInv, EntriesOfJob
  <2> QED BY <2>1, <2>3 DEF EntriesOfCharacter
<1>6. ReplayedRequests(m) = Net(R, F) /\ ReplayedCharacter(m, c) = Net(Rc, Fc)
  BY DEF ReplayedRequests, ReplayedCharacter
<1> HIDE DEF R, F, Rc, Fc, C
<1>7. Cardinality(C) \in Nat /\ Cardinality(C) <= Net(R, F)
  BY <1>1, <1>2, <1>3, KeptReservations
<1>8. /\ \A d, e \in Fc : d.key = e.key => d = e
      /\ \A j \in Cc : \A e \in Fc : e.key # Key(j)
      /\ \A i, j \in Cc : Key(i) = Key(j) => i = j
  BY <1>1, <1>3, <1>4
<1> HIDE DEF Cc
<1>9. Cardinality(Cc) \in Nat /\ Cardinality(Cc) <= Net(Rc, Fc)
  BY <1>1, <1>2, <1>5, <1>8, KeptReservations
<1> QED BY <1>6, <1>7, <1>9 DEF C, Cc

(* A smaller number is under the limit too. *)
LEMMA UnderLimitDown ==
  ASSUME NEW limit \in Limit, NEW n \in Nat, NEW a \in Nat, a <= n, UnderLimit(n, limit)
  PROVE  UnderLimit(a, limit)
BY LedgerAssumption DEF UnderLimit, Limit

LEMMA CreatedInPlan ==
  ASSUME IInv, LedgerInv, NEW w \in creating, NEW j \in Job, FinishCreate(w, j),
         OwnMonth(month)
  PROVE  CreatedWithinPlan(j)
<1>0. \A c :
        /\ Cardinality(ChargedJobs(month)) \in Nat
        /\ Cardinality(ChargedJobs(month)) <= ReplayedRequests(month)
        /\ Cardinality({i \in ChargedJobs(month) : CharacterFor(i) = c}) \in Nat
        /\ Cardinality({i \in ChargedJobs(month) : CharacterFor(i) = c})
             <= ReplayedCharacter(month, c)
  <2>1. PICK m : m = month
    OBVIOUS
  <2>2. OwnMonth(m)
    BY <2>1
  <2> SUFFICES ASSUME NEW c
               PROVE /\ Cardinality(ChargedJobs(m)) \in Nat
                     /\ Cardinality(ChargedJobs(m)) <= ReplayedRequests(m)
                     /\ Cardinality({i \in ChargedJobs(m) : CharacterFor(i) = c}) \in Nat
                     /\ Cardinality({i \in ChargedJobs(m) : CharacterFor(i) = c})
                          <= ReplayedCharacter(m, c)
    BY <2>1
  <2> QED BY <2>2, ChargedWithinReplay
<1> USE DEF IInv, TypeInv, TypeOK, UsageTypeOK
<1> DEFINE k == KeyFor(j, w.request, w.forced)
           c == CharacterOf[w.request]
<1>1. /\ ~KeyTaken(k)
      /\ request' = [request EXCEPT ![j] = w.request]
      /\ ReserveCharacterRequest(k, c)
  BY DEF FinishCreate
<1>2. ~Recorded("reserve", k)
  BY <1>1 DEF KeyTaken, LedgerOwned, Recorded
<1>3. c \in Character /\ CharacterOf[request'[j]] = c
  BY <1>1, JobAssumption DEF Creation
<1>4. AllowsAnother(c)
  BY <1>1, <1>2 DEF ReserveCharacterRequest
<1> HIDE DEF c, k
<1>5. /\ requestsUsed[month] = ReplayedRequests(month)
      /\ characterUsed[month][c] = ReplayedCharacter(month, c)
  BY <1>3 DEF LedgerInv, ProjectionIsReplay
<1>6. /\ requestsUsed[month] \in Nat /\ characterUsed[month][c] \in Nat
      /\ MaxRequests[plan] \in Limit /\ MaxCharacterUse[plan][c] \in Limit
  BY <1>3, LedgerAssumption
<1>7. /\ Cardinality(ChargedJobs(month)) \in Nat
      /\ Cardinality(ChargedJobs(month)) <= requestsUsed[month]
      /\ Cardinality({i \in ChargedJobs(month) : CharacterFor(i) = c}) \in Nat
      /\ Cardinality({i \in ChargedJobs(month) : CharacterFor(i) = c}) <= characterUsed[month][c]
  BY <1>0, <1>5
<1>8. UnderLimit(Cardinality(ChargedJobs(month)), MaxRequests[plan])
  BY <1>4, <1>6, <1>7, UnderLimitDown DEF AllowsAnother
<1>9. UnderLimit(Cardinality({i \in ChargedJobs(month) : CharacterFor(i) = c}),
                 MaxCharacterUse[plan][c])
  BY <1>4, <1>6, <1>7, UnderLimitDown DEF AllowsAnother
<1> QED BY <1>3, <1>8, <1>9 DEF CreatedWithinPlan

(* Only create_ai_job makes a row. *)
LEMMA PlanStep ==
  IInv /\ LedgerInv /\ [Next]_vars =>
    \A j \in Job : status[j] = "none" /\ status'[j] # "none" /\ OwnMonth(month)
                     => CreatedWithinPlan(j)
<1> SUFFICES ASSUME IInv, LedgerInv, [Next]_vars, NEW j \in Job,
                    status[j] = "none", status'[j] # "none", OwnMonth(month)
             PROVE  CreatedWithinPlan(j)
  OBVIOUS
<1> USE DEF IInv, TypeInv, TypeOK
<1>1. ASSUME NEW w \in creating, NEW i \in Job, FinishCreate(w, i) PROVE CreatedWithinPlan(j)
  <2>1. i = j
    BY <1>1 DEF FinishCreate
  <2> QED BY <1>1, <2>1, CreatedInPlan
<1>2. ASSUME NEW i \in Job, Live(i), NEW s, status' = [status EXCEPT ![i] = s] PROVE FALSE
  BY <1>2 DEF Live, Exists
<1>3. CASE ServiceStep
  BY <1>2, <1>3 DEF ServiceStep, UpdateJobProgress, FailJob, CompleteJob, CancelJob
<1>4. status' # status
  OBVIOUS
<1> QED BY <1>1, <1>3, <1>4
        DEF Next, CreateStep, AllowanceStep, BeginCreate, AbortCreate, jobVars, vars

(* However many callers race for the last request of a month, and whenever the
   projection is rebuilt or the plan changes, a job is created only while fewer
   than the plan's limit are in flight or completed, in total and for its
   character: in every month that no refund has crossed into
   (reserve_character_request locks the row before it compares). *)
THEOREM PlanKept == Spec => PlanHonouredInOwnMonth
BY PlanStep, LedgerInductive, PTL DEF Spec, PlanHonouredInOwnMonth

(* Within a single month no refund crosses, and both hold without a proviso. *)
OneMonthExact == [](\A m \in Month : CountersOf(m)) /\ PlanHonoured

LEMMA OneMonthIsOwn ==
  ASSUME MaxMonth = 0, IInv, NEW m \in Month
  PROVE  OwnMonth(m)
<1> SUFFICES ASSUME NEW e \in EntriesOf("refund", m)
             PROVE  \E d \in EntriesOf("reserve", m) : d.key = e.key
  BY DEF OwnMonth
<1>1. e \in ledger /\ e.operation = "refund"
  BY DEF EntriesOf
<1>2. PICK j \in Job : Exists(j) /\ e.key = Key(j)
  BY <1>1 DEF IInv, LedgerOwned
<1>3. "refund" \in Operations(Key(j))
  BY <1>1, <1>2 DEF Operations
<1>4. "reserve" \in Operations(Key(j))
  BY <1>2, <1>3 DEF IInv, CreditsFollowOutcome, SettledAs, Live, Terminal, Exists
<1>5. PICK d \in ledger : d.operation = "reserve" /\ d.key = Key(j)
  BY <1>4 DEF Operations
<1>6. d.period \in Month
  BY DEF IInv, TypeInv, TypeOK, UsageTypeOK, LedgerEntry
<1>7. Month = {0}
  BY DEF Month
<1> QED BY <1>2, <1>5, <1>6, <1>7 DEF EntriesOf

(* With one month the usage row always is the replay of the ledger and the plan
   is always honoured; refund_next_month shows that two months are too many. *)
THEOREM OneMonthCorrect ==
  ASSUME MaxMonth = 0
  PROVE  Spec => OneMonthExact
<1>1. IInv /\ LedgerInv => \A m \in Month : CountersOf(m)
  BY OneMonthIsOwn DEF LedgerInv, ProjectionIsReplay, CountersOf
<1>2. IInv /\ LedgerInv /\ [Next]_vars =>
        \A j \in Job : status[j] = "none" /\ status'[j] # "none" => CreatedWithinPlan(j)
  <2>1. IInv => OwnMonth(month)
    BY OneMonthIsOwn DEF IInv, TypeInv, TypeOK, UsageTypeOK
  <2> QED BY <2>1, PlanStep
<1> QED BY <1>1, <1>2, LedgerInductive, PTL DEF Spec, OneMonthExact, PlanHonoured
=============================================================================
