---------------------------- MODULE Work_proofs ----------------------------
(***************************************************************************)
(* Proofs about the staff's side of the platform: the support desk, the    *)
(* administration of accounts and roles, and the subscription, for any value *)
(* of their constants; and that their composition with what passes between *)
(* the platform and the AI service is typed, whichever of them a behaviour *)
(* works.                                                                  *)
(***************************************************************************)
EXTENDS MCWork, AIService_proofs, TLAPS


-----------------------------------------------------------------------------
(***************************************************************************)
(* SupportDesk, for any clerks and number of posts.                        *)
(*                                                                         *)
(* SettledWhen speaks of the ticket, and what is saved was read earlier:   *)
(* DeskInv adds that a row about to be saved says when it was settled.     *)
(* WaitingMeansAnswered is inductive as it stands: each request ends       *)
(* answered, or in one of the ways that "crossed" records.                 *)
(***************************************************************************)

(* A row that is settled says when. *)
Dated(row) == row.status \in Settled => row.resolved_at

RowsDated == \A k \in Clerk : desk[k].op \in {"close", "patch"} => Dated(desk[k].row)

DeskInv == DeskTypeOK /\ RowsDated /\ SettledWhen /\ WaitingMeansAnswered

-----------------------------------------------------------------------------
(* A ticket that was just opened. *)
LEMMA DeskInitInv == DeskInit => DeskInv
<1> SUFFICES ASSUME DeskInit PROVE DeskInv
  OBVIOUS
<1>1. DeskTypeOK
  <2>1. ticket \in Ticket
    BY DEF DeskInit, Ticket, TicketStatus
  <2>2. posts \in 0..MaxPosts
    BY DeskAssumption DEF DeskInit
  <2> QED BY <2>1, <2>2 DEF DeskInit, DeskTypeOK
<1>2. RowsDated /\ SettledWhen /\ WaitingMeansAnswered
  BY DEF DeskInit, RowsDated, SettledWhen, WaitingMeansAnswered, Vacant, Settled
<1> QED BY <1>1, <1>2 DEF DeskInv

(* A request that is begun works on a row, which is dated if it is one to save. *)
LEMMA AttendKeepsInv ==
  ASSUME DeskInv, NEW k \in Clerk, NEW op \in {"ask", "close", "reply", "patch"},
         NEW row \in Ticket, Attend(k, op, row),
         op \in {"close", "patch"} => Dated(row)
  PROVE  DeskInv'
<1> DEFINE r == [op |-> op, row |-> row]
<1>1. r \in DeskRequest /\ r.op = op /\ r.row = row
  BY DEF DeskRequest
<1>2. /\ desk[k] = Vacant /\ desk' = [desk EXCEPT ![k] = r]
      /\ UNCHANGED <<ticket, wrote_last, posts, crossed>>
  BY DEF Attend
<1>3. desk'[k] = r /\ \A j \in Clerk \ {k} : desk'[j] = desk[j]
  BY <1>2 DEF DeskInv, DeskTypeOK
<1>4. DeskTypeOK'
  BY <1>1, <1>2 DEF DeskInv, DeskTypeOK
<1>5. RowsDated'
  BY <1>1, <1>3 DEF DeskInv, RowsDated, Dated
<1>6. SettledWhen' /\ WaitingMeansAnswered'
  <2>1. \A j \in Clerk : desk[j].op = "asked" => desk'[j].op = "asked"
    BY <1>2, <1>3 DEF Vacant
  <2> QED BY <1>2, <2>1 DEF DeskInv, SettledWhen, WaitingMeansAnswered
<1> QED BY <1>4, <1>5, <1>6 DEF DeskInv

(* Each request that is begun is of that kind. *)
LEMMA DeskBeginKeepsInv ==
  ASSUME DeskInv, NEW k \in Clerk,
         BeginAskSupport(k) \/ BeginClose(k) \/ BeginReply(k) \/ BeginPatchTicket(k)
  PROVE  DeskInv'
<1>1. ticket \in Ticket
  BY DEF DeskInv, DeskTypeOK
<1>2. CASE BeginAskSupport(k) \/ BeginReply(k)
  BY <1>1, <1>2, AttendKeepsInv DEF BeginAskSupport, BeginReply
<1>3. CASE BeginClose(k)
  <2> DEFINE row == [status |-> "closed", resolved_at |-> TRUE, by_hand |-> FALSE]
  <2>1. row \in Ticket /\ Dated(row)
    BY DEF Ticket, TicketStatus, Dated
  <2> QED BY <1>3, <2>1, AttendKeepsInv DEF BeginClose
<1>4. ASSUME NEW status \in TicketStatus, Attend(k, "patch", Stamped(status)) PROVE DeskInv'
  <2> DEFINE row == Stamped(status)
  <2>1. row \in Ticket
    BY DEF Stamped, Ticket
  <2>2. Dated(row)
    BY DEF Stamped, Dated
  <2>3. Attend(k, "patch", row)
    BY <1>4
  <2> HIDE DEF row
  <2> QED BY <2>1, <2>2, <2>3, AttendKeepsInv
<1>5. ASSUME NEW at \in BOOLEAN,
             Attend(k, "patch", [ticket EXCEPT !.resolved_at = at \/ ticket.status \in Settled])
      PROVE  DeskInv'
  <2> DEFINE row == [ticket EXCEPT !.resolved_at = at \/ ticket.status \in Settled]
  <2>0. (at \/ ticket.status \in Settled) \in BOOLEAN
    BY Zenon
  <2>1. row \in Ticket /\ row.status = ticket.status
        /\ row.resolved_at = (at \/ ticket.status \in Settled)
    BY <1>1, <2>0 DEF Ticket
  <2>2. Dated(row)
    BY <2>1 DEF Dated
  <2> HIDE DEF row
  <2> QED BY <1>5, <2>1, <2>2, AttendKeepsInv DEF row
<1> QED BY <1>2, <1>3, <1>4, <1>5 DEF BeginPatchTicket

(* A message is posted: a question is about to be given its status, and with a
   reply the support wrote last. *)
LEMMA PostKeepsInv ==
  ASSUME DeskInv, NEW k \in Clerk, PostQuestion(k) \/ PostReply(k) PROVE DeskInv'
<1> DEFINE op == IF desk[k].op = "ask" THEN "asked" ELSE "replied"
           whose == IF desk[k].op = "ask" THEN "student" ELSE "support"
<1>1. Post(k, op, whose) /\ desk[k].op \in {"ask", "reply"}
  BY DEF PostQuestion, PostReply
<1>2. desk[k] \in DeskRequest /\ op \in {"asked", "replied"} /\ whose \in {"student", "support"}
  BY <1>1 DEF DeskInv, DeskTypeOK, Vacant
<1>3. /\ posts' = posts + 1 /\ posts < MaxPosts
      /\ wrote_last' = whose /\ ticket' = ticket /\ crossed' = crossed
      /\ desk'[k].op = op /\ desk'[k] \in DeskRequest
      /\ \A j \in Clerk \ {k} : desk'[j] = desk[j]
      /\ desk' \in [Clerk -> DeskRequest \cup {Vacant}]
  <2>1. desk' = [desk EXCEPT ![k] = [desk[k] EXCEPT !.op = op]]
    BY <1>1 DEF Post
  <2>2. [desk[k] EXCEPT !.op = op] \in DeskRequest
    BY <1>2 DEF DeskRequest
  <2> QED BY <1>1, <1>2, <2>1, <2>2 DEF Post, DeskInv, DeskTypeOK, DeskRequest
<1>4. DeskTypeOK'
  BY <1>2, <1>3, DeskAssumption DEF DeskInv, DeskTypeOK
<1>5. RowsDated'
  BY <1>3 DEF DeskInv, RowsDated, Dated
<1>6. SettledWhen' /\ WaitingMeansAnswered'
  BY <1>3 DEF DeskInv, SettledWhen, WaitingMeansAnswered
<1> QED BY <1>4, <1>5, <1>6 DEF DeskInv

(* The request of clerk k ends: what was true of the ticket stays true of it,
   its own question apart. *)
LEMMA LeaveKeepsInv ==
  ASSUME DeskInv, NEW k \in Clerk, desk[k] # Vacant,
         desk' = [desk EXCEPT ![k] = Vacant], wrote_last' = wrote_last,
         posts' \in 0..MaxPosts, crossed' \in BOOLEAN, crossed => crossed',
         ticket' \in Ticket, Dated(ticket'),
         \/ ticket'.status # "waiting_user" \/ wrote_last = "support" \/ ticket'.by_hand \/ crossed'
         \/ ticket.status = "waiting_user" /\ ~ticket.by_hand /\ desk[k].op # "asked"
  PROVE  DeskInv'
<1>1. desk'[k] = Vacant /\ \A j \in Clerk \ {k} : desk'[j] = desk[j]
  BY DEF DeskInv, DeskTypeOK
<1>2. DeskTypeOK' /\ SettledWhen'
  BY DEF DeskInv, DeskTypeOK, SettledWhen, Dated
<1>3. RowsDated'
  BY <1>1 DEF DeskInv, RowsDated, Dated, Vacant
<1>4. WaitingMeansAnswered'
  <2>1. CASE ticket'.status # "waiting_user" \/ wrote_last = "support" \/ ticket'.by_hand \/ crossed'
    BY <2>1 DEF WaitingMeansAnswered
  <2>2. CASE ticket.status = "waiting_user" /\ ~ticket.by_hand /\ desk[k].op # "asked"
    <3>1. \A j \in Clerk : desk[j].op = "asked" => desk'[j].op = "asked"
      BY <1>1, <2>2
    <3> QED BY <2>2, <3>1 DEF DeskInv, WaitingMeansAnswered
  <2> QED BY <2>1, <2>2
<1> QED BY <1>2, <1>3, <1>4 DEF DeskInv

(* The status is saved, or nothing but a note was written, or all is lost. *)
LEMMA FinishKeepsInv ==
  ASSUME DeskInv, NEW k \in Clerk,
         FinishAskSupport(k) \/ FinishReply(k) \/ SaveTicket(k) \/ PostNote(k) \/ LoseClerk(k)
  PROVE  DeskInv'
<1>1. /\ desk[k] # Vacant /\ desk' = [desk EXCEPT ![k] = Vacant] /\ wrote_last' = wrote_last
      /\ desk[k].row \in Ticket
  BY DEF FinishAskSupport, FinishReply, SaveTicket, PostNote, LoseClerk, Leave, Vacant,
         DeskInv, DeskTypeOK, DeskRequest
<1>2. posts' \in 0..MaxPosts /\ crossed' \in BOOLEAN /\ (crossed => crossed')
  <2>1. posts \in 0..MaxPosts /\ crossed \in BOOLEAN
    BY DEF DeskInv, DeskTypeOK
  <2>2. posts' = posts \/ (posts < MaxPosts /\ posts' = posts + 1)
    BY DEF FinishAskSupport, FinishReply, SaveTicket, PostNote, LoseClerk, Leave
  <2>3. posts' \in 0..MaxPosts
    BY <2>1, <2>2, DeskAssumption
  <2>4. crossed' \in BOOLEAN /\ (crossed => crossed')
    <3>1. CASE PostNote(k)
      BY <2>1, <3>1 DEF PostNote
    <3>2. ASSUME NEW stale, Leave(k, stale) PROVE crossed' \in BOOLEAN /\ (crossed => crossed')
      BY <3>2, Zenon DEF Leave
    <3> QED BY <3>1, <3>2 DEF FinishAskSupport, FinishReply, SaveTicket, LoseClerk
  <2> QED BY <2>3, <2>4
<1>3. ticket \in Ticket /\ Dated(ticket)
  BY DEF DeskInv, DeskTypeOK, SettledWhen, Dated
<1>4. CASE FinishReply(k)
  <2>1. ticket' = [ticket EXCEPT !.status = "waiting_user", !.by_hand = FALSE]
    BY <1>4 DEF FinishReply
  <2>2. ticket' \in Ticket /\ Dated(ticket')
    BY <1>3, <2>1 DEF Ticket, TicketStatus, Dated, Settled
  <2>3. crossed' \/ wrote_last = "support"
    BY <1>4 DEF FinishReply, Leave, DeskInv, DeskTypeOK
  <2> QED BY <1>1, <1>2, <2>2, <2>3, LeaveKeepsInv
<1>5. CASE FinishAskSupport(k) /\ desk[k].row.status = "waiting_user"
  <2>1. ticket' = [ticket EXCEPT !.status = "open", !.by_hand = FALSE]
    BY <1>5 DEF FinishAskSupport
  <2>2. ticket' \in Ticket /\ Dated(ticket') /\ ticket'.status = "open"
    BY <1>3, <2>1 DEF Ticket, TicketStatus, Dated, Settled
  <2> QED BY <1>1, <1>2, <2>2, LeaveKeepsInv
<1>6. CASE FinishAskSupport(k) /\ desk[k].row.status # "waiting_user"
  <2>1. ticket' = ticket
    BY <1>6 DEF FinishAskSupport
  <2>2. crossed' \/ ticket.status # "waiting_user"
    BY <1>6 DEF FinishAskSupport, Leave, BeganToWait
  <2> QED BY <1>1, <1>2, <1>3, <2>1, <2>2, LeaveKeepsInv
<1>7. CASE SaveTicket(k)
  <2>1. ticket' = desk[k].row /\ desk[k].op \in {"close", "patch"}
    BY <1>7 DEF SaveTicket
  <2>2. Dated(ticket')
    BY <2>1 DEF DeskInv, RowsDated
  <2>3. \/ ticket'.status # "waiting_user" \/ ticket'.by_hand \/ crossed'
        \/ ticket.status = "waiting_user" /\ ~ticket.by_hand
    BY <1>7 DEF SaveTicket, Leave, WaitsAgain
  <2> QED BY <1>1, <1>2, <2>1, <2>2, <2>3, LeaveKeepsInv
<1>8. CASE PostNote(k) \/ LoseClerk(k)
  <2>1. ticket' = ticket /\ (crossed' \/ desk[k].op # "asked")
    BY <1>8 DEF PostNote, LoseClerk, Leave
  <2>2. ticket.status # "waiting_user" \/ ticket.by_hand \/ ~ticket.by_hand
    OBVIOUS
  <2> QED BY <1>1, <1>2, <1>3, <2>1, <2>2, LeaveKeepsInv
<1> QED BY <1>4, <1>5, <1>6, <1>7, <1>8

(* Every step at the desk keeps the invariant. *)
THEOREM DeskInvariance == DeskSpec => []DeskInv
<1>1. DeskInv /\ [DeskNext]_deskVars => DeskInv'
  <2> SUFFICES ASSUME DeskInv, [DeskNext]_deskVars PROVE DeskInv'
    OBVIOUS
  <2>1. CASE UNCHANGED deskVars
    BY <2>1 DEF deskVars, DeskInv, DeskTypeOK, RowsDated, Dated,
                SettledWhen, WaitingMeansAnswered
  <2>2. CASE DeskNext
    BY <2>2, DeskBeginKeepsInv, PostKeepsInv, FinishKeepsInv DEF DeskNext, StudentRequest, StaffRequest
  <2> QED BY <2>1, <2>2
<1> QED BY <1>1, DeskInitInv, PTL DEF DeskSpec

-----------------------------------------------------------------------------
(* Every variable keeps its type. *)
THEOREM DeskTypeCorrect == DeskSpec => []DeskTypeOK
<1>1. DeskInv => DeskTypeOK
  BY DEF DeskInv
<1> QED BY <1>1, DeskInvariance, PTL

(* However requests overlap or are lost half way, a settled ticket says when it
   was settled, and one that waits for the student without having been told to
   was answered last by the support, unless a request ended in one of the four
   ways that "crossed" records: support/views.py:38-57, support/admin_api.py. *)
THEOREM DeskStaysInStep == DeskSpec => []DeskInStep
<1>1. DeskInv => DeskInStep
  BY DEF DeskInv, DeskInStep
<1> QED BY <1>1, DeskInvariance, PTL

-----------------------------------------------------------------------------
(***************************************************************************)
(* Administration, for any accounts, roles and requests.                   *)
(*                                                                         *)
(* Super admins are recognised by the code of a role, so AdminInv says     *)
(* which roles may have it (CodesKnown), and what holds as long as the one *)
(* seeded with it has kept it (Kept).                                      *)
(*                                                                         *)
(* A request writes what was allowed when it was checked.  AdminInv adds what *)
(* the check established (ErrandSound): a row that makes a super admin is  *)
(* carried by one, or by someone it was granted to before, and a deletion was *)
(* written to the log before the account goes; and, unless deletions ran   *)
(* unguarded, that one is open at most and leaves a super admin.           *)
(***************************************************************************)

(* The role that was seeded with the code super_admin has always had it. *)
Kept == HasSuperCode(SuperRole) /\ SuperRole \notin recoded

(* Another role that has the code took it. *)
CodesKnown == \A r \in Role : HasSuperCode(r) => r = SuperRole \/ r \in recoded

(* What the tables know: whoever is marked a super admin, or has the role that
   kept its code, was granted it. *)
GrantsKnown ==
  \A u \in Account :
    /\ account[u] # NoAccount /\ account[u].super => u \in granted
    /\ Kept /\ SuperRole \in assigned[u] => u \in granted

(* What an open request will write was allowed when it was checked. *)
ErrandSound(e) ==
  /\ e.op = "save" => e.row.alive /\ (e.row.super => e.bysuper \/ e.target \in granted)
  /\ e.op \in {"replace", "add"} => (Kept /\ SuperRole \in e.roles => e.bysuper)
  /\ e.op = "delete" => account[e.target] # NoAccount /\ (unlogged \/ e.target \in audited)

(* One deletion at a time, and someone stays. *)
Guarded ==
  /\ Supers # {}
  /\ \A u \in Deleting : Supers \ {errand[u].target} # {}
  /\ \A u, v \in Deleting : u = v

AdminInv ==
  /\ AdminTypeOK
  /\ GrantsKnown /\ CodesKnown
  /\ \A u \in Account : ErrandSound(errand[u])
  /\ unguarded \/ Guarded
  /\ DeletionsLogged

-----------------------------------------------------------------------------
(* No row and no request are values of their own. *)
LEMMA AdminRows ==
  /\ NoAccount.alive = FALSE /\ NoAccount \notin AccountRow
  /\ Idle.op = "idle" /\ Idle \notin Errand
  /\ \A e \in Errand : e.op \in {"save", "delete", "replace", "add", "role"}
<1>1. NoAccount \notin AccountRow
  <2>1. \A row \in AccountRow : DOMAIN row = {"alive", "active", "super"}
    BY DEF AccountRow
  <2>2. DOMAIN NoAccount = {"alive"}
    BY DEF NoAccount
  <2> QED BY <2>1, <2>2
<1>2. \A e \in Errand : e.op \in {"save", "delete", "replace", "add", "role"}
  BY DEF Errand
<1> QED BY <1>1, <1>2 DEF NoAccount, Idle

LEMMA AdminInitInv == AdminInit => AdminInv
<1> SUFFICES ASSUME AdminInit PROVE AdminInv
  OBVIOUS
<1> DEFINE first == [alive |-> TRUE, active |-> TRUE, super |-> TRUE]
<1>1. first \in AccountRow /\ first.alive /\ first.active /\ first.super
  BY DEF AccountRow
<1>2. account[Founder] = first /\ \A u \in Account \ {Founder} : account[u] = NoAccount
  BY AdministrationAssumption DEF AdminInit
<1>3. AdminTypeOK
  <2>1. account \in [Account -> AccountRow \cup {NoAccount}]
    BY <1>1 DEF AdminInit
  <2>2. role \in [Role -> RoleRow \cup {NoRole}]
    <3>1. ASSUME NEW r \in Role
          PROVE  [active |-> TRUE, perms |-> Seeded[r],
                  code |-> IF r = SuperRole THEN "super_admin" ELSE "other"] \in RoleRow
      BY AdministrationAssumption DEF RoleRow, Code
    <3> QED BY <3>1 DEF AdminInit
  <2>3. assigned \in [Account -> SUBSET Role] /\ granted \subseteq Account
    BY AdministrationAssumption DEF AdminInit
  <2>4. begun \in 0..MaxRequests
    BY AdministrationAssumption DEF AdminInit
  <2> QED BY <2>1, <2>2, <2>3, <2>4 DEF AdminInit, AdminTypeOK
<1>4. GrantsKnown /\ CodesKnown
  <2>1. GrantsKnown
    BY <1>2 DEF AdminInit, GrantsKnown
  <2>2. CodesKnown
    BY DEF AdminInit, CodesKnown, HasSuperCode
  <2> QED BY <2>1, <2>2
<1>5. Guarded
  <2>1. IsSuper(Founder)
    BY <1>1, <1>2 DEF IsSuper, Enabled
  <2>2. Deleting = {}
    BY DEF AdminInit, Deleting, Idle
  <2> QED BY <2>1, <2>2, AdministrationAssumption DEF Guarded, Supers
<1>6. DeletionsLogged
  BY <1>1, <1>2, AdminRows DEF DeletionsLogged
<1>7. \A u \in Account : ErrandSound(errand[u])
  BY DEF AdminInit, ErrandSound, Idle
<1> QED BY <1>3, <1>4, <1>5, <1>6, <1>7 DEF AdminInv

(* A step that changes neither the roles nor what is known of their codes. *)
LEMMA SameCodes ==
  ASSUME AdminInv, UNCHANGED <<role, recoded>> PROVE Kept' = Kept /\ CodesKnown'
BY DEF AdminInv, Kept, CodesKnown, HasSuperCode

(* A step that begins or ends no deletion, and loses super admins only on the
   record. *)
LEMMA OtherKeepsInv ==
  ASSUME AdminInv, AdminTypeOK', GrantsKnown', DeletionsLogged', CodesKnown', Kept' => Kept,
         granted \subseteq granted', UNCHANGED <<audited, unlogged>>,
         unguarded => unguarded', unguarded' \/ Supers \subseteq Supers',
         \A u \in Account : account[u] # NoAccount => account'[u] # NoAccount,
         \A u \in Account :
           \/ errand'[u] = errand[u]
           \/ ErrandSound(errand[u])' /\ errand'[u].op # "delete"
  PROVE  AdminInv'
<1>1. ASSUME NEW u \in Account PROVE ErrandSound(errand[u])'
  <2> SUFFICES ASSUME errand'[u] = errand[u] PROVE ErrandSound(errand[u])'
    OBVIOUS
  <2>1. ErrandSound(errand[u])
    BY DEF AdminInv
  <2>2. errand[u].op = "delete" => errand[u].target \in Account
    BY AdminRows DEF AdminInv, AdminTypeOK, Errand
  <2> QED BY <2>1, <2>2 DEF ErrandSound
<1>2. unguarded' \/ Guarded'
  <2> SUFFICES ASSUME ~unguarded' PROVE Guarded'
    OBVIOUS
  <2>1. Guarded /\ Supers \subseteq Supers'
    BY DEF AdminInv
  <2>2. \A u \in Deleting' : u \in Deleting /\ errand'[u] = errand[u]
    BY DEF Deleting
  <2> QED BY <2>1, <2>2 DEF Guarded
<1> QED BY <1>1, <1>2 DEF AdminInv
(* A request is begun, or ends without a trace. *)
LEMMA ErrandKeepsInv ==
  ASSUME AdminInv, NEW u \in Account, NEW e \in Errand \cup {Idle},
         errand' = [errand EXCEPT ![u] = e], ErrandSound(e), e.op # "delete",
         begun' \in 0..MaxRequests, UNCHANGED <<rbac, adminHistory>>
  PROVE  AdminInv'
<1>1. UNCHANGED <<account, role, assigned, granted, recoded, unguarded, audited, unlogged>>
  BY DEF rbac, adminHistory
<1>0. Kept' = Kept /\ CodesKnown'
  BY <1>1, SameCodes
<1>2. AdminTypeOK' /\ GrantsKnown' /\ DeletionsLogged'
  BY <1>0, <1>1 DEF AdminInv, AdminTypeOK, GrantsKnown, DeletionsLogged
<1>3. Supers' = Supers
  BY <1>1 DEF Supers, IsSuper, Enabled, ActiveRoles, HasSuperCode
<1>4. ASSUME NEW v \in Account
      PROVE  \/ errand'[v] = errand[v]
             \/ ErrandSound(errand[v])' /\ errand'[v].op # "delete"
  <2> SUFFICES ASSUME errand'[v] # errand[v]
               PROVE  ErrandSound(errand[v])' /\ errand'[v].op # "delete"
    OBVIOUS
  <2>1. errand'[v] = e
    BY DEF AdminInv, AdminTypeOK
  <2>2. ErrandSound(e)'
    BY <1>0, <1>1 DEF ErrandSound
  <2> QED BY <2>1, <2>2 DEF ErrandSound
<1> QED BY <1>0, <1>1, <1>2, <1>3, <1>4, OtherKeepsInv

(* What is begun was checked: nobody marks a super admin who was not granted
   it, and nobody but a super admin gives the role. *)
LEMMA AdminBeginKeepsInv ==
  ASSUME AdminInv, NEW u \in Account, NEW t \in Account,
         \/ \E b, mark \in BOOLEAN : BeginUpdateAdmin(u, t, b, mark)
         \/ \E b \in BOOLEAN : BeginUpdateUser(u, t, b)
         \/ BeginUpdateMe(u)
         \/ \E R \in SUBSET Role : BeginAssignRoles(u, t, R)
         \/ \E r \in Role, b \in BOOLEAN, P \in Grants, code \in Code :
              BeginUpdateRole(u, r, b, P, code)
  PROVE  AdminInv'
<1>1. begun' \in 0..MaxRequests /\ UNCHANGED <<rbac, adminHistory>>
  <2>1. begun < MaxRequests /\ begun' = begun + 1 /\ UNCHANGED <<rbac, adminHistory>>
    BY DEF BeginUpdateAdmin, BeginUpdateUser, BeginUpdateMe, BeginAssignRoles, BeginUpdateRole,
           Undertake
  <2> QED BY <2>1, AdministrationAssumption DEF AdminInv, AdminTypeOK
<1>2. ASSUME NEW v \in Account, account[v].alive
      PROVE  account[v] \in AccountRow /\ (account[v].super => v \in granted)
  BY <1>2, AdminRows DEF AdminInv, AdminTypeOK, GrantsKnown
<1>3. IsSuper(u) \in BOOLEAN
  BY DEF IsSuper, Enabled
<1>4. ASSUME NEW b \in BOOLEAN, NEW mark \in BOOLEAN, BeginUpdateAdmin(u, t, b, mark)
      PROVE  AdminInv'
  <2> DEFINE row == [account[t] EXCEPT !.active = b, !.super = mark]
             e == [op |-> "save", target |-> t, bysuper |-> IsSuper(u), row |-> row]
  <2>1. account[t] \in AccountRow /\ (account[t].super => t \in granted)
    BY <1>2, <1>4 DEF BeginUpdateAdmin
  <2>2. row \in AccountRow /\ row.alive /\ row.super = mark
    BY <1>4, <2>1 DEF AccountRow, BeginUpdateAdmin
  <2>3. mark # account[t].super => IsSuper(u)
    BY <1>4 DEF BeginUpdateAdmin
  <2>4. errand' = [errand EXCEPT ![u] = e]
    BY <1>4 DEF BeginUpdateAdmin, Undertake
  <2> HIDE DEF row
  <2>5. e \in Errand
    BY <1>3, <2>2 DEF Errand
  <2>6. ErrandSound(e)
    BY <1>3, <2>1, <2>2, <2>3 DEF ErrandSound
  <2> QED BY <1>1, <2>4, <2>5, <2>6, ErrandKeepsInv
<1>5. ASSUME NEW b \in BOOLEAN, BeginUpdateUser(u, t, b) PROVE AdminInv'
  <2> DEFINE row == [account[t] EXCEPT !.active = b]
             e == [op |-> "save", target |-> t, bysuper |-> IsSuper(u), row |-> row]
  <2>1. account[t] \in AccountRow /\ (account[t].super => t \in granted)
    BY <1>2, <1>5 DEF BeginUpdateUser
  <2>2. row \in AccountRow /\ row.alive /\ row.super = account[t].super
    BY <1>5, <2>1 DEF AccountRow, BeginUpdateUser
  <2>4. errand' = [errand EXCEPT ![u] = e]
    BY <1>5 DEF BeginUpdateUser, Undertake
  <2> HIDE DEF row
  <2>5. e \in Errand
    BY <1>3, <2>2 DEF Errand
  <2>6. ErrandSound(e)
    BY <1>3, <2>1, <2>2 DEF ErrandSound
  <2> QED BY <1>1, <2>4, <2>5, <2>6, ErrandKeepsInv
<1>6. CASE BeginUpdateMe(u)
  <2> DEFINE e == [op |-> "save", target |-> u, row |-> account[u], bysuper |-> FALSE]
  <2>1. account[u] \in AccountRow /\ account[u].alive /\ (account[u].super => u \in granted)
    BY <1>2, <1>6 DEF BeginUpdateMe, Enabled
  <2>2. errand' = [errand EXCEPT ![u] = e]
    BY <1>6 DEF BeginUpdateMe
  <2>3. e \in Errand /\ ErrandSound(e)
    BY <2>1 DEF Errand, ErrandSound
  <2> QED BY <1>1, <2>2, <2>3, ErrandKeepsInv
<1>7. ASSUME NEW R \in SUBSET Role, BeginAssignRoles(u, t, R) PROVE AdminInv'
  <2> DEFINE e == [op |-> "replace", target |-> t, roles |-> R, bysuper |-> IsSuper(u)]
  <2>1. Kept /\ SuperRole \in R => IsSuper(u)
    BY <1>7 DEF BeginAssignRoles, MayAssign, Kept
  <2>2. errand' = [errand EXCEPT ![u] = e]
    BY <1>7 DEF BeginAssignRoles, Undertake
  <2>3. e \in Errand
    BY <1>3 DEF Errand
  <2>4. ErrandSound(e)
    BY <2>1 DEF ErrandSound
  <2> QED BY <1>1, <2>2, <2>3, <2>4, ErrandKeepsInv
<1>8. ASSUME NEW r \in Role, NEW b \in BOOLEAN, NEW P \in Grants, NEW code \in Code,
             BeginUpdateRole(u, r, b, P, code)
      PROVE  AdminInv'
  <2> DEFINE e == [op |-> "role", role |-> r,
                   row |-> [active |-> b, perms |-> P, code |-> code]]
  <2>1. errand' = [errand EXCEPT ![u] = e]
    BY <1>8 DEF BeginUpdateRole, Undertake
  <2>2. e \in Errand /\ ErrandSound(e)
    BY AdministrationAssumption DEF Errand, RoleRow, ErrandSound
  <2> QED BY <1>1, <2>1, <2>2, ErrandKeepsInv
<1> QED BY <1>4, <1>5, <1>6, <1>7, <1>8

LEMMA LoseErrandKeepsInv ==
  ASSUME AdminInv, NEW u \in Account, LoseErrand(u) PROVE AdminInv'
<1>1. errand' = [errand EXCEPT ![u] = Idle] /\ begun' \in 0..MaxRequests
      /\ UNCHANGED <<rbac, adminHistory>>
  BY DEF LoseErrand, Done, AdminInv, AdminTypeOK
<1>2. ErrandSound(Idle) /\ Idle.op # "delete"
  BY DEF ErrandSound, Idle
<1> QED BY <1>1, <1>2, ErrandKeepsInv

(* A row is saved as it was checked: the account lives, and is marked a super
   admin if it was or if a super admin asked for it. *)
LEMMA FinishSaveKeepsInv ==
  ASSUME AdminInv, NEW u \in Account, FinishSave(u) PROVE AdminInv'
<1> DEFINE e == errand[u]
<1>1. e \in Errand /\ e.op = "save" /\ ErrandSound(e)
  BY AdminRows DEF AdminInv, AdminTypeOK, FinishSave
<1>2. e.target \in Account /\ e.row \in AccountRow /\ e.bysuper \in BOOLEAN
  BY <1>1 DEF Errand
<1>3. e.row.alive /\ (e.row.super => e.bysuper \/ e.target \in granted)
  BY <1>1 DEF ErrandSound
<1>4. /\ account'[e.target] = e.row
      /\ \A t \in Account \ {e.target} : account'[t] = account[t]
      /\ errand'[u] = Idle /\ \A v \in Account \ {u} : errand'[v] = errand[v]
  BY <1>2 DEF FinishSave, Done, AdminInv, AdminTypeOK
<1>5. /\ granted \subseteq granted' /\ granted' \subseteq granted \cup {e.target}
      /\ e.row.super => e.target \in granted'
      /\ UNCHANGED <<role, assigned, recoded, begun, audited, unlogged>> /\ Loosened
  BY <1>3 DEF FinishSave, Done
<1>0. Kept' = Kept /\ CodesKnown'
  BY <1>5, SameCodes
<1>6. AdminTypeOK'
  <2>1. account' \in [Account -> AccountRow \cup {NoAccount}]
    BY <1>2 DEF FinishSave, AdminInv, AdminTypeOK
  <2>2. errand' \in [Account -> Errand \cup {Idle}]
    BY DEF FinishSave, Done, AdminInv, AdminTypeOK
  <2> QED BY <1>2, <1>5, <2>1, <2>2 DEF AdminInv, AdminTypeOK, Loosened
<1>7. GrantsKnown'
  BY <1>0, <1>2, <1>4, <1>5 DEF GrantsKnown, AdminInv
<1>8. DeletionsLogged'
  BY <1>3, <1>4, <1>5 DEF DeletionsLogged, AdminInv
<1>9. \A t \in Account : account[t] # NoAccount => account'[t] # NoAccount
  BY <1>2, <1>4, AdminRows
<1>10. \A v \in Account :
         \/ errand'[v] = errand[v]
         \/ ErrandSound(errand[v])' /\ errand'[v].op # "delete"
  BY <1>4 DEF ErrandSound, Idle
<1> QED BY <1>0, <1>5, <1>6, <1>7, <1>8, <1>9, <1>10, OtherKeepsInv DEF Loosened

(* Whoever is suspended or activated is marked as before. *)
LEMMA SetActiveKeepsInv ==
  ASSUME AdminInv, NEW u \in Account, NEW t \in Account, NEW b \in BOOLEAN, SetActive(u, t, b)
  PROVE  AdminInv'
<1>1. account[t] \in AccountRow /\ account[t].alive
  BY AdminRows DEF SetActive, AdminInv, AdminTypeOK
<1> DEFINE row == [account[t] EXCEPT !.active = b]
<1>2. row \in AccountRow /\ row.alive /\ row.super = account[t].super
  BY <1>1 DEF AccountRow
<1>3. account' = [account EXCEPT ![t] = row]
  BY DEF SetActive
<1> HIDE DEF row
<1>4. account'[t] = row /\ \A v \in Account \ {t} : account'[v] = account[v]
  BY <1>3 DEF AdminInv, AdminTypeOK
<1>5. /\ UNCHANGED <<role, assigned, granted, recoded, audited, unlogged>> /\ Loosened
      /\ begun < MaxRequests /\ begun' = begun + 1
      /\ errand' = [errand EXCEPT ![u] = Idle] /\ errand[u] = Idle
  BY DEF SetActive, Undertake
<1>0. Kept' = Kept /\ CodesKnown'
  BY <1>5, SameCodes
<1>6. errand' = errand
  BY <1>5 DEF AdminInv, AdminTypeOK
<1>7. AdminTypeOK'
  <2>1. begun' \in 0..MaxRequests
    BY <1>5, AdministrationAssumption DEF AdminInv, AdminTypeOK
  <2>2. account' \in [Account -> AccountRow \cup {NoAccount}]
    BY <1>2, <1>3 DEF AdminInv, AdminTypeOK
  <2> QED BY <1>5, <1>6, <2>1, <2>2 DEF AdminInv, AdminTypeOK, Loosened
<1>8. GrantsKnown'
  BY <1>0, <1>1, <1>2, <1>4, <1>5, AdminRows DEF GrantsKnown, AdminInv
<1>9. DeletionsLogged'
  BY <1>2, <1>4, <1>5 DEF DeletionsLogged, AdminInv
<1>10. \A v \in Account : account[v] # NoAccount => account'[v] # NoAccount
  BY <1>2, <1>4, AdminRows
<1> QED BY <1>0, <1>5, <1>6, <1>7, <1>8, <1>9, <1>10, OtherKeepsInv DEF Loosened

(* No account loses its enabled super admin by a step that keeps its row, the
   roles it has and whether these are active. *)
LEMMA SupersGrow ==
  ASSUME \A v \in Account : Enabled(v) => account'[v] = account[v],
         \A v \in Account, r \in Role :
           r \in ActiveRoles(v) /\ HasSuperCode(r) => (r \in ActiveRoles(v) /\ HasSuperCode(r))',
         \A v \in Account : ActiveRoles(v) \subseteq Role
  PROVE  Supers \subseteq Supers'
BY DEF Supers, IsSuper, Enabled

(* The account is new, and its mark was asked for by a super admin. *)
LEMMA CreateAdminKeepsInv ==
  ASSUME AdminInv, NEW u \in Account, NEW t \in Account, NEW R \in SUBSET Role,
         NEW mark \in BOOLEAN, CreateAdmin(u, t, R, mark)
  PROVE  AdminInv'
<1>2. PICK by \in BOOLEAN : by = IsSuper(u)
  BY DEF IsSuper, Enabled
<1> DEFINE row == [alive |-> TRUE, active |-> TRUE, super |-> mark]
           e == [op |-> "replace", target |-> t, roles |-> R, bysuper |-> by]
<1>1. row \in AccountRow /\ row.alive /\ row.super = mark
  BY DEF AccountRow
<1>3. e \in Errand /\ e.op = "replace"
  BY DEF Errand
<1>4. Kept /\ SuperRole \in R => by
  BY <1>2 DEF CreateAdmin, MayAssign, Kept
<1>5. /\ account[t] = NoAccount
      /\ account' = [account EXCEPT ![t] = row] /\ errand' = [errand EXCEPT ![u] = e]
      /\ begun < MaxRequests /\ begun' = begun + 1
      /\ granted' = IF mark THEN granted \cup {t} ELSE granted
      /\ UNCHANGED <<role, assigned, recoded, unguarded, audited, unlogged>>
  BY <1>2 DEF CreateAdmin, Undertake
<1>0. Kept' = Kept /\ CodesKnown'
  BY <1>5, SameCodes
<1>6. ErrandSound(e)'
  BY <1>0, <1>4 DEF ErrandSound
<1> HIDE DEF row, e
<1>7. /\ account'[t] = row /\ \A v \in Account \ {t} : account'[v] = account[v]
      /\ \A v \in Account : errand'[v] = errand[v] \/ errand'[v] = e
  BY <1>5 DEF AdminInv, AdminTypeOK
<1>8. AdminTypeOK'
  <2>1. begun' \in 0..MaxRequests
    BY <1>5, AdministrationAssumption DEF AdminInv, AdminTypeOK
  <2>2. account' \in [Account -> AccountRow \cup {NoAccount}]
    BY <1>1, <1>5 DEF AdminInv, AdminTypeOK
  <2>3. errand' \in [Account -> Errand \cup {Idle}]
    BY <1>3, <1>5 DEF AdminInv, AdminTypeOK
  <2> QED BY <1>5, <2>1, <2>2, <2>3 DEF AdminInv, AdminTypeOK
<1>9. GrantsKnown'
  BY <1>0, <1>1, <1>5, <1>7 DEF GrantsKnown, AdminInv
<1>10. DeletionsLogged'
  BY <1>1, <1>5, <1>7 DEF DeletionsLogged, AdminInv
<1>11. Supers \subseteq Supers'
  <2>1. ~Enabled(t)
    BY <1>5, AdminRows DEF Enabled
  <2>2. \A v \in Account : ActiveRoles(v)' = ActiveRoles(v) /\ ActiveRoles(v) \subseteq Role
    BY <1>5 DEF ActiveRoles, AdminInv, AdminTypeOK
  <2>3. \A r \in Role : HasSuperCode(r)' = HasSuperCode(r)
    BY <1>5 DEF HasSuperCode
  <2> QED BY <1>7, <2>1, <2>2, <2>3, SupersGrow
<1>12. \A v \in Account :
         \/ errand'[v] = errand[v]
         \/ ErrandSound(errand[v])' /\ errand'[v].op # "delete"
  BY <1>3, <1>6, <1>7 DEF ErrandSound
<1>13. \A v \in Account : account[v] # NoAccount => account'[v] # NoAccount
  BY <1>1, <1>5, <1>7, AdminRows
<1> QED BY <1>0, <1>5, <1>8, <1>9, <1>10, <1>11, <1>12, <1>13, OtherKeepsInv

-----------------------------------------------------------------------------
(* A step that changes no account. *)
LEMMA RolesKeepInv ==
  ASSUME AdminInv, AdminTypeOK', granted \subseteq granted', CodesKnown', Kept' => Kept,
         UNCHANGED <<account, audited, unlogged>>,
         unguarded => unguarded', unguarded' \/ Supers \subseteq Supers',
         \A v \in Account : Kept' /\ SuperRole \in assigned'[v] => v \in granted',
         \A v \in Account :
           \/ errand'[v] = errand[v]
           \/ ErrandSound(errand[v])' /\ errand'[v].op # "delete"
  PROVE  AdminInv'
<1>1. GrantsKnown' /\ DeletionsLogged'
  BY DEF AdminInv, GrantsKnown, DeletionsLogged
<1> QED BY <1>1, OtherKeepsInv

(* Roles end: nobody gains one. *)
LEMMA EndRolesKeepsInv ==
  ASSUME AdminInv, NEW u \in Account, EndOtherRoles(u) PROVE AdminInv'
<1> DEFINE e == errand[u]
           f == [e EXCEPT !.op = "add"]
<1>1. e \in Errand /\ e.op = "replace" /\ ErrandSound(e)
  BY AdminRows DEF AdminInv, AdminTypeOK, EndOtherRoles
<1>2. e \in [op : {"replace", "add"}, target : Account, roles : SUBSET Role, bysuper : BOOLEAN]
  BY <1>1 DEF Errand
<1>3. f \in Errand /\ f.op = "add" /\ f.roles = e.roles /\ f.bysuper = e.bysuper
  BY <1>2 DEF Errand
<1>4. /\ assigned' = [assigned EXCEPT ![e.target] = @ \cap e.roles]
      /\ errand' = [errand EXCEPT ![u] = f]
      /\ UNCHANGED <<account, role, begun, granted, recoded, audited, unlogged>> /\ Loosened
  BY DEF EndOtherRoles
<1>0. Kept' = Kept /\ CodesKnown'
  BY <1>4, SameCodes
<1> HIDE DEF f
<1>5. errand'[u] = f /\ \A v \in Account \ {u} : errand'[v] = errand[v]
  BY <1>4 DEF AdminInv, AdminTypeOK
<1>6. AdminTypeOK'
  BY <1>2, <1>3, <1>4 DEF AdminInv, AdminTypeOK, Loosened
<1>7. \A v \in Account : Kept' /\ SuperRole \in assigned'[v] => v \in granted'
  BY <1>0, <1>2, <1>4 DEF AdminInv, AdminTypeOK, GrantsKnown
<1>8. ErrandSound(errand[u])'
  BY <1>0, <1>1, <1>3, <1>5 DEF ErrandSound
<1> QED BY <1>0, <1>3, <1>4, <1>5, <1>6, <1>7, <1>8, RolesKeepInv DEF Loosened

(* A role starts: the role super_admin only by a super admin, who grants it. *)
LEMMA StartRoleKeepsInv ==
  ASSUME AdminInv, NEW u \in Account, NEW r \in Role, StartRole(u, r) PROVE AdminInv'
<1> DEFINE e == errand[u]
           f == IF e.roles = {r} THEN Idle ELSE [e EXCEPT !.roles = @ \ {r}]
<1>1. e \in Errand /\ e.op = "add" /\ ErrandSound(e) /\ r \in e.roles
  BY AdminRows DEF AdminInv, AdminTypeOK, StartRole
<1>2. e \in [op : {"replace", "add"}, target : Account, roles : SUBSET Role, bysuper : BOOLEAN]
  BY <1>1 DEF Errand
<1>3. Kept /\ SuperRole \in e.roles => e.bysuper
  BY <1>1 DEF ErrandSound
<1>4. /\ f \in Errand \cup {Idle} /\ f.op \in {"add", "idle"}
      /\ f.op = "add" => f.roles \subseteq e.roles /\ f.bysuper = e.bysuper
  BY <1>1, <1>2, AdminRows DEF Errand
<1>5. /\ UNCHANGED <<account, role, begun, recoded, unguarded, audited, unlogged>>
      /\ \/ errand' = [errand EXCEPT ![u] = Idle] /\ UNCHANGED <<assigned, granted>>
         \/ /\ errand' = [errand EXCEPT ![u] = f]
            /\ assigned' = [assigned EXCEPT ![e.target] = @ \cup {r}]
            /\ granted' = IF HasSuperCode(r) /\ e.bysuper THEN granted \cup {e.target} ELSE granted
  BY DEF StartRole
<1>0. Kept' = Kept /\ CodesKnown'
  BY <1>5, SameCodes
<1> HIDE DEF f
<1>6. /\ errand'[u] \in {Idle, f} /\ \A v \in Account \ {u} : errand'[v] = errand[v]
      /\ errand' \in [Account -> Errand \cup {Idle}]
  BY <1>4, <1>5 DEF AdminInv, AdminTypeOK
<1>7. /\ assigned' \in [Account -> SUBSET Role]
      /\ granted \subseteq granted' /\ granted' \subseteq Account
      /\ \A v \in Account : assigned[v] \subseteq assigned'[v]
  BY <1>2, <1>5 DEF AdminInv, AdminTypeOK
<1>8. AdminTypeOK'
  BY <1>5, <1>6, <1>7 DEF AdminInv, AdminTypeOK
<1>9. \A v \in Account : Kept' /\ SuperRole \in assigned'[v] => v \in granted'
  <2>1. Kept => HasSuperCode(SuperRole)
    BY DEF Kept
  <2> QED BY <1>0, <1>1, <1>2, <1>3, <1>5, <2>1 DEF AdminInv, AdminTypeOK, GrantsKnown
<1>10. ErrandSound(errand[u])' /\ errand'[u].op # "delete"
  BY <1>0, <1>3, <1>4, <1>6, AdminRows DEF ErrandSound
<1>11. Supers \subseteq Supers'
  <2>1. \A v \in Account : ActiveRoles(v) \subseteq ActiveRoles(v)' /\ ActiveRoles(v) \subseteq Role
    BY <1>5, <1>7 DEF ActiveRoles, AdminInv, AdminTypeOK
  <2>2. \A q \in Role : HasSuperCode(q)' = HasSuperCode(q)
    BY <1>5 DEF HasSuperCode
  <2> QED BY <1>5, <2>1, <2>2, SupersGrow
<1> QED BY <1>0, <1>5, <1>6, <1>7, <1>8, <1>9, <1>10, <1>11, RolesKeepInv

(* A role is saved: the code it takes is on the record. *)
LEMMA SaveRoleCodes ==
  ASSUME AdminInv, NEW r \in Role, NEW row \in RoleRow, SaveRole(r, row)
  PROVE  /\ role' \in [Role -> RoleRow \cup {NoRole}] /\ recoded' \subseteq Role
         /\ CodesKnown' /\ (Kept' => Kept)
<1>1. /\ role' \in [Role -> RoleRow \cup {NoRole}] /\ recoded' \subseteq Role
      /\ role'[r] = row /\ \A q \in Role \ {r} : role'[q] = role[q]
      /\ recoded \subseteq recoded'
      /\ row.code = "super_admin" /\ ~HasSuperCode(r) => r \in recoded'
  BY DEF SaveRole, AdminInv, AdminTypeOK
<1>2. CodesKnown'
  <2> SUFFICES ASSUME NEW q \in Role, role'[q].code = "super_admin" PROVE q = SuperRole \/ q \in recoded'
    BY DEF CodesKnown, HasSuperCode
  <2>1. CASE HasSuperCode(q)
    BY <1>1, <2>1 DEF AdminInv, CodesKnown
  <2>2. CASE ~HasSuperCode(q)
    BY <1>1, <2>2 DEF HasSuperCode
  <2> QED BY <2>1, <2>2
<1>3. Kept' => Kept
  BY <1>1, AdministrationAssumption DEF Kept, HasSuperCode
<1> QED BY <1>1, <1>2, <1>3

LEMMA FinishRoleKeepsInv ==
  ASSUME AdminInv, NEW u \in Account, FinishUpdateRole(u) PROVE AdminInv'
<1> DEFINE e == errand[u]
<1>1. e \in Errand /\ e.op = "role"
  BY AdminRows DEF AdminInv, AdminTypeOK, FinishUpdateRole
<1>2. e.role \in Role /\ e.row \in RoleRow
  BY <1>1 DEF Errand
<1>3. /\ SaveRole(e.role, e.row) \/ UNCHANGED <<role, recoded>>
      /\ errand' = [errand EXCEPT ![u] = Idle]
      /\ UNCHANGED <<account, assigned, begun, granted, audited, unlogged>> /\ Loosened
  BY DEF FinishUpdateRole, Done
<1>4. /\ role' \in [Role -> RoleRow \cup {NoRole}] /\ recoded' \subseteq Role
      /\ CodesKnown' /\ (Kept' => Kept)
  <2>1. CASE SaveRole(e.role, e.row)
    BY <1>2, <2>1, SaveRoleCodes
  <2>2. CASE UNCHANGED <<role, recoded>>
    <3>1. role \in [Role -> RoleRow \cup {NoRole}] /\ recoded \subseteq Role
      BY DEF AdminInv, AdminTypeOK
    <3> QED BY <2>2, <3>1, SameCodes
  <2> QED BY <1>3, <2>1, <2>2
<1>5. AdminTypeOK'
  BY <1>3, <1>4 DEF AdminInv, AdminTypeOK, Loosened
<1>6. \A v \in Account :
        \/ errand'[v] = errand[v]
        \/ ErrandSound(errand[v])' /\ errand'[v].op # "delete"
  BY <1>3, AdminRows DEF AdminInv, AdminTypeOK, ErrandSound
<1>7. \A v \in Account : Kept' /\ SuperRole \in assigned'[v] => v \in granted'
  BY <1>3, <1>4 DEF AdminInv, GrantsKnown
<1> QED BY <1>3, <1>4, <1>5, <1>6, <1>7, RolesKeepInv DEF Loosened

(* A role is created, or deleted with its assignments; a role with the code
   super_admin stays with whoever has it. *)
LEMMA CreateDeleteRoleKeepsInv ==
  ASSUME AdminInv, NEW u \in Account, NEW r \in Role,
         (\E P \in Grants, code \in Code : CreateRole(u, r, P, code)) \/ DeleteRole(u, r)
  PROVE  AdminInv'
<1>1. /\ errand[u] = Idle /\ errand' = [errand EXCEPT ![u] = Idle]
      /\ begun < MaxRequests /\ begun' = begun + 1
      /\ UNCHANGED <<account, granted, unguarded, audited, unlogged>>
  BY DEF CreateRole, DeleteRole, Undertake, adminHistory
<1>2. errand' = errand
  BY <1>1 DEF AdminInv, AdminTypeOK
<1>3. /\ \A v \in Account : assigned'[v] \subseteq assigned[v]
      /\ \A v \in Account : assigned[v] \subseteq Role /\ assigned[v] \ {r} \subseteq assigned'[v]
      /\ assigned' \in [Account -> SUBSET Role]
  <2>1. assigned \in [Account -> SUBSET Role]
    BY DEF AdminInv, AdminTypeOK
  <2>2. assigned' = assigned \/ assigned' = [t \in Account |-> assigned[t] \ {r}]
    BY DEF CreateRole, DeleteRole
  <2> QED BY <2>1, <2>2
<1>4. /\ ~HasSuperCode(r) /\ role' \in [Role -> RoleRow \cup {NoRole}] /\ recoded' \subseteq Role
      /\ CodesKnown' /\ (Kept' => Kept)
      /\ \A q \in Role \ {r} : role'[q] = role[q]
  <2>1. ASSUME NEW P \in Grants, NEW code \in Code, CreateRole(u, r, P, code)
        PROVE  /\ ~HasSuperCode(r) /\ role' \in [Role -> RoleRow \cup {NoRole}] /\ recoded' \subseteq Role
               /\ CodesKnown' /\ (Kept' => Kept)
               /\ \A q \in Role \ {r} : role'[q] = role[q]
    <3> DEFINE row == [active |-> TRUE, perms |-> P, code |-> code]
    <3>1. row \in RoleRow /\ SaveRole(r, row)
      BY <2>1, AdministrationAssumption DEF CreateRole, RoleRow
    <3>2. ~HasSuperCode(r)
      BY <2>1 DEF CreateRole, HasSuperCode, NoRole
    <3> HIDE DEF row
    <3>3. \A q \in Role \ {r} : role'[q] = role[q]
      BY <3>1 DEF SaveRole, AdminInv, AdminTypeOK
    <3> QED BY <3>1, <3>2, <3>3, SaveRoleCodes
  <2>2. CASE DeleteRole(u, r)
    <3>1. /\ r # SuperRole /\ ~HasSuperCode(r) /\ role' = [role EXCEPT ![r] = NoRole]
          /\ recoded' = recoded
      BY <2>2 DEF DeleteRole, adminHistory
    <3>2. /\ role' \in [Role -> RoleRow \cup {NoRole}] /\ recoded' \subseteq Role
          /\ role'[r].code = "none" /\ \A q \in Role \ {r} : role'[q] = role[q]
      BY <3>1 DEF AdminInv, AdminTypeOK, NoRole
    <3>3. CodesKnown' /\ (Kept' => Kept)
      BY <3>1, <3>2, AdministrationAssumption DEF AdminInv, CodesKnown, Kept, HasSuperCode
    <3> QED BY <3>1, <3>2, <3>3
  <2> QED BY <2>1, <2>2
<1>5. AdminTypeOK'
  <2>1. begun' \in 0..MaxRequests
    BY <1>1, AdministrationAssumption DEF AdminInv, AdminTypeOK
  <2> QED BY <1>1, <1>2, <1>3, <1>4, <2>1 DEF AdminInv, AdminTypeOK
<1>6. Supers \subseteq Supers'
  <2>1. \A v \in Account, q \in Role :
          q \in ActiveRoles(v) /\ HasSuperCode(q) => (q \in ActiveRoles(v) /\ HasSuperCode(q))'
    BY <1>3, <1>4 DEF ActiveRoles, HasSuperCode
  <2>2. \A v \in Account : ActiveRoles(v) \subseteq Role
    BY <1>3 DEF ActiveRoles
  <2> QED BY <1>1, <2>1, <2>2, SupersGrow
<1>7. \A v \in Account : Kept' /\ SuperRole \in assigned'[v] => v \in granted'
  BY <1>1, <1>3, <1>4 DEF AdminInv, GrantsKnown
<1> QED BY <1>1, <1>2, <1>4, <1>5, <1>6, <1>7, RolesKeepInv

-----------------------------------------------------------------------------
(* A deletion that is begun while no other is leaves a super admin: if it is
   of one, the account that asks is another. *)
LEMMA BeginDeleteKeepsInv ==
  ASSUME AdminInv, NEW u \in Account, NEW t \in Account, BeginDeleteAdmin(u, t)
  PROVE  AdminInv'
<1> DEFINE e == [op |-> "delete", target |-> t]
<1>1. e \in Errand /\ e.op = "delete" /\ e.target = t
  BY DEF Errand
<1>2. /\ account[t].alive /\ MayDelete(u, t)
      /\ errand[u] = Idle /\ errand' = [errand EXCEPT ![u] = e]
      /\ begun < MaxRequests /\ begun' = begun + 1
      /\ unguarded' = (unguarded \/ Deleting # {})
      /\ UNCHANGED <<account, role, assigned, granted, recoded>>
      /\ \/ audited' = audited \cup {t} /\ unlogged' = unlogged
         \/ unlogged' = TRUE /\ audited' = audited
  BY DEF BeginDeleteAdmin, Undertake, rbac
<1>0. Kept' = Kept /\ CodesKnown'
  BY <1>2, SameCodes
<1>3. /\ audited \subseteq audited' /\ audited' \subseteq Account
      /\ unlogged => unlogged'
      /\ unlogged' \in BOOLEAN
      /\ unlogged' \/ t \in audited'
  <2>1. CASE audited' = audited \cup {t} /\ unlogged' = unlogged
    BY <2>1 DEF AdminInv, AdminTypeOK
  <2>2. CASE unlogged' = TRUE /\ audited' = audited
    BY <2>2 DEF AdminInv, AdminTypeOK
  <2> QED BY <1>2, <2>1, <2>2
<1>4. account[t] # NoAccount
  BY <1>2, AdminRows
<1> HIDE DEF e
<1>5. errand'[u] = e /\ \A v \in Account \ {u} : errand'[v] = errand[v]
  BY <1>2 DEF AdminInv, AdminTypeOK
<1>6. AdminTypeOK'
  <2>1. begun' \in 0..MaxRequests
    BY <1>2, AdministrationAssumption DEF AdminInv, AdminTypeOK
  <2>2. errand' \in [Account -> Errand \cup {Idle}]
    BY <1>1, <1>2 DEF AdminInv, AdminTypeOK
  <2>3. unguarded' \in BOOLEAN
    BY <1>2 DEF AdminInv, AdminTypeOK
  <2> QED BY <1>2, <1>3, <2>1, <2>2, <2>3 DEF AdminInv, AdminTypeOK
<1>7. GrantsKnown' /\ DeletionsLogged'
  BY <1>0, <1>2, <1>3 DEF AdminInv, GrantsKnown, DeletionsLogged
<1>8. ASSUME NEW v \in Account PROVE ErrandSound(errand[v])'
  <2>1. CASE v = u
    BY <1>1, <1>2, <1>4, <1>5, <1>3, <2>1 DEF ErrandSound
  <2>2. CASE v # u
    <3>1. ErrandSound(errand[v]) /\ errand'[v] = errand[v]
      BY <1>5, <2>2 DEF AdminInv
    <3> QED BY <1>0, <1>2, <1>3, <3>1 DEF ErrandSound
  <2> QED BY <2>1, <2>2
<1>9. unguarded' \/ Guarded'
  <2> SUFFICES ASSUME ~unguarded' PROVE Guarded'
    OBVIOUS
  <2>1. Deleting = {} /\ Guarded
    BY <1>2 DEF AdminInv
  <2>2. Supers' = Supers
    BY <1>2 DEF Supers, IsSuper, Enabled, ActiveRoles, HasSuperCode
  <2>3. Deleting' = {u}
    BY <1>1, <1>5, <2>1 DEF Deleting
  <2>4. Supers \ {t} # {}
    <3>1. CASE IsSuper(t)
      BY <1>2, <3>1 DEF MayDelete, Supers
    <3>2. CASE ~IsSuper(t)
      BY <2>1, <3>2 DEF Guarded, Supers
    <3> QED BY <3>1, <3>2
  <2> QED BY <1>1, <1>5, <2>1, <2>2, <2>3, <2>4 DEF Guarded
<1> QED BY <1>0, <1>6, <1>7, <1>8, <1>9 DEF AdminInv

(* The account goes, with its entry in the log; the others stay. *)
LEMMA FinishDeleteKeepsInv ==
  ASSUME AdminInv, NEW u \in Account, FinishDeleteAdmin(u) PROVE AdminInv'
<1> DEFINE t == errand[u].target
           row == [account[t] EXCEPT !.alive = FALSE]
<1>1. errand[u] \in Errand /\ errand[u].op = "delete" /\ ErrandSound(errand[u])
  BY AdminRows DEF AdminInv, AdminTypeOK, FinishDeleteAdmin
<1>2. t \in Account /\ account[t] \in AccountRow /\ (unlogged \/ t \in audited)
  BY <1>1 DEF Errand, ErrandSound, AdminInv, AdminTypeOK
<1>3. row \in AccountRow /\ ~row.alive /\ row.super = account[t].super
  BY <1>2 DEF AccountRow
<1>4. /\ account' = [account EXCEPT ![t] = row] /\ errand' = [errand EXCEPT ![u] = Idle]
      /\ UNCHANGED <<role, assigned, begun, granted, recoded, unguarded, audited, unlogged>>
  BY DEF FinishDeleteAdmin, Done, adminHistory
<1>0. Kept' = Kept /\ CodesKnown'
  BY <1>4, SameCodes
<1> HIDE DEF row, t
<1>5. /\ account'[t] = row /\ \A v \in Account \ {t} : account'[v] = account[v]
      /\ errand'[u] = Idle /\ \A v \in Account \ {u} : errand'[v] = errand[v]
  BY <1>2, <1>4 DEF AdminInv, AdminTypeOK
<1>6. AdminTypeOK'
  BY <1>2, <1>3, <1>4 DEF AdminInv, AdminTypeOK
<1>7. GrantsKnown'
  BY <1>0, <1>2, <1>3, <1>4, <1>5, AdminRows DEF AdminInv, GrantsKnown
<1>8. DeletionsLogged'
  BY <1>2, <1>4, <1>5 DEF AdminInv, DeletionsLogged
<1>9. ASSUME NEW v \in Account PROVE ErrandSound(errand[v])'
  <2>1. CASE v = u
    BY <1>5, <2>1, AdminRows DEF ErrandSound
  <2>2. CASE v # u
    <3>1. ErrandSound(errand[v]) /\ errand'[v] = errand[v]
      BY <1>5, <2>2 DEF AdminInv
    <3>2. errand[v].op = "delete" => errand[v].target \in Account
      BY AdminRows DEF AdminInv, AdminTypeOK, Errand
    <3>3. \A w \in Account : account[w] # NoAccount => account'[w] # NoAccount
      BY <1>3, <1>5, AdminRows
    <3> QED BY <1>0, <1>4, <3>1, <3>2, <3>3 DEF ErrandSound
  <2> QED BY <2>1, <2>2
<1>10. unguarded' \/ Guarded'
  <2> SUFFICES ASSUME ~unguarded' PROVE Guarded'
    OBVIOUS
  <2>1. Guarded /\ u \in Deleting
    BY <1>1, <1>4 DEF AdminInv, Deleting
  <2>2. \A v \in Account : v # t => IsSuper(v)' = IsSuper(v)
    BY <1>4, <1>5 DEF IsSuper, Enabled, ActiveRoles, HasSuperCode
  <2>3. Supers \ {t} \subseteq Supers'
    BY <2>2 DEF Supers
  <2>4. Deleting' = {}
    BY <1>5, <2>1, AdminRows DEF Guarded, Deleting
  <2> QED BY <2>1, <2>3, <2>4 DEF Guarded, t
<1> QED BY <1>0, <1>6, <1>7, <1>8, <1>9, <1>10 DEF AdminInv

(* Every step of the administration keeps the invariant. *)
THEOREM AdminInvariance == AdminSpec => []AdminInv
<1>1. AdminInv /\ [AdminNext]_adminVars => AdminInv'
  <2> SUFFICES ASSUME AdminInv, [AdminNext]_adminVars PROVE AdminInv'
    OBVIOUS
  <2>1. CASE UNCHANGED adminVars
    <3>1. /\ UNCHANGED <<account, role, assigned, errand, begun>>
          /\ UNCHANGED <<granted, recoded, unguarded, audited, unlogged>>
      BY <2>1 DEF adminVars, rbac, adminHistory
    <3>2. Kept' = Kept /\ CodesKnown'
      BY <3>1, SameCodes
    <3>3. AdminTypeOK' /\ GrantsKnown' /\ DeletionsLogged' /\ Supers' = Supers
      BY <3>1, <3>2 DEF AdminInv, AdminTypeOK, GrantsKnown, DeletionsLogged, Supers, IsSuper,
                        Enabled, ActiveRoles, HasSuperCode
    <3> QED BY <3>1, <3>2, <3>3, OtherKeepsInv
  <2>2. ASSUME NEW u \in Account, AccountStep(u) \/ RoleStep(u) \/ LoseErrand(u) PROVE AdminInv'
    <3>1. CASE AccountStep(u)
      BY <3>1, AdminBeginKeepsInv, FinishSaveKeepsInv, SetActiveKeepsInv, CreateAdminKeepsInv,
         EndRolesKeepsInv, StartRoleKeepsInv, BeginDeleteKeepsInv, FinishDeleteKeepsInv
         DEF AccountStep
    <3>2. CASE RoleStep(u)
      BY <3>2, AdminBeginKeepsInv, FinishRoleKeepsInv, CreateDeleteRoleKeepsInv DEF RoleStep
    <3> QED BY <2>2, <3>1, <3>2, LoseErrandKeepsInv
  <2> QED BY <2>1, <2>2 DEF AdminNext
<1> QED BY <1>1, AdminInitInv, PTL DEF AdminSpec

-----------------------------------------------------------------------------
(* Every variable keeps its type. *)
THEOREM AdminTypeCorrect == AdminSpec => []AdminTypeOK
<1>1. AdminInv => AdminTypeOK
  BY DEF AdminInv
<1> QED BY <1>1, AdminInvariance, PTL

(* However requests overlap, and whatever saves and role edits are stale or
   half done, nobody is a super admin whom no super admin made one, except
   through a role that took the code super_admin by a rename or as a new role:
   admin_dashboard/services.py:263-288 and serializers.py:82-106. *)
THEOREM NoSelfMadeSuperAdmin == AdminSpec => []SuperAdminsWereGranted
<1>1. AdminInv => SuperAdminsWereGranted
  <2> SUFFICES ASSUME AdminInv, NEW u \in Account, IsSuper(u)
               PROVE  u \in granted \/ \E r \in ActiveRoles(u) \cap recoded : HasSuperCode(r)
    BY DEF SuperAdminsWereGranted, Supers
  <2>1. account[u] # NoAccount
    BY AdminRows DEF IsSuper, Enabled
  <2>2. CASE account[u].super
    BY <2>1, <2>2 DEF AdminInv, GrantsKnown
  <2>3. ASSUME NEW r \in ActiveRoles(u), HasSuperCode(r)
        PROVE  u \in granted \/ \E q \in ActiveRoles(u) \cap recoded : HasSuperCode(q)
    <3>1. r \in Role /\ r \in assigned[u] /\ (r = SuperRole \/ r \in recoded)
      BY <2>3 DEF ActiveRoles, AdminInv, AdminTypeOK, CodesKnown
    <3>2. CASE r \in recoded
      BY <2>3, <3>2
    <3>3. CASE r = SuperRole /\ r \notin recoded
      BY <2>3, <3>1, <3>3 DEF AdminInv, GrantsKnown, Kept
    <3> QED BY <3>1, <3>2, <3>3
  <2> QED BY <2>2, <2>3 DEF IsSuper
<1> QED BY <1>1, AdminInvariance, PTL

(* Deletions one at a time leave a super admin, and each has its entry in the
   log however it ends: admin_dashboard/views.py:275-303. *)
THEOREM DeletionsSound == AdminSpec => []AdminDeletionsSound
<1>1. AdminInv => AdminDeletionsSound
  BY DEF AdminInv, Guarded, AdminDeletionsSound, LastSuperAdminKept
<1> QED BY <1>1, AdminInvariance, PTL

-----------------------------------------------------------------------------
(***************************************************************************)
(* Entitlement, for any plans, requests and days.                          *)
(*                                                                         *)
(* PlanAsDecided speaks of the row and the last decision; the next save    *)
(* writes a row that was read earlier.  EntitlementInv adds that a request *)
(* which is not late carries a row that follows the decision, or one that  *)
(* is a decision itself, and that a revival not late finds the row still   *)
(* deleted.                                                                *)
(***************************************************************************)

(* Row s is what decision p makes of it, whatever its dates. *)
Follows(s, p) == p = IF s.deleted \/ s.status = "canceled" THEN FreePlan ELSE s.plan

OnRow(case) == case.op \in {"decide", "edit", "revive"}

(* What an open request will write. *)
CaseFits(case) ==
  /\ case.op = "decide" => ~case.row.deleted
  /\ case.op = "edit" => case.late \/ overruled \/ Follows(case.row, decided)
  /\ case.op = "revive" => case.late \/ subscription.deleted

EntitlementInv ==
  /\ EntitlementTypeOK
  /\ overruled \/ Follows(subscription, decided)
  /\ \A o \in Officer : CaseFits(office[o])

-----------------------------------------------------------------------------
(* A row that follows the last decision puts its plan in force. *)
LEMMA FollowsIsDecided ==
  ASSUME subscription \in Subscription, overruled \/ Follows(subscription, decided)
  PROVE  PlanAsDecided
<1> SUFFICES ASSUME Follows(subscription, decided) PROVE PlanAsDecided
  BY DEF PlanAsDecided
<1>1. CASE subscription.deleted
  <2>1. decided = FreePlan
    BY <1>1 DEF Follows
  <2>2. Revived(subscription).plan = FreePlan
    BY DEF Revived, Subscription
  <2> QED BY <1>1, <2>1, <2>2 DEF PlanAsDecided, PlanInForce
<1>2. CASE ~subscription.deleted
  BY <1>2 DEF PlanAsDecided, PlanInForce, HasEntitlement, Follows
<1> QED BY <1>1, <1>2

(* A revived row is on the free plan, and so was decided. *)
LEMMA RevivedType ==
  ASSUME NEW s \in Subscription
  PROVE  /\ Revived(s) \in Subscription
         /\ ~Revived(s).deleted /\ Revived(s).plan = FreePlan /\ Revived(s).status = "active"
BY EntitlementAssumption DEF Revived, Subscription, SubscriptionStatus

(* A student who has registered is on the free plan, with nothing decided. *)
LEMMA EntitlementInitInv == EntitlementInit => EntitlementInv
<1> SUFFICES ASSUME EntitlementInit PROVE EntitlementInv
  OBVIOUS
<1>1. 0 \in Day /\ 0 \in 0..MaxDecisions /\ NoEnd \in Until
  BY EntitlementAssumption DEF Day, Until, NoEnd
<1>2. subscription \in Subscription
  BY <1>1, EntitlementAssumption DEF EntitlementInit, Subscription, SubscriptionStatus
<1>3. EntitlementTypeOK
  BY <1>1, <1>2, EntitlementAssumption DEF EntitlementInit, EntitlementTypeOK
<1>4. Follows(subscription, decided) /\ \A o \in Officer : CaseFits(office[o])
  BY DEF EntitlementInit, Follows, CaseFits, OffDuty
<1> QED BY <1>3, <1>4 DEF EntitlementInv

(* A step that leaves the row, the decision and the requests on it alone. *)
LEMMA OfficeKeepsInv ==
  ASSUME EntitlementInv, UNCHANGED <<subscription, decided, overruled>>,
         planRow' \in [Plan -> {"active", "inactive", "none"}],
         day' \in Day, decisions' \in 0..MaxDecisions,
         office' \in [Officer -> Case \cup {OffDuty}],
         \A o \in Officer : office'[o] = office[o] \/ CaseFits(office'[o])
  PROVE  EntitlementInv'
<1>1. EntitlementTypeOK'
  BY DEF EntitlementInv, EntitlementTypeOK
<1>2. ASSUME NEW o \in Officer PROVE CaseFits(office[o])'
  BY DEF EntitlementInv, CaseFits, Follows
<1> QED BY <1>1, <1>2 DEF EntitlementInv, Follows

(* A request is begun that will write what it should. *)
LEMMA TakeKeepsInv ==
  ASSUME EntitlementInv, NEW o \in Officer, NEW case \in Case, Take(o, case), CaseFits(case)
  PROVE  EntitlementInv'
<1>1. EntitlementTypeOK
  BY DEF EntitlementInv
<1>2. decisions' \in 0..MaxDecisions
  BY <1>1, EntitlementAssumption DEF Take, Another, EntitlementTypeOK
<1>3. /\ office' \in [Officer -> Case \cup {OffDuty}]
      /\ \A x \in Officer : office'[x] = office[x] \/ office'[x] = case
  BY <1>1 DEF Take, EntitlementTypeOK
<1> QED BY <1>1, <1>2, <1>3, OfficeKeepsInv DEF Take, EntitlementTypeOK

(* The row is written, and every request that had read it before is late but
   those that are closed. *)
LEMMA WrittenKeepsInv ==
  ASSUME EntitlementInv, subscription' \in Subscription, decided' \in Plan,
         overruled' \in BOOLEAN, decisions' \in 0..MaxDecisions, UNCHANGED <<planRow, day>>,
         overruled' \/ Follows(subscription', decided'),
         NEW closed \in SUBSET Officer,
         office' = [o \in Officer |->
           IF o \in closed THEN OffDuty
           ELSE IF OnRow(office[o]) THEN [office[o] EXCEPT !.late = TRUE] ELSE office[o]]
  PROVE  EntitlementInv'
<1>1. EntitlementTypeOK
  BY DEF EntitlementInv
<1>2. ASSUME NEW o \in Officer
      PROVE  office'[o] \in Case \cup {OffDuty} /\ CaseFits(office[o])'
  <2>1. CASE o \in closed
    BY <2>1 DEF CaseFits, OffDuty
  <2>2. CASE o \notin closed /\ OnRow(office[o])
    <3>1. office'[o] = [office[o] EXCEPT !.late = TRUE]
      BY <2>2
    <3>2. office[o] \in [op : {"decide", "edit", "revive"}, row : Subscription, late : BOOLEAN]
      BY <1>1, <2>2 DEF EntitlementTypeOK, Case, OffDuty, OnRow
    <3>3. /\ office'[o] \in Case /\ office'[o].late
          /\ office'[o].op = office[o].op /\ office'[o].row = office[o].row
      BY <3>1, <3>2 DEF Case
    <3>4. CaseFits(office[o])
      BY DEF EntitlementInv
    <3> QED BY <3>3, <3>4 DEF CaseFits
  <2>3. CASE o \notin closed /\ ~OnRow(office[o])
    <3>1. office'[o] = office[o]
      BY <2>3
    <3> QED BY <1>1, <2>3, <3>1 DEF EntitlementTypeOK, CaseFits, OnRow
  <2> QED BY <2>1, <2>2, <2>3
<1>3. EntitlementTypeOK'
  BY <1>1, <1>2 DEF EntitlementTypeOK
<1> QED BY <1>2, <1>3 DEF EntitlementInv, Follows

-----------------------------------------------------------------------------
(* Requests that look at the row. *)
LEMMA EntitlementBeginKeepsInv ==
  ASSUME EntitlementInv, NEW o \in Officer
  PROVE  /\ \A p \in Plan, status \in SubscriptionStatus, ends \in Until :
              BeginChangePlan(o, p, status, ends) => EntitlementInv'
         /\ \A status \in SubscriptionStatus : BeginSetStatus(o, status) => EntitlementInv'
         /\ \A ends, trial \in Until : BeginSetDates(o, ends, trial) => EntitlementInv'
         /\ BeginRevive(o) => EntitlementInv'
<1>0. subscription \in Subscription /\ (overruled \/ Follows(subscription, decided))
  BY DEF EntitlementInv, EntitlementTypeOK
<1>1. ASSUME NEW p \in Plan, NEW status \in SubscriptionStatus, NEW ends \in Until,
             BeginChangePlan(o, p, status, ends)
      PROVE  EntitlementInv'
  <2> DEFINE row == Changed(subscription, p, status, ends)
             case == [op |-> "decide", late |-> FALSE, row |-> row]
  <2>1. row \in Subscription /\ ~row.deleted
    BY <1>0, <1>1 DEF BeginChangePlan, Changed, Subscription
  <2>2. case \in Case /\ CaseFits(case)
    BY <2>1 DEF Case, CaseFits
  <2> QED BY <1>1, <2>2, TakeKeepsInv DEF BeginChangePlan
<1>2. ASSUME NEW status \in SubscriptionStatus, BeginSetStatus(o, status)
      PROVE  EntitlementInv'
  <2> DEFINE row == [subscription EXCEPT !.status = status]
             case == [op |-> "decide", late |-> FALSE, row |-> row]
  <2>1. row \in Subscription /\ ~row.deleted
    BY <1>0, <1>2 DEF BeginSetStatus, Subscription
  <2>2. case \in Case /\ CaseFits(case)
    BY <2>1 DEF Case, CaseFits
  <2> QED BY <1>2, <2>2, TakeKeepsInv DEF BeginSetStatus
<1>3. ASSUME NEW ends \in Until, NEW trial \in Until, BeginSetDates(o, ends, trial)
      PROVE  EntitlementInv'
  <2> DEFINE row == [subscription EXCEPT !.ends = ends, !.trial = trial]
             case == [op |-> "edit", late |-> FALSE, row |-> row]
  <2>1. /\ row \in Subscription /\ row.plan = subscription.plan
        /\ row.status = subscription.status /\ row.deleted = subscription.deleted
    BY <1>0 DEF Subscription
  <2>2. case \in Case /\ CaseFits(case)
    BY <1>0, <2>1 DEF Case, CaseFits, Follows
  <2> QED BY <1>3, <2>2, TakeKeepsInv DEF BeginSetDates
<1>4. ASSUME BeginRevive(o) PROVE EntitlementInv'
  <2> DEFINE case == [op |-> "revive", late |-> FALSE, row |-> subscription]
  <2>1. case \in Case /\ CaseFits(case)
    BY <1>0, <1>4 DEF Case, CaseFits, BeginRevive
  <2> QED BY <1>4, <2>1, TakeKeepsInv DEF BeginRevive
<1> QED BY <1>1, <1>2, <1>3, <1>4

(* The save of a decision, of dates, or of a revival. *)
LEMMA SaveKeepsInv ==
  ASSUME EntitlementInv, NEW o \in Officer, SaveSubscription(o) \/ FinishRevive(o)
  PROVE  EntitlementInv'
<1> DEFINE case == office[o]
<1>0. EntitlementTypeOK /\ CaseFits(case) /\ OnRow(case)
  BY DEF EntitlementInv, SaveSubscription, FinishRevive, OnRow
<1>1. case.row \in Subscription /\ case.late \in BOOLEAN
  BY <1>0 DEF EntitlementTypeOK, Case, OffDuty, OnRow
<1>2. ASSUME NEW row \in Subscription, WriteBy(o, row), decided' \in Plan,
             UNCHANGED <<planRow, day, decisions>>,
             case.late \/ overruled \/ Follows(row, decided')
      PROVE  EntitlementInv'
  <2>1. office' = [x \in Officer |->
           IF x \in {o} THEN OffDuty
           ELSE IF OnRow(office[x]) THEN [office[x] EXCEPT !.late = TRUE] ELSE office[x]]
    BY <1>2, Zenon DEF WriteBy, OnRow
  <2>2. subscription' = row /\ overruled' = (overruled \/ case.late)
    BY <1>2 DEF WriteBy
  <2>3. overruled' \in BOOLEAN /\ (overruled' \/ Follows(subscription', decided'))
    BY <1>2, <2>2
  <2>4. {o} \in SUBSET Officer /\ decisions' \in 0..MaxDecisions
    BY <1>0, <1>2 DEF EntitlementTypeOK
  <2> QED BY <1>2, <2>1, <2>2, <2>3, <2>4, WrittenKeepsInv
<1>3. CASE FinishRevive(o)
  <2>1. Revived(subscription) \in Subscription
    BY <1>0, RevivedType DEF EntitlementTypeOK
  <2>2. case.late \/ overruled \/ Follows(Revived(subscription), decided)
    BY <1>0, <1>3, RevivedType
       DEF FinishRevive, CaseFits, EntitlementInv, EntitlementTypeOK, Follows
  <2> QED BY <1>0, <1>2, <1>3, <2>1, <2>2 DEF FinishRevive, EntitlementTypeOK
<1>4. CASE SaveSubscription(o) /\ planRow[case.row.plan] = "none"
  <2>1. office' = [office EXCEPT ![o] = OffDuty]
    BY <1>4 DEF SaveSubscription
  <2>2. CaseFits(OffDuty)
    BY DEF CaseFits, OffDuty
  <2>3. /\ office' \in [Officer -> Case \cup {OffDuty}]
        /\ \A x \in Officer : office'[x] = office[x] \/ CaseFits(office'[x])
    BY <1>0, <2>1, <2>2 DEF EntitlementTypeOK
  <2> QED BY <1>0, <1>4, <2>3, OfficeKeepsInv DEF SaveSubscription, EntitlementTypeOK
<1>5. CASE SaveSubscription(o) /\ planRow[case.row.plan] # "none"
  <2>1. /\ WriteBy(o, case.row) /\ UNCHANGED <<planRow, day, decisions>>
        /\ decided' = IF case.op = "decide" THEN Verdict(case.row) ELSE decided
    BY <1>5 DEF SaveSubscription
  <2>2. case.op \in {"decide", "edit"}
    BY <1>5 DEF SaveSubscription
  <2>3. decided' \in Plan
    BY <1>0, <1>1, <2>1, EntitlementAssumption DEF Verdict, Subscription, EntitlementTypeOK
  <2>4. case.late \/ overruled \/ Follows(case.row, decided')
    BY <1>0, <2>1, <2>2 DEF CaseFits, Follows, Verdict
  <2> QED BY <1>1, <1>2, <2>1, <2>3, <2>4
<1> QED BY <1>3, <1>4, <1>5

(* What is written in one step: a plan given for a deleted row, a cancellation,
   a deletion. *)
LEMMA WriteKeepsInv ==
  ASSUME EntitlementInv,
         \/ \E p \in Plan, status \in SubscriptionStatus, ends \in Until :
              ChangeRevived(p, status, ends)
         \/ CancelSubscription \/ DeleteSubscription
  PROVE  EntitlementInv'
<1>0. /\ EntitlementTypeOK /\ subscription \in Subscription
      /\ overruled \/ Follows(subscription, decided)
  BY DEF EntitlementInv, EntitlementTypeOK
<1>1. ASSUME NEW row \in Subscription, Write(row), Another, decided' \in Plan,
             UNCHANGED <<planRow, day, overruled>>, Follows(row, decided')
      PROVE  EntitlementInv'
  <2>1. office' = [x \in Officer |->
           IF x \in {} THEN OffDuty
           ELSE IF OnRow(office[x]) THEN [office[x] EXCEPT !.late = TRUE] ELSE office[x]]
    BY <1>1, Zenon DEF Write, OnRow
  <2>2. subscription' = row
    BY <1>1 DEF Write
  <2>3. decisions' \in 0..MaxDecisions
    BY <1>0, <1>1, EntitlementAssumption DEF Another, EntitlementTypeOK
  <2>4. overruled' \in BOOLEAN
    BY <1>0, <1>1 DEF EntitlementTypeOK
  <2>5. {} \in SUBSET Officer
    OBVIOUS
  <2> HIDE DEF Follows
  <2> QED BY <1>1, <2>1, <2>2, <2>3, <2>4, <2>5, WrittenKeepsInv
<1>2. ASSUME NEW p \in Plan, NEW status \in SubscriptionStatus, NEW ends \in Until,
             ChangeRevived(p, status, ends)
      PROVE  EntitlementInv'
  <2> DEFINE row == Changed(Revived(subscription), p, status, ends)
  <2>1. /\ row \in Subscription /\ ~row.deleted
        /\ row.plan = p /\ row.status = status
    BY <1>0, RevivedType DEF Changed, Subscription
  <2>2. decided' = IF status = "canceled" THEN FreePlan ELSE p
    BY <1>2 DEF ChangeRevived, Verdict
  <2>3. decided' \in Plan /\ Follows(row, decided')
    BY <2>1, <2>2, EntitlementAssumption DEF Follows
  <2> QED BY <1>1, <1>2, <2>1, <2>3 DEF ChangeRevived
<1>3. CASE CancelSubscription
  <2> DEFINE kept == IF subscription.deleted THEN Revived(subscription) ELSE subscription
             row == [kept EXCEPT !.status = "canceled"]
  <2>1. kept \in Subscription
    BY <1>0, RevivedType
  <2>2. row \in Subscription /\ row.status = "canceled"
    BY <2>1 DEF Subscription, SubscriptionStatus
  <2>3. Write(row) /\ Another /\ decided' = FreePlan /\ UNCHANGED <<planRow, day, overruled>>
    BY <1>3 DEF CancelSubscription
  <2>4. decided' \in Plan /\ Follows(row, decided')
    BY <2>2, <2>3, EntitlementAssumption DEF Follows
  <2> QED BY <1>1, <2>2, <2>3, <2>4
<1>4. CASE DeleteSubscription
  <2> DEFINE row == [subscription EXCEPT !.deleted = TRUE]
  <2>1. row \in Subscription /\ row.deleted
    BY <1>0 DEF Subscription
  <2>2. Write(row) /\ Another /\ decided' = FreePlan /\ UNCHANGED <<planRow, day, overruled>>
    BY <1>4 DEF DeleteSubscription
  <2>3. decided' \in Plan /\ Follows(row, decided')
    BY <2>1, <2>2, EntitlementAssumption DEF Follows
  <2> QED BY <1>1, <2>1, <2>2, <2>3
<1> QED BY <1>2, <1>3, <1>4

(* Plans, lost requests and the calendar. *)
LEMMA AroundKeepsInv ==
  ASSUME EntitlementInv,
         \/ \E o \in Officer : PlanStep(o) \/ LoseOfficer(o)
         \/ \E p \in Plan : CreatePlan(p) \/ RetirePlan(p)
         \/ PassDay
  PROVE  EntitlementInv'
<1>0. EntitlementTypeOK /\ CaseFits(OffDuty)
  BY DEF EntitlementInv, CaseFits, OffDuty
<1>1. Another => decisions' \in 0..MaxDecisions
  BY <1>0, EntitlementAssumption DEF Another, EntitlementTypeOK
<1>2. ASSUME NEW o \in Officer, PlanStep(o) \/ LoseOfficer(o) PROVE EntitlementInv'
  <2>1. ASSUME NEW p \in Plan, NEW active \in {"active", "inactive"}, BeginEditPlan(o, p, active)
        PROVE  EntitlementInv'
    <3> DEFINE case == [op |-> "tariff", plan |-> p, active |-> active]
    <3>1. case \in Case /\ CaseFits(case)
      BY DEF Case, CaseFits
    <3> QED BY <2>1, <3>1, TakeKeepsInv DEF BeginEditPlan
  <2>2. CASE SavePlanRow(o)
    <3>1. office[o].plan \in Plan /\ office[o].active \in {"active", "inactive"}
      BY <1>0, <2>2 DEF SavePlanRow, EntitlementTypeOK, Case, OffDuty
    <3>2. planRow' \in [Plan -> {"active", "inactive", "none"}]
      BY <1>0, <2>2, <3>1 DEF SavePlanRow, EntitlementTypeOK
    <3>3. /\ office' \in [Officer -> Case \cup {OffDuty}]
          /\ \A x \in Officer : office'[x] = office[x] \/ CaseFits(office'[x])
      BY <1>0, <2>2 DEF SavePlanRow, EntitlementTypeOK
    <3> QED BY <1>0, <2>2, <3>2, <3>3, OfficeKeepsInv DEF SavePlanRow, EntitlementTypeOK
  <2>3. CASE LoseOfficer(o)
    <3>1. /\ office' \in [Officer -> Case \cup {OffDuty}]
          /\ \A x \in Officer : office'[x] = office[x] \/ CaseFits(office'[x])
      BY <1>0, <2>3 DEF LoseOfficer, EntitlementTypeOK
    <3> QED BY <1>0, <2>3, <3>1, OfficeKeepsInv DEF LoseOfficer, EntitlementTypeOK
  <2> QED BY <1>2, <2>1, <2>2, <2>3 DEF PlanStep
<1>3. ASSUME NEW p \in Plan, CreatePlan(p) \/ RetirePlan(p) PROVE EntitlementInv'
  <2>1. planRow' \in [Plan -> {"active", "inactive", "none"}]
    BY <1>0, <1>3 DEF CreatePlan, RetirePlan, EntitlementTypeOK
  <2>2. decisions' \in 0..MaxDecisions /\ UNCHANGED <<subscription, office, day, decided, overruled>>
    BY <1>1, <1>3 DEF CreatePlan, RetirePlan
  <2> QED BY <1>0, <2>1, <2>2, OfficeKeepsInv DEF EntitlementTypeOK
<1>4. CASE PassDay
  <2>1. day' \in Day
    BY <1>0, <1>4, EntitlementAssumption DEF PassDay, EntitlementTypeOK, Day
  <2> QED BY <1>0, <1>4, <2>1, OfficeKeepsInv DEF PassDay, EntitlementTypeOK
<1> QED BY <1>2, <1>3, <1>4

(* Every step keeps the invariant. *)
THEOREM EntitlementInvariance == EntitlementSpec => []EntitlementInv
<1>1. EntitlementInv /\ [EntitlementNext]_subscriptionVars => EntitlementInv'
  <2> SUFFICES ASSUME EntitlementInv, [EntitlementNext]_subscriptionVars PROVE EntitlementInv'
    OBVIOUS
  <2>1. CASE UNCHANGED subscriptionVars
    BY <2>1 DEF subscriptionVars, EntitlementInv, EntitlementTypeOK, Follows, CaseFits
  <2>2. CASE EntitlementNext
    <3>1. ASSUME NEW o \in Officer, SubscriptionStep(o) PROVE EntitlementInv'
      BY <2>2, <3>1, EntitlementBeginKeepsInv, SaveKeepsInv, AroundKeepsInv DEF SubscriptionStep
    <3> QED BY <2>2, <3>1, WriteKeepsInv, AroundKeepsInv DEF EntitlementNext
  <2> QED BY <2>1, <2>2
<1> QED BY <1>1, EntitlementInitInv, PTL DEF EntitlementSpec

-----------------------------------------------------------------------------
(* Every variable keeps its type. *)
THEOREM EntitlementTypeCorrect == EntitlementSpec => []EntitlementTypeOK
<1>1. EntitlementInv => EntitlementTypeOK
  BY DEF EntitlementInv
<1> QED BY <1>1, EntitlementInvariance, PTL

(* The plan in force is the one last decided until it runs out, unless a stale
   row was saved: subscriptions/services.py, get_user_plan. *)
THEOREM DecisionsHold == EntitlementSpec => []PlanAsDecided
<1>1. EntitlementInv => PlanAsDecided
  BY FollowsIsDecided DEF EntitlementInv, EntitlementTypeOK
<1> QED BY <1>1, EntitlementInvariance, PTL

-----------------------------------------------------------------------------
(***************************************************************************)
(* The composition.  A behaviour works one component and leaves the others *)
(* as they were, so all that is proved of a component holds of it; of the  *)
(* forwarding, what needs no fairness.                                     *)
(***************************************************************************)
LEMMA WorkSteps ==
  [WorkNext]_workVars =>
    /\ [ProcessingNext]_processingVars /\ [InputsNext]_inputVars /\ [ForwardNext]_forwardVars
    /\ [GateNext]_gateVars /\ [DeskNext]_deskVars /\ [AdminNext]_adminVars
    /\ [EntitlementNext]_subscriptionVars
BY DEF WorkNext, workVars

(* The composition implements every component. *)
THEOREM WorkComponents ==
  WorkSpec =>
    /\ ProcessingSpec /\ InputsSpec /\ GateSpec /\ DeskSpec /\ AdminSpec /\ EntitlementSpec
    /\ ForwardInit /\ [][ForwardNext]_forwardVars
<1>1. WorkInit =>
        /\ ProcessingInit /\ InputsInit /\ GateInit /\ DeskInit /\ AdminInit /\ EntitlementInit
        /\ ForwardInit
  BY DEF WorkInit
<1> QED BY <1>1, WorkSteps, PTL
    DEF WorkSpec, ProcessingSpec, InputsSpec, GateSpec, DeskSpec, AdminSpec, EntitlementSpec

(* Every variable of the composition keeps its type. *)
THEOREM WorkTypeCorrect == WorkSpec => []WorkTypeOK
<1> DEFINE Focus ==
      focus \in {"processing", "inputs", "feedback", "gate", "desk", "administration",
                 "subscription"}
<1>1. WorkInit => Focus
  BY DEF WorkInit
<1>2. Focus /\ [WorkNext]_workVars => Focus'
  BY DEF WorkNext, workVars
<1>3. ForwardInv => ForwardTypeOK
  BY DEF ForwardInv
<1>4. /\ ProcessingTypeOK /\ InputsTypeOK /\ ForwardTypeOK /\ GateTypeOK
      /\ DeskTypeOK /\ AdminTypeOK /\ EntitlementTypeOK /\ Focus
      => WorkTypeOK
  BY DEF WorkTypeOK
<1> HIDE DEF Focus
<1> QED BY <1>1, <1>2, <1>3, <1>4, WorkComponents, ProcessingTypeCorrect, InputsTypeCorrect,
           ForwardInvariance, GateTypeCorrect, DeskTypeCorrect, AdminTypeCorrect,
           EntitlementTypeCorrect, PTL DEF WorkSpec
=============================================================================
