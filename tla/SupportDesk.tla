----------------------------- MODULE SupportDesk -----------------------------
(***************************************************************************)
(* One support ticket (apps/support): the student writes and closes, the   *)
(* support staff replies and sets the status.  Every request reads the     *)
(* ticket, posts its message in one transaction and saves the status in    *)
(* another.                                                                *)
(***************************************************************************)
EXTENDS Naturals

CONSTANTS
  Clerk,              \* the requests that can be open at the same time
  MaxPosts            \* bound: messages posted in all

ASSUME DeskAssumption == MaxPosts \in Nat \ {0}

VARIABLES
  ticket,             \* the SupportTicket row
  wrote_last,         \* whose is the last message that is not internal
  posts,              \* messages posted
  desk,               \* per clerk: the open request, or Vacant
  crossed             \* history: a request ended on what another had overtaken

deskVars == <<ticket, wrote_last, posts, desk, crossed>>

TicketStatus == {"open", "in_progress", "waiting_user", "resolved", "closed"}
Settled == {"resolved", "closed"}
Ticket == [status : TicketStatus, resolved_at : BOOLEAN, by_hand : BOOLEAN]
(* by_hand: the status was last chosen by a PATCH. *)

Vacant == [op |-> "vacant"]
DeskRequest == [op : {"ask", "asked", "close", "reply", "replied", "patch"}, row : Ticket]

DeskTypeOK ==
  /\ ticket \in Ticket
  /\ wrote_last \in {"student", "support"}
  /\ posts \in 0..MaxPosts
  /\ desk \in [Clerk -> DeskRequest \cup {Vacant}]
  /\ crossed \in BOOLEAN

(* A ticket is created with its first message, in one transaction. *)
DeskInit ==
  /\ ticket = [status |-> "open", resolved_at |-> FALSE, by_hand |-> FALSE]
  /\ wrote_last = "student" /\ posts = 1
  /\ desk = [k \in Clerk |-> Vacant]
  /\ crossed = FALSE

-----------------------------------------------------------------------------
(* The request reads the row and works on it as "row". *)
Attend(k, op, row) ==
  /\ desk[k] = Vacant
  /\ desk' = [desk EXCEPT ![k] = [op |-> op, row |-> row]]
  /\ UNCHANGED <<ticket, wrote_last, posts, crossed>>

(* The request ends.  Its status is stale if what it rests on was overtaken. *)
Leave(k, stale) ==
  /\ desk' = [desk EXCEPT ![k] = Vacant]
  /\ crossed' = (crossed \/ stale)
  /\ UNCHANGED <<wrote_last, posts>>

Post(k, op, whose) ==
  /\ posts < MaxPosts /\ posts' = posts + 1
  /\ wrote_last' = whose
  /\ desk' = [desk EXCEPT ![k].op = op]
  /\ UNCHANGED <<ticket, crossed>>

BeginAskSupport(k) == ticket.status # "closed" /\ Attend(k, "ask", ticket)
PostQuestion(k) == desk[k].op = "ask" /\ Post(k, "asked", "student")

(* The ticket has begun to wait since the request of clerk k read it. *)
BeganToWait(k) == desk[k].row.status # "waiting_user" /\ ticket.status = "waiting_user"

(* Mutant: the ticket keeps waiting for the student. *)
FinishAskAnyway(k) ==
  /\ desk[k].op = "asked"
  /\ Leave(k, BeganToWait(k))
  /\ UNCHANGED ticket

(* The status column, if the ticket that was read waited for the student. *)
FinishAskSupport(k) ==
  /\ desk[k].op = "asked"
  /\ Leave(k, BeganToWait(k))
  /\ IF desk[k].row.status = "waiting_user"
     THEN ticket' = [ticket EXCEPT !.status = "open", !.by_hand = FALSE]
     ELSE UNCHANGED ticket

(* close: the status and resolved_at, which is kept if there is one. *)
BeginClose(k) ==
  Attend(k, "close", [status |-> "closed", resolved_at |-> TRUE, by_hand |-> FALSE])

(* A reply of the support, to a closed ticket too.  An internal note posts and
   changes nothing else. *)
BeginReply(k) == Attend(k, "reply", ticket)
PostReply(k) == desk[k].op = "reply" /\ Post(k, "replied", "support")
PostNote(k) ==
  /\ desk[k].op = "reply"
  /\ posts < MaxPosts /\ posts' = posts + 1
  /\ desk' = [desk EXCEPT ![k] = Vacant]
  /\ UNCHANGED <<ticket, wrote_last, crossed>>

(* The status column.  The student may have written since the reply. *)
FinishReply(k) ==
  /\ desk[k].op = "replied"
  /\ Leave(k, wrote_last = "student")
  /\ ticket' = [ticket EXCEPT !.status = "waiting_user", !.by_hand = FALSE]

(* AdminSupportTicketSerializer.validate: resolved_at follows the status. *)
Stamped(status) ==
  [status |-> status, resolved_at |-> status \in Settled, by_hand |-> TRUE]

(* PATCH by the support, with a status or without one. *)
BeginPatchTicket(k) ==
  \/ \E status \in TicketStatus : Attend(k, "patch", Stamped(status))
  \/ \E at \in BOOLEAN :
       Attend(k, "patch", [ticket EXCEPT !.resolved_at = at \/ ticket.status \in Settled])

(* A row that waits, as the replies left the ticket, which has changed since. *)
WaitsAgain(row) ==
  /\ row.status = "waiting_user" /\ ~row.by_hand
  /\ ticket.status # "waiting_user" \/ ticket.by_hand

(* Every column, or those of close: both include the two.  A PATCH without a
   status puts the one that it read back. *)
SaveTicket(k) ==
  /\ desk[k].op \in {"close", "patch"}
  /\ Leave(k, WaitsAgain(desk[k].row))
  /\ ticket' = desk[k].row

(* Lost, a question maybe between its message and its status. *)
LoseClerk(k) ==
  /\ desk[k] # Vacant
  /\ Leave(k, desk[k].op = "asked")
  /\ UNCHANGED ticket

-----------------------------------------------------------------------------
StudentRequest(k) ==
  BeginAskSupport(k) \/ PostQuestion(k) \/ FinishAskSupport(k) \/ BeginClose(k)
StaffRequest(k) ==
  BeginReply(k) \/ PostReply(k) \/ PostNote(k) \/ FinishReply(k) \/ BeginPatchTicket(k)

DeskNext ==
  \E k \in Clerk : StudentRequest(k) \/ StaffRequest(k) \/ SaveTicket(k) \/ LoseClerk(k)

DeskSpec == DeskInit /\ [][DeskNext]_deskVars

-----------------------------------------------------------------------------
(* A resolved or closed ticket says when, although status and resolved_at are
   saved by different requests from rows read earlier. *)
SettledWhen == ticket.status \in Settled => ticket.resolved_at

(* A ticket waits for the student only after the support wrote last, or because
   a PATCH said so.  Requests that overlap or are lost break this in four ways
   only, which "crossed" records: a question whose ticket began to wait after
   it was read, a reply whose status comes after a newer question, a PATCH that
   puts an older status back, and a question lost before its status. *)
WaitingMeansAnswered ==
  ticket.status = "waiting_user" =>
    wrote_last = "support" \/ ticket.by_hand \/ crossed \/ \E k \in Clerk : desk[k].op = "asked"

(* The status of a ticket agrees with its time of resolution, however the
   requests of students and staff overlap, and with who wrote last, unless they
   overlap in one of these four ways. *)
DeskInStep == SettledWhen /\ WaitingMeansAnswered
=============================================================================
