------------------------- MODULE FeedbackForwarding -------------------------
(***************************************************************************)
(* One student's feedback on one completed job (ai_integration): given,    *)
(* given again in the same row, and forwarded to the AI service by a       *)
(* Celery task that retries, on workers that may die.                      *)
(***************************************************************************)
EXTENDS Naturals

CONSTANTS
  Forwarder,          \* the executions that can be under way at a time
  MaxVersion,         \* bound: how often the feedback is given
  Retries,            \* max_retries
  MaxDeaths           \* bound: the workers that die

ASSUME FeedbackAssumption == {MaxVersion, Retries, MaxDeaths} \subseteq Nat

VARIABLES
  version,            \* the feedback row, by how often it was given; 0: none
  forwarded,          \* forwarded_to_ai_service
  tasks,              \* messages at the broker, per retries already spent
  forward,            \* per forwarder: what it is at
  received,           \* the versions that reached the AI service
  deaths,             \* workers that died
  overtaken,          \* history: the flag stands for an older version
  given_up            \* history: since the version was given, a task was not
                      \*   sent or used up its retries

forwardVars == <<version, forwarded, tasks, forward, received, deaths, overtaken, given_up>>

Version == 1..MaxVersion
Asleep == [at |-> "rest"]
Forwarding == [at : {"read", "told"}, version : Version, tries : 0..Retries]

ForwardTypeOK ==
  /\ version \in 0..MaxVersion
  /\ forwarded \in BOOLEAN
  /\ tasks \in [0..Retries -> Nat]
  /\ forward \in [Forwarder -> Forwarding \cup {Asleep}]
  /\ received \subseteq Version
  /\ deaths \in 0..MaxDeaths
  /\ overtaken \in BOOLEAN /\ given_up \in BOOLEAN

ForwardInit ==
  /\ version = 0 /\ forwarded = FALSE
  /\ tasks = [n \in 0..Retries |-> 0]
  /\ forward = [f \in Forwarder |-> Asleep]
  /\ received = {}
  /\ deaths = 0
  /\ overtaken = FALSE /\ given_up = FALSE

-----------------------------------------------------------------------------
Send(n) == tasks' = [tasks EXCEPT ![n] = @ + 1]

(* POST feedback: update_or_create leaves the flag as it is; the message is
   sent after the commit, or is not. *)
GiveFeedback ==
  /\ version < MaxVersion
  /\ version' = version + 1
  /\ overtaken' = forwarded
  /\ \/ Send(0) /\ given_up' = FALSE
     \/ UNCHANGED tasks /\ given_up' = TRUE
  /\ UNCHANGED <<forwarded, forward, received, deaths>>

(* A worker takes a message and reads the row; nothing to do when the flag is
   set. *)
TakeTask(f, n) ==
  /\ forward[f] = Asleep /\ tasks[n] > 0
  /\ tasks' = [tasks EXCEPT ![n] = @ - 1]
  /\ forward' = [forward EXCEPT ![f] =
       IF forwarded THEN Asleep ELSE [at |-> "read", version |-> version, tries |-> n]]
  /\ UNCHANGED <<version, forwarded, received, deaths, overtaken, given_up>>

(* Mutant: the flag is saved before the call. *)
TellServiceLast(f) ==
  /\ forward[f].at = "read"
  /\ forward' = [forward EXCEPT ![f].at = "told"]
  /\ forwarded' = TRUE
  /\ overtaken' = (overtaken \/ forward[f].version # version)
  /\ UNCHANGED <<version, received, tasks, deaths, given_up>>

(* The AI service receives what was read. *)
TellService(f) ==
  /\ forward[f].at = "read"
  /\ forward' = [forward EXCEPT ![f].at = "told"]
  /\ received' = received \cup {forward[f].version}
  /\ UNCHANGED <<version, forwarded, tasks, deaths, overtaken, given_up>>

(* save(update_fields): the flag, for whatever the row says by now. *)
MarkForwarded(f) ==
  /\ forward[f].at = "told"
  /\ forward' = [forward EXCEPT ![f] = Asleep]
  /\ forwarded' = TRUE
  /\ overtaken' = (overtaken \/ forward[f].version # version)
  /\ UNCHANGED <<version, tasks, received, deaths, given_up>>

(* Any exception, also after the service has received the call (its answer is
   lost): another message, up to max_retries. *)
FailForward(f) ==
  LET n == forward[f].tries IN
  /\ forward[f].at \in {"read", "told"}
  /\ forward' = [forward EXCEPT ![f] = Asleep]
  /\ IF n < Retries THEN Send(n + 1) /\ UNCHANGED given_up
                    ELSE given_up' = TRUE /\ UNCHANGED tasks
  /\ UNCHANGED <<version, forwarded, received, deaths, overtaken>>

(* The worker dies: the message is delivered again. *)
LoseForwarder(f) ==
  /\ forward[f] # Asleep
  /\ deaths < MaxDeaths /\ deaths' = deaths + 1
  /\ forward' = [forward EXCEPT ![f] = Asleep]
  /\ Send(forward[f].tries)
  /\ UNCHANGED <<version, forwarded, received, overtaken, given_up>>

-----------------------------------------------------------------------------
ForwarderStep(f) ==
  \/ \E n \in 0..Retries : TakeTask(f, n)
  \/ TellService(f) \/ MarkForwarded(f) \/ FailForward(f)

ForwardNext ==
  \/ GiveFeedback
  \/ \E f \in Forwarder : ForwarderStep(f) \/ LoseForwarder(f)

ForwardSpec ==
  /\ ForwardInit /\ [][ForwardNext]_forwardVars
  /\ \A f \in Forwarder : WF_forwardVars(ForwarderStep(f))

-----------------------------------------------------------------------------
Pending ==
  \/ \E n \in 0..Retries : tasks[n] > 0
  \/ \E f \in Forwarder : forward[f].at = "read"

(* Feedback that the AI service has not received is on its way, unless it was
   given up after its retries or the flag stands for an older version: no
   worker that dies, and no answer that is lost, loses it otherwise. *)
FeedbackKnown ==
  version > 0 /\ version \notin received => Pending \/ overtaken \/ given_up
=============================================================================
