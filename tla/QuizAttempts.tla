---------------------------- MODULE QuizAttempts ----------------------------
(***************************************************************************)
(* The attempts of one student at one quiz (apps/quizzes/services.py).     *)
(* Every query is restricted to the student and the quiz, and the          *)
(* questions of a published quiz do not change.                            *)
(*                                                                         *)
(* A request reads the attempt without a lock (get_object), decides on     *)
(* what it has read, and writes later in a transaction: it is a step for   *)
(* each read and each commit, and other requests run in between.  What     *)
(* the database does lock is modelled as waiting: the answer rows of a     *)
(* submission until its commit, and, for a start, the attempt row against  *)
(* the answers being written for it.                                       *)
(***************************************************************************)
EXTENDS Naturals, FiniteSets, FiniteSetsExt

CONSTANTS
  Question,           \* the questions of the quiz
  Points,             \* Question -> the points of a right answer
  Submission,         \* bound: the answers an answer or submit request carries
  Request,            \* the requests that can be open at the same time
  MaxAttempts         \* bound: rows of QuizAttempt explored

Mark == {"none", "right", "wrong"}
Answers == [Question -> Mark]

ASSUME QuizAssumption ==
  /\ IsFiniteSet(Question) /\ Question # {}
  /\ Points \in [Question -> Nat]
  /\ Submission \subseteq Answers
  /\ MaxAttempts \in Nat

VARIABLES
  archived,           \* Quiz.status is archived (else published)
  status,             \* QuizAttempt.status, "none" for a row not created
  expired,            \* attempts past their deadline and its grace
  answers,            \* the StudentAnswer row of each question, as graded
  result,             \* the result stored on the attempt
  request,            \* the open requests, or Idle
  contended,          \* history: attempts two open requests were at
  startsOverlapped    \* history: two starts have been open at once

attemptVars == <<archived, status, expired, answers, result>>
historyVars == <<contended, startsOverlapped>>
vars == <<attemptVars, request, historyVars>>

Attempt == 1..MaxAttempts
Settled == {"submitted", "abandoned"}
AttemptStatus == {"none", "in_progress"} \cup Settled
Blank == [q \in Question |-> "none"]

(* calculate_attempt_result; the percentage is score over the quiz's total. *)
MarkedAs(m, given) == {q \in Question : given[q] = m}

Result(given) ==
  [score |-> MapThenSumSet(LAMBDA q : Points[q], MarkedAs("right", given)),
   correct |-> Cardinality(MarkedAs("right", given)),
   wrong |-> Cardinality(MarkedAs("wrong", given)),
   unanswered |-> Cardinality(MarkedAs("none", given))]

ResultRecord == [score : Nat, correct : Nat, wrong : Nat, unanswered : Nat]

Idle == [kind |-> "idle"]
Open ==
  [kind : {"starting", "answering", "submitting", "graded", "abandoning"},
   at : SUBSET Attempt,           \* the attempts the request has read
   given : Answers,
   late : BOOLEAN,                \* history: read after the deadline
   computed : ResultRecord]

TypeOK ==
  /\ archived \in BOOLEAN
  /\ status \in [Attempt -> AttemptStatus]
  /\ expired \subseteq Attempt
  /\ answers \in [Attempt -> Answers]
  /\ result \in [Attempt -> ResultRecord]
  /\ request \in [Request -> Open \cup {Idle}]
  /\ contended \subseteq Attempt
  /\ startsOverlapped \in BOOLEAN

Init ==
  /\ archived = FALSE
  /\ status = [a \in Attempt |-> "none"]
  /\ expired = {}
  /\ answers = [a \in Attempt |-> Blank]
  /\ result = [a \in Attempt |-> Result(Blank)]
  /\ request = [p \in Request |-> Idle]
  /\ contended = {}
  /\ startsOverlapped = FALSE

-----------------------------------------------------------------------------
InProgress(a) == status[a] = "in_progress"
Busy(p) == request[p] # Idle
IsAt(p, a) == Busy(p) /\ a \in request[p].at
Starting == {p \in Request : request[p].kind = "starting"}
Unused == {a \in Attempt : status[a] = "none"}

(* A request has read the attempts in S. *)
OpenRequest(p, kind, S, given) ==
  /\ ~Busy(p)
  /\ request' = [request EXCEPT ![p] =
       [kind |-> kind, at |-> S, given |-> given, late |-> S # {} /\ S \subseteq expired,
        computed |-> Result(Blank)]]
  /\ contended' = contended \cup {a \in S : \E o \in Request : IsAt(o, a)}
  /\ UNCHANGED attemptVars

CloseRequest(p) ==
  /\ request' = [request EXCEPT ![p] = Idle]
  /\ UNCHANGED historyVars

(* The answer rows a submission has written and not yet committed: another
   writer of the row waits (unique constraint on attempt and question). *)
Held(a) ==
  {q \in Question : \E p \in Request :
     IsAt(p, a) /\ request[p].kind = "graded" /\ request[p].given[q] # "none"}

Overwrite(old, given) ==
  [q \in Question |-> IF given[q] = "none" THEN old[q] ELSE given[q]]

Given(p) == {q \in Question : request[p].given[q] # "none"}

-----------------------------------------------------------------------------
(* start: the quiz is read, then select_for_update looks for the attempts in
   progress.  Bound: there is a row left for every open start. *)
BeginStart(p) ==
  /\ ~archived
  /\ Cardinality(Starting) < Cardinality(Unused)
  /\ OpenRequest(p, "starting", {a \in Attempt : InProgress(a)}, Blank)
  /\ startsOverlapped' = (startsOverlapped \/ Starting # {})

(* The rows found are checked again once they can be locked: what has been
   settled meanwhile is skipped, what has been created meanwhile is not seen.
   The latest one decides. *)
StillOpen(S) == {a \in S : InProgress(a)}

Existing(S) == {a \in StillOpen(S) : \A b \in StillOpen(S) : b <= a}

Reuse(found) == found \ expired # {} /\ UNCHANGED <<status, result>>

(* Mutant: the attempt found expired stays open. *)
StartAfreshOnly(found) ==
  \E new \in Unused :
    /\ found \subseteq expired
    /\ \A a \in Unused : new <= a
    /\ status' = [status EXCEPT ![new] = "in_progress"]
    /\ UNCHANGED result

(* An attempt found expired is submitted as it stands. *)
StartAfresh(found) ==
  \E new \in Unused :
    /\ found \subseteq expired
    /\ \A a \in Unused : new <= a
    /\ status' = [a \in Attempt |-> IF a \in found THEN "submitted"
                                   ELSE IF a = new THEN "in_progress"
                                   ELSE status[a]]
    /\ result' = [a \in Attempt |-> IF a \in found THEN Result(answers[a])
                                   ELSE result[a]]

FinishStart(p) ==
  LET found == Existing(request[p].at) IN
  /\ request[p].kind = "starting"
  /\ \A a \in found : Held(a) = {}
  /\ Reuse(found) \/ StartAfresh(found)
  /\ CloseRequest(p)
  /\ UNCHANGED <<archived, expired, answers>>

-----------------------------------------------------------------------------
(* answer: one question, refused when the attempt read is settled or late. *)
BeginAnswer(p, a, given) ==
  /\ InProgress(a) /\ a \notin expired
  /\ Cardinality(MarkedAs("none", given)) + 1 = Cardinality(Question)
  /\ OpenRequest(p, "answering", {a}, given)
  /\ UNCHANGED startsOverlapped

FinishAnswer(p, a) ==
  /\ request[p].kind = "answering" /\ a \in request[p].at
  /\ Given(p) \cap Held(a) = {}
  /\ answers' = [answers EXCEPT ![a] = Overwrite(@, request[p].given)]
  /\ CloseRequest(p)
  /\ UNCHANGED <<archived, status, expired, result>>

(* Mutant: the status is not checked. *)
BeginSubmitAnyStatus(p, a, given) ==
  /\ status[a] # "none"
  /\ OpenRequest(p, "submitting", {a}, given)
  /\ UNCHANGED startsOverlapped

BeginSubmit(p, a, given) ==
  /\ InProgress(a)
  /\ OpenRequest(p, "submitting", {a}, given)
  /\ UNCHANGED startsOverlapped

(* Mutant: answers are taken after the deadline. *)
TakenAnyTime(a, given) == given

Taken(a, given) == IF a \in expired THEN Blank ELSE given

(* Mutant: the result is computed before the answers are stored. *)
GradeStoredOnly(a, taken) == Result(answers[a])

Grade(a, taken) == Result(Overwrite(answers[a], taken))

(* submit_quiz_attempt up to its save: the answers are written, visible to
   this transaction only, and the result is computed from what it sees. *)
GradeSubmission(p, a) ==
  LET taken == Taken(a, request[p].given) IN
  /\ request[p].kind = "submitting" /\ a \in request[p].at
  /\ {q \in Question : taken[q] # "none"} \cap Held(a) = {}
  /\ request' = [request EXCEPT ![p] =
                   [@ EXCEPT !.kind = "graded", !.given = taken,
                             !.computed = Grade(a, taken)]]
  /\ UNCHANGED <<attemptVars, historyVars>>

(* attempt.save() writes every field, whatever the row holds by now. *)
SaveSubmission(p, a) ==
  /\ request[p].kind = "graded" /\ a \in request[p].at
  /\ status' = [status EXCEPT ![a] = "submitted"]
  /\ answers' = [answers EXCEPT ![a] = Overwrite(@, request[p].given)]
  /\ result' = [result EXCEPT ![a] = request[p].computed]
  /\ CloseRequest(p)
  /\ UNCHANGED <<archived, expired>>

BeginAbandon(p, a) ==
  /\ InProgress(a)
  /\ OpenRequest(p, "abandoning", {a}, Blank)
  /\ UNCHANGED startsOverlapped

(* Mutant: a status of another table. *)
FinishAbandonCanceled(p, a) ==
  /\ request[p].kind = "abandoning" /\ a \in request[p].at
  /\ status' = [status EXCEPT ![a] = "canceled"]
  /\ CloseRequest(p)
  /\ UNCHANGED <<archived, expired, answers, result>>

FinishAbandon(p, a) ==
  /\ request[p].kind = "abandoning" /\ a \in request[p].at
  /\ status' = [status EXCEPT ![a] = "abandoned"]
  /\ CloseRequest(p)
  /\ UNCHANGED <<archived, expired, answers, result>>

(* The process is lost, or the database ends a deadlock of two submissions:
   the transaction is rolled back. *)
LoseRequest(p) ==
  /\ Busy(p)
  /\ CloseRequest(p)
  /\ UNCHANGED attemptVars

-----------------------------------------------------------------------------
Archive ==
  /\ ~archived /\ archived' = TRUE
  /\ UNCHANGED <<status, expired, answers, result, request, historyVars>>

(* publish_quiz does not ask whether the quiz is a draft. *)
Publish ==
  /\ archived /\ archived' = FALSE
  /\ UNCHANGED <<status, expired, answers, result, request, historyVars>>

(* Deadlines pass in the order the attempts were started in. *)
Expire(a) ==
  /\ status[a] # "none" /\ a \notin expired
  /\ \A b \in Attempt : b < a => b \in expired
  /\ expired' = expired \cup {a}
  /\ UNCHANGED <<archived, status, answers, result, request, historyVars>>

BeginStep(p) ==
  \/ BeginStart(p)
  \/ \E a \in Attempt :
       \/ \E given \in Submission : BeginAnswer(p, a, given) \/ BeginSubmit(p, a, given)
       \/ BeginAbandon(p, a)

FinishStep(p) ==
  \/ FinishStart(p)
  \/ \E a \in Attempt :
       \/ FinishAnswer(p, a) \/ FinishAbandon(p, a)
       \/ GradeSubmission(p, a) \/ SaveSubmission(p, a)

Next ==
  \/ \E p \in Request : BeginStep(p) \/ FinishStep(p) \/ LoseRequest(p)
  \/ \E a \in Attempt : Expire(a)
  \/ Archive \/ Publish

Spec == Init /\ [][Next]_vars

-----------------------------------------------------------------------------
(* The result of a submitted attempt is that of the answers it keeps, the
   ones saved before a missed deadline included, unless two requests were at
   the attempt at once (submit_quiz_attempt, start_quiz_attempt). *)
ResultOfAnswers ==
  \A a \in Attempt \ contended :
    status[a] = "submitted" => result[a] = Result(answers[a])

(* A submitted or abandoned attempt is final: its status, its answers and its
   result never change again, unless two requests were at it at once. *)
SettledAttemptsFrozen ==
  [][\A a \in Attempt \ contended' :
       status[a] \in Settled =>
         /\ status'[a] = status[a]
         /\ answers'[a] = answers[a]
         /\ result'[a] = result[a]]_vars

(* Answers delivered after the deadline are ignored: the answers of an
   expired attempt change only by a request that came before it expired. *)
LateAnswersIgnored ==
  [][\A a \in expired :
       (\A p \in Request : IsAt(p, a) => request[p].late)
         => answers'[a] = answers[a]]_vars

(* Starting a quiz again returns the attempt in progress: whatever is
   submitted, abandoned or lost meanwhile, a student has at most one, unless
   two starts were open at once. *)
AtMostOne(S) == \A a, b \in S : a = b
OneActiveUnlessRaced ==
  startsOverlapped \/ AtMostOne({a \in Attempt : InProgress(a)})

(* Active attempts are reused safely (RELEASE_CHANGELOG.md): a student never
   has two attempts in progress at one quiz. *)
ActiveAttemptReused == AtMostOne({a \in Attempt : InProgress(a)})

=============================================================================
