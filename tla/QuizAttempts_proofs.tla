------------------------ MODULE QuizAttempts_proofs ------------------------
(***************************************************************************)
(* Proofs about QuizAttempts, for any quiz, any number of attempts and any *)
(* number of requests open at once.                                        *)
(*                                                                         *)
(* What happens to an attempt that no two requests were at together is     *)
(* decided by the one request at it: it is alone, the attempt it has read  *)
(* is still in progress, and the result it has computed is that of the     *)
(* answers it is about to leave.                                           *)
(***************************************************************************)
EXTENDS QuizAttempts, Sums, TLAPS

Kinds == {"starting", "answering", "submitting", "graded", "abandoning"}
Results == {Result(given) : given \in Answers}
OpenRecord ==
  [kind : Kinds, at : SUBSET Attempt, given : Answers, late : BOOLEAN,
   computed : Results]

(* The types the proofs need: a result is one that some answers have. *)
ShapeInv ==
  /\ status \in [Attempt -> AttemptStatus]
  /\ expired \subseteq Attempt
  /\ answers \in [Attempt -> Answers]
  /\ result \in [Attempt -> Results]
  /\ request \in [Request -> OpenRecord \cup {Idle}]

(* At an attempt that is not contended there is one request at most. *)
Alone ==
  \A a \in Attempt \ contended : \A p, o \in Request :
    IsAt(p, a) /\ IsAt(o, a) => p = o

(* What a request has read in progress still is. *)
ReadIsCurrent ==
  \A a \in Attempt \ contended : \A p \in Request : IsAt(p, a) => InProgress(a)

(* Only a start reads more than one attempt. *)
SingleRead ==
  \A p \in Request, a, b \in Attempt :
    IsAt(p, a) /\ IsAt(p, b) /\ request[p].kind # "starting" => a = b

(* A computed result will be that of the answers when it is saved. *)
ComputedIsCurrent ==
  \A a \in Attempt \ contended : \A p \in Request :
    IsAt(p, a) /\ request[p].kind = "graded"
      => request[p].computed = Result(Overwrite(answers[a], request[p].given))

(* A late request carries no answers once they have been looked at. *)
LateIsBlank ==
  \A p \in Request :
    Busy(p) /\ request[p].late =>
      /\ request[p].at \subseteq expired
      /\ request[p].kind \in {"answering", "graded"} => request[p].given = Blank

(* A start that is alone has read every attempt in progress. *)
StartsInv ==
  ~startsOverlapped =>
    /\ \A p, o \in Starting : p = o
    /\ AtMostOne({a \in Attempt : InProgress(a)})
    /\ \A p \in Starting, a \in Attempt : InProgress(a) => a \in request[p].at

AttemptInv ==
  /\ ShapeInv /\ Alone /\ ReadIsCurrent /\ SingleRead /\ ComputedIsCurrent
  /\ ResultOfAnswers /\ LateIsBlank /\ StartsInv

USE QuizAssumption DEF Attempt

-----------------------------------------------------------------------------
LEMMA BlankType == Blank \in Answers /\ Result(Blank) \in Results
BY DEF Blank, Answers, Mark, Results

LEMMA OverwriteType ==
  ASSUME NEW old \in Answers, NEW given \in Answers
  PROVE  Overwrite(old, given) \in Answers
BY DEF Overwrite, Answers

LEMMA OverwriteBlank ==
  ASSUME NEW old \in Answers
  PROVE  Overwrite(old, Blank) = old
BY DEF Overwrite, Answers, Blank

LEMMA IdleIsNotOpen ==
  ASSUME NEW rec \in OpenRecord
  PROVE  rec # Idle /\ rec.kind # "idle"
BY DEF OpenRecord, Kinds, Idle

LEMMA InitInv == Init => AttemptInv
<1> SUFFICES ASSUME Init PROVE AttemptInv
  OBVIOUS
<1>1. ShapeInv
  BY BlankType DEF Init, ShapeInv, AttemptStatus
<1>2. \A p \in Request : ~Busy(p) /\ p \notin Starting
  BY DEF Init, Busy, Starting, Idle
<1>3. \A a \in Attempt : ~InProgress(a) /\ status[a] # "submitted"
  BY DEF Init, InProgress
<1>4. Alone /\ ReadIsCurrent /\ SingleRead /\ ComputedIsCurrent
  BY <1>2 DEF Alone, ReadIsCurrent, SingleRead, ComputedIsCurrent, IsAt
<1>5. ResultOfAnswers /\ LateIsBlank
  BY <1>2, <1>3 DEF ResultOfAnswers, LateIsBlank
<1>6. StartsInv
  BY <1>2, <1>3 DEF StartsInv, AtMostOne, Starting
<1> QED BY <1>1, <1>4, <1>5, <1>6 DEF AttemptInv

-----------------------------------------------------------------------------
(* A request is opened. *)
LEMMA OpenKeepsInv ==
  ASSUME AttemptInv,
         NEW p \in Request, NEW kind \in Kinds \ {"graded"},
         NEW S \in SUBSET Attempt, NEW given \in Answers,
         OpenRequest(p, kind, S, given),
         \A a \in S : InProgress(a),
         kind = "answering" => ~(S \subseteq expired),
         kind # "starting" => AtMostOne(S) /\ UNCHANGED startsOverlapped,
         kind = "starting" =>
           /\ S = {a \in Attempt : InProgress(a)}
           /\ startsOverlapped' = (startsOverlapped \/ Starting # {})
  PROVE  AttemptInv'
<1> DEFINE rec == [kind |-> kind, at |-> S, given |-> given,
                   late |-> S # {} /\ S \subseteq expired, computed |-> Result(Blank)]
<1>0. /\ ShapeInv /\ Alone /\ ReadIsCurrent /\ SingleRead /\ ComputedIsCurrent
      /\ ResultOfAnswers /\ LateIsBlank /\ StartsInv
  BY DEF AttemptInv
<1>1. /\ ~Busy(p) /\ request' = [request EXCEPT ![p] = rec]
      /\ contended' = contended \cup {a \in S : \E o \in Request : IsAt(o, a)}
      /\ UNCHANGED <<archived, status, expired, answers, result>>
  BY DEF OpenRequest, attemptVars
<1>2. rec \in OpenRecord
  BY BlankType DEF OpenRecord
<1>3. request'[p] = rec /\ \A o \in Request \ {p} : request'[o] = request[o]
  BY <1>0, <1>1 DEF ShapeInv
<1>4. Busy(p)' /\ \A o \in Request \ {p} : Busy(o)' <=> Busy(o)
  BY <1>2, <1>3, IdleIsNotOpen DEF Busy
<1>5. \A a \in Attempt : /\ IsAt(p, a)' <=> a \in S
                         /\ ~IsAt(p, a)
                         /\ \A o \in Request \ {p} : IsAt(o, a)' <=> IsAt(o, a)
  BY <1>1, <1>3, <1>4 DEF IsAt
<1>6. ShapeInv'
  BY <1>0, <1>1, <1>2 DEF ShapeInv
<1>7. Alone'
  BY <1>0, <1>1, <1>5 DEF Alone
<1>8. ReadIsCurrent'
  BY <1>0, <1>1, <1>5 DEF ReadIsCurrent, InProgress
<1>9. ComputedIsCurrent'
  BY <1>0, <1>1, <1>3, <1>5 DEF ComputedIsCurrent, Overwrite
<1>10. ResultOfAnswers'
  BY <1>0, <1>1 DEF ResultOfAnswers
<1>11. LateIsBlank'
  <2> SUFFICES ASSUME NEW o \in Request, Busy(o)', request'[o].late
               PROVE  /\ request'[o].at \subseteq expired
                      /\ request'[o].kind \in {"answering", "graded"}
                           => request'[o].given = Blank
    BY <1>1 DEF LateIsBlank
  <2>1. CASE o = p
    <3> HIDE DEF rec
    <3>1. request'[o] = rec
      BY <1>3, <2>1
    <3>2. rec.late => S \subseteq expired
      BY Zenon DEF rec
    <3>3. S \subseteq expired
      BY <3>1, <3>2, Zenon
    <3> USE DEF rec
    <3>4. request'[o].kind = kind /\ request'[o].at = S
      BY <1>3, <2>1
    <3> QED BY <1>1, <3>3, <3>4
  <2>2. CASE o # p
    BY <1>0, <1>3, <1>4, <2>2 DEF LateIsBlank
  <2> QED BY <2>1, <2>2
<1>12. StartsInv'
  <2>1. Starting' = IF kind = "starting" THEN Starting \cup {p} ELSE Starting
    BY <1>1, <1>3 DEF Starting, Busy, Idle
  <2> SUFFICES ASSUME ~startsOverlapped'
               PROVE  /\ \A q, o \in Starting' : q = o
                      /\ AtMostOne({a \in Attempt : InProgress(a)'})
                      /\ \A q \in Starting', a \in Attempt :
                           InProgress(a)' => a \in request'[q].at
    BY DEF StartsInv
  <2>2. \A a \in Attempt : InProgress(a)' <=> InProgress(a)
    BY <1>1 DEF InProgress
  <2>3. ~startsOverlapped /\ (kind = "starting" => Starting = {})
    <3>1. CASE kind = "starting"
      <4>1. startsOverlapped' = (startsOverlapped \/ Starting # {})
        BY <3>1
      <4>2. ~(startsOverlapped \/ Starting # {})
        BY <4>1, Zenon
      <4> QED BY <4>2
    <3>2. CASE kind # "starting"
      <4>1. startsOverlapped' = startsOverlapped
        BY <3>2
      <4> QED BY <3>2, <4>1
    <3> QED BY <3>1, <3>2
  <2>4. /\ \A q, o \in Starting : q = o
        /\ AtMostOne({a \in Attempt : InProgress(a)})
        /\ \A q \in Starting, a \in Attempt : InProgress(a) => a \in request[q].at
    BY <1>0, <2>3 DEF StartsInv
  <2>5. request'[p].at = S
    BY <1>3
  <2>6. p \notin Starting /\ Starting \subseteq Request
    BY <1>1 DEF Busy, Starting, Idle
  <2>7. \A q, o \in Starting' : q = o
    BY <2>1, <2>3, <2>4
  <2>8. AtMostOne({a \in Attempt : InProgress(a)'})
    BY <2>2, <2>4 DEF AtMostOne
  <2>9. \A q \in Starting', a \in Attempt : InProgress(a)' => a \in request'[q].at
    <3>1. CASE kind = "starting"
      BY <2>1, <2>2, <2>3, <2>5, <3>1
    <3>2. CASE kind # "starting"
      BY <1>3, <2>1, <2>2, <2>4, <2>6, <3>2
    <3> QED BY <3>1, <3>2
  <2> QED BY <2>7, <2>8, <2>9
<1>20. SingleRead'
  BY <1>0, <1>1, <1>3, <1>5 DEF SingleRead, AtMostOne
<1> QED BY <1>6, <1>7, <1>8, <1>9, <1>10, <1>11, <1>12, <1>20 DEF AttemptInv

(* The frame of every step that closes a request. *)
LEMMA CloseFrame ==
  ASSUME ShapeInv, NEW p \in Request, CloseRequest(p)
  PROVE  /\ request' \in [Request -> OpenRecord \cup {Idle}]
         /\ ~Busy(p)'
         /\ \A o \in Request \ {p} : request'[o] = request[o] /\ (Busy(o)' <=> Busy(o))
         /\ \A a : ~IsAt(p, a)'
         /\ \A a : \A o \in Request \ {p} : IsAt(o, a)' <=> IsAt(o, a)
         /\ Starting' = Starting \ {p}
         /\ UNCHANGED historyVars
BY DEF ShapeInv, CloseRequest, Busy, IsAt, Idle, Starting

-----------------------------------------------------------------------------
(* A request is closed and nothing it was at is changed (it is lost, or a
   start returns the attempt it has found). *)
LEMMA LoseKeepsInv ==
  ASSUME AttemptInv, NEW p \in Request, CloseRequest(p), UNCHANGED attemptVars
  PROVE  AttemptInv'
<1>0. /\ ShapeInv /\ Alone /\ ReadIsCurrent /\ SingleRead /\ ComputedIsCurrent
      /\ ResultOfAnswers /\ LateIsBlank /\ StartsInv
  BY DEF AttemptInv
<1>1. UNCHANGED <<status, expired, answers, result, contended, startsOverlapped>>
  BY <1>0, CloseFrame DEF attemptVars, historyVars
<1>2. ShapeInv'
  BY <1>0, <1>1, CloseFrame DEF ShapeInv
<1>3. Alone'
  BY <1>0, <1>1, CloseFrame DEF Alone
<1>4. ReadIsCurrent'
  BY <1>0, <1>1, CloseFrame DEF ReadIsCurrent, InProgress
<1>5. ComputedIsCurrent'
  BY <1>0, <1>1, CloseFrame DEF ComputedIsCurrent, Overwrite
<1>6. ResultOfAnswers'
  BY <1>0, <1>1 DEF ResultOfAnswers
<1>7. LateIsBlank'
  BY <1>0, <1>1, CloseFrame DEF LateIsBlank
<1>8. StartsInv'
  BY <1>0, <1>1, CloseFrame DEF StartsInv, InProgress, AtMostOne, Starting
<1>20. SingleRead'
  BY <1>0, CloseFrame DEF SingleRead
<1> QED BY <1>2, <1>3, <1>4, <1>5, <1>6, <1>7, <1>8, <1>20 DEF AttemptInv

(* A request is closed and the one attempt it was at is settled or answered. *)
LEMMA WriteKeepsInv ==
  ASSUME AttemptInv, NEW p \in Request, NEW b \in Attempt, IsAt(p, b),
         request[p].kind # "starting", CloseRequest(p),
         UNCHANGED <<archived, expired>>,
         NEW s \in AttemptStatus, NEW given \in Answers, NEW r \in Results,
         status' = [status EXCEPT ![b] = s],
         answers' = [answers EXCEPT ![b] = given],
         result' = [result EXCEPT ![b] = r],
         s = "in_progress" => status[b] = "in_progress",
         b \notin contended /\ s = "submitted" => r = Result(given)
  PROVE  AttemptInv'
<1>0. /\ ShapeInv /\ Alone /\ ReadIsCurrent /\ SingleRead /\ ComputedIsCurrent
      /\ ResultOfAnswers /\ LateIsBlank /\ StartsInv
  BY DEF AttemptInv
<1>1. UNCHANGED <<contended, startsOverlapped>>
  BY <1>0, CloseFrame DEF historyVars
<1>2. /\ status'[b] = s /\ answers'[b] = given /\ result'[b] = r
      /\ \A a \in Attempt \ {b} :
           status'[a] = status[a] /\ answers'[a] = answers[a] /\ result'[a] = result[a]
  BY <1>0 DEF ShapeInv
<1>3. \A o \in Request : b \notin contended => ~IsAt(o, b)'
  BY <1>0, CloseFrame DEF Alone
<1>4. ShapeInv'
  BY <1>0, CloseFrame DEF ShapeInv
<1>5. Alone'
  BY <1>0, <1>1, CloseFrame DEF Alone
<1>6. ReadIsCurrent'
  BY <1>0, <1>1, <1>2, <1>3, CloseFrame DEF ReadIsCurrent, InProgress
<1>7. ComputedIsCurrent'
  <2> SUFFICES ASSUME NEW a \in Attempt \ contended, NEW o \in Request, IsAt(o, a)',
                      request'[o].kind = "graded"
               PROVE  request'[o].computed
                        = Result(Overwrite(answers'[a], request'[o].given))
    BY <1>1 DEF ComputedIsCurrent
  <2>1. o # p /\ a # b
    BY <1>0, <1>3, CloseFrame
  <2>2. request'[o] = request[o] /\ IsAt(o, a) /\ answers'[a] = answers[a]
    BY <1>0, <1>2, <2>1, CloseFrame
  <2>3. request[o].computed = Result(Overwrite(answers[a], request[o].given))
    BY <1>0, <2>2 DEF ComputedIsCurrent
  <2> QED BY <2>2, <2>3
<1>8. ResultOfAnswers'
  BY <1>0, <1>1, <1>2 DEF ResultOfAnswers
<1>9. LateIsBlank'
  BY <1>0, <1>1, CloseFrame DEF LateIsBlank
<1>10. StartsInv'
  <2>1. \A a \in Attempt : InProgress(a)' => InProgress(a)
    BY <1>2 DEF InProgress
  <2> QED BY <1>0, <1>1, <2>1, CloseFrame DEF StartsInv, AtMostOne, Starting
<1>20. SingleRead'
  BY <1>0, CloseFrame DEF SingleRead
<1> QED BY <1>4, <1>5, <1>6, <1>7, <1>8, <1>9, <1>10, <1>20 DEF AttemptInv

LEMMA StartAfreshKeepsInv ==
  ASSUME AttemptInv, NEW p \in Request, request[p].kind = "starting",
         StartAfresh(Existing(request[p].at)), CloseRequest(p),
         UNCHANGED <<archived, expired, answers>>
  PROVE  AttemptInv'
<1> DEFINE at == request[p].at
           found == Existing(at)
<1>0. /\ ShapeInv /\ Alone /\ ReadIsCurrent /\ SingleRead /\ ComputedIsCurrent
      /\ ResultOfAnswers /\ LateIsBlank /\ StartsInv
  BY DEF AttemptInv
<1>1. PICK new \in Unused :
        /\ status' = [a \in Attempt |-> IF a \in found THEN "submitted"
                                       ELSE IF a = new THEN "in_progress"
                                       ELSE status[a]]
        /\ result' = [a \in Attempt |-> IF a \in found THEN Result(answers[a])
                                       ELSE result[a]]
  BY DEF StartAfresh
<1>2. UNCHANGED <<contended, startsOverlapped>>
  BY <1>0, CloseFrame DEF historyVars
<1>3. Busy(p) /\ at \subseteq Attempt /\ found \subseteq at
  BY <1>0 DEF ShapeInv, Busy, Idle, OpenRecord, Existing, StillOpen
<1>4. \A a \in found : IsAt(p, a) /\ InProgress(a)
  BY <1>3 DEF IsAt, Existing, StillOpen
<1>5. \A o \in Request, a \in Attempt \ contended : IsAt(o, a)' => a \notin found
  BY <1>0, <1>2, <1>4, CloseFrame DEF Alone
<1>6. \A o \in Request, a \in Attempt \ contended : IsAt(o, a)' => status'[a] = status[a]
  <2>1. \A o \in Request, a \in Attempt \ contended : IsAt(o, a)' => InProgress(a)
    BY <1>0, CloseFrame DEF ReadIsCurrent
  <2>2. ~InProgress(new)
    BY DEF Unused, InProgress
  <2> QED BY <1>1, <1>5, <2>1, <2>2
<1>7. ShapeInv'
  <2>1. status' \in [Attempt -> AttemptStatus]
    BY <1>0, <1>1 DEF ShapeInv, AttemptStatus, Settled
  <2>2. result' \in [Attempt -> Results]
    BY <1>0, <1>1 DEF ShapeInv, Results
  <2> QED BY <1>0, <2>1, <2>2, CloseFrame DEF ShapeInv
<1>8. Alone'
  BY <1>0, <1>2, CloseFrame DEF Alone
<1>9. ReadIsCurrent'
  BY <1>0, <1>2, <1>6, CloseFrame DEF ReadIsCurrent, InProgress
<1>10. ComputedIsCurrent'
  BY <1>0, <1>2, CloseFrame DEF ComputedIsCurrent, Overwrite
<1>11. ResultOfAnswers'
  BY <1>0, <1>1, <1>2 DEF ResultOfAnswers
<1>12. LateIsBlank'
  BY <1>0, CloseFrame DEF LateIsBlank
<1>13. StartsInv'
  <2> SUFFICES ASSUME ~startsOverlapped'
               PROVE  /\ Starting' = {}
                      /\ AtMostOne({a \in Attempt : InProgress(a)'})
    BY DEF StartsInv
  <2>1. /\ \A q, o \in Starting : q = o
        /\ AtMostOne({a \in Attempt : InProgress(a)})
        /\ p \in Starting
        /\ \A a \in Attempt : InProgress(a) => a \in at
    BY <1>0, <1>2 DEF StartsInv, Starting
  <2>2. Starting' = {}
    BY <1>0, <2>1, CloseFrame
  <2>3. \A a \in Attempt : InProgress(a) => a \in found
    BY <1>3, <2>1 DEF AtMostOne, Existing, StillOpen
  <2>4. \A a \in Attempt : InProgress(a)' => a = new
    BY <1>1, <2>3 DEF InProgress
  <2> QED BY <2>2, <2>4 DEF AtMostOne
<1>20. SingleRead'
  BY <1>0, CloseFrame DEF SingleRead
<1> QED BY <1>7, <1>8, <1>9, <1>10, <1>11, <1>12, <1>13, <1>20 DEF AttemptInv
LEMMA GradeKeepsInv ==
  ASSUME AttemptInv, NEW p \in Request, NEW b \in Attempt, GradeSubmission(p, b)
  PROVE  AttemptInv'
<1> DEFINE taken == Taken(b, request[p].given)
           rec == [request[p] EXCEPT !.kind = "graded", !.given = taken,
                                     !.computed = Grade(b, taken)]
<1>0. /\ ShapeInv /\ Alone /\ ReadIsCurrent /\ SingleRead /\ ComputedIsCurrent
      /\ ResultOfAnswers /\ LateIsBlank /\ StartsInv
  BY DEF AttemptInv
<1>1. /\ request[p].kind = "submitting" /\ b \in request[p].at
      /\ request' = [request EXCEPT ![p] = rec]
      /\ UNCHANGED <<archived, status, expired, answers, result, contended,
                     startsOverlapped>>
  BY DEF GradeSubmission, attemptVars, historyVars
<1>2. request[p] \in OpenRecord
  BY <1>0, <1>1 DEF ShapeInv, Idle
<1>3. taken \in Answers
  BY <1>2, BlankType DEF Taken, OpenRecord
<1>4. Grade(b, taken) \in Results
  BY <1>0, <1>3, OverwriteType DEF Grade, Results, ShapeInv
<1>5. rec \in OpenRecord
  BY <1>2, <1>3, <1>4 DEF OpenRecord, Kinds
<1>6. /\ rec.kind = "graded" /\ rec.given = taken /\ rec.computed = Grade(b, taken)
      /\ rec.at = request[p].at /\ rec.late = request[p].late
  BY <1>2 DEF OpenRecord
<1> HIDE DEF rec, taken
<1>7. request'[p] = rec /\ \A o \in Request \ {p} : request'[o] = request[o]
  BY <1>0, <1>1 DEF ShapeInv
<1>8. \A o \in Request : Busy(o)' <=> Busy(o)
  BY <1>2, <1>5, <1>7, IdleIsNotOpen DEF Busy
<1>9. \A o \in Request, a \in Attempt : IsAt(o, a)' <=> IsAt(o, a)
  BY <1>6, <1>7, <1>8 DEF IsAt
<1>10. ShapeInv'
  BY <1>0, <1>1, <1>5 DEF ShapeInv
<1>11. Alone'
  BY <1>0, <1>1, <1>9 DEF Alone
<1>12. ReadIsCurrent'
  BY <1>0, <1>1, <1>9 DEF ReadIsCurrent, InProgress
<1>13. ComputedIsCurrent'
  <2> SUFFICES ASSUME NEW a \in Attempt \ contended, NEW o \in Request,
                      IsAt(o, a), request'[o].kind = "graded"
               PROVE  request'[o].computed
                        = Result(Overwrite(answers[a], request'[o].given))
    BY <1>1, <1>9 DEF ComputedIsCurrent, Overwrite
  <2>1. CASE o = p
    <3>1. a = b
      <4>1. Busy(p)
        BY <1>1 DEF Busy, Idle
      <4> QED BY <1>0, <1>1, <1>9, <2>1, <4>1 DEF SingleRead, IsAt
    <3> QED BY <1>6, <1>7, <2>1, <3>1 DEF Grade
  <2>2. CASE o # p
    BY <1>0, <1>7, <2>2 DEF ComputedIsCurrent
  <2> QED BY <2>1, <2>2
<1>14. ResultOfAnswers'
  BY <1>0, <1>1 DEF ResultOfAnswers
<1>15. LateIsBlank'
  <2> SUFFICES ASSUME NEW o \in Request, Busy(o)', request'[o].late
               PROVE  /\ request'[o].at \subseteq expired
                      /\ request'[o].kind \in {"answering", "graded"}
                           => request'[o].given = Blank
    BY <1>1 DEF LateIsBlank
  <2>1. CASE o = p
    <3>1. request[p].late /\ Busy(p)
      BY <1>6, <1>7, <1>8, <2>1
    <3>2. request[p].at \subseteq expired
      BY <1>0, <3>1 DEF LateIsBlank
    <3>3. taken = Blank
      BY <1>1, <3>2 DEF taken, Taken
    <3> QED BY <1>6, <1>7, <2>1, <3>2, <3>3
  <2>2. CASE o # p
    BY <1>0, <1>7, <1>8, <2>2 DEF LateIsBlank
  <2> QED BY <2>1, <2>2
<1>16. StartsInv'
  <2>1. Starting' = Starting
    BY <1>1, <1>6, <1>7 DEF Starting
  <2>2. \A a \in Attempt : InProgress(a)' <=> InProgress(a)
    BY <1>1 DEF InProgress
  <2>3. \A o \in Starting : request'[o] = request[o]
    BY <1>1, <1>7 DEF Starting
  <2> QED BY <1>0, <1>1, <2>1, <2>2, <2>3 DEF StartsInv, AtMostOne
<1>20. SingleRead'
  BY <1>0, <1>1, <1>6, <1>7, <1>9 DEF SingleRead
<1> QED BY <1>10, <1>11, <1>12, <1>13, <1>14, <1>15, <1>16, <1>20 DEF AttemptInv

LEMMA TimeKeepsInv ==
  ASSUME AttemptInv, (\E a \in Attempt : Expire(a)) \/ Archive \/ Publish
  PROVE  AttemptInv'
<1>0. /\ ShapeInv /\ Alone /\ ReadIsCurrent /\ SingleRead /\ ComputedIsCurrent
      /\ ResultOfAnswers /\ LateIsBlank /\ StartsInv
  BY DEF AttemptInv
<1>1. /\ UNCHANGED <<status, answers, result, request, contended, startsOverlapped>>
      /\ expired \subseteq expired' /\ expired' \subseteq Attempt
  BY <1>0 DEF Expire, Archive, Publish, historyVars, ShapeInv
<1>2. ShapeInv'
  BY <1>0, <1>1 DEF ShapeInv
<1>3. Alone' /\ ReadIsCurrent' /\ SingleRead'
  BY <1>0, <1>1 DEF Alone, ReadIsCurrent, SingleRead, IsAt, Busy, InProgress
<1>4. ComputedIsCurrent' /\ ResultOfAnswers'
  BY <1>0, <1>1 DEF ComputedIsCurrent, ResultOfAnswers, IsAt, Busy, Overwrite
<1>5. LateIsBlank'
  BY <1>0, <1>1 DEF LateIsBlank, Busy
<1>6. StartsInv'
  BY <1>0, <1>1 DEF StartsInv, Starting, InProgress, AtMostOne
<1> QED BY <1>2, <1>3, <1>4, <1>5, <1>6 DEF AttemptInv

LEMMA BeginKeepsInv ==
  ASSUME AttemptInv, NEW p \in Request, BeginStep(p)
  PROVE  AttemptInv'
<1>1. CASE BeginStart(p)
  BY <1>1, OpenKeepsInv, BlankType DEF BeginStart, Kinds
<1>2. CASE \E a \in Attempt : BeginAbandon(p, a)
  BY <1>2, OpenKeepsInv, BlankType DEF BeginAbandon, Kinds, AtMostOne
<1>3. CASE \E a \in Attempt, given \in Submission : BeginSubmit(p, a, given)
  BY <1>3, OpenKeepsInv DEF BeginSubmit, Kinds, AtMostOne
<1>4. CASE \E a \in Attempt, given \in Submission : BeginAnswer(p, a, given)
  BY <1>4, OpenKeepsInv DEF BeginAnswer, Kinds, AtMostOne
<1> QED BY <1>1, <1>2, <1>3, <1>4 DEF BeginStep

LEMMA FinishKeepsInv ==
  ASSUME AttemptInv, NEW p \in Request, FinishStep(p)
  PROVE  AttemptInv'
<1>0. /\ ShapeInv /\ ReadIsCurrent /\ ComputedIsCurrent
  BY DEF AttemptInv
<1>1. CASE FinishStart(p)
  <2>1. CASE Reuse(Existing(request[p].at))
    BY <1>1, <2>1, LoseKeepsInv DEF FinishStart, Reuse, attemptVars
  <2>2. CASE StartAfresh(Existing(request[p].at))
    BY <1>1, <2>2, StartAfreshKeepsInv DEF FinishStart
  <2> QED BY <1>1, <2>1, <2>2 DEF FinishStart
<1>2. CASE \E a \in Attempt : GradeSubmission(p, a)
  BY <1>2, GradeKeepsInv
<1>3. ASSUME NEW a \in Attempt,
             FinishAnswer(p, a) \/ SaveSubmission(p, a) \/ FinishAbandon(p, a)
      PROVE  AttemptInv'
  <2>1. /\ request[p].kind \in {"answering", "graded", "abandoning"}
        /\ a \in request[p].at /\ CloseRequest(p) /\ UNCHANGED <<archived, expired>>
    BY <1>3 DEF FinishAnswer, SaveSubmission, FinishAbandon
  <2>2. IsAt(p, a) /\ request[p] \in OpenRecord
    BY <1>0, <2>1 DEF IsAt, Busy, Idle, ShapeInv
  <2>3. /\ request[p].given \in Answers /\ request[p].computed \in Results
        /\ answers[a] \in Answers /\ result[a] \in Results
        /\ status[a] \in AttemptStatus
    BY <1>0, <2>2 DEF ShapeInv, OpenRecord
  <2>4. a \notin contended => InProgress(a)
    BY <1>0, <2>2 DEF ReadIsCurrent
  <2>5. CASE SaveSubmission(p, a)
    <3>1. a \notin contended =>
            request[p].computed = Result(Overwrite(answers[a], request[p].given))
      BY <1>0, <2>2, <2>5 DEF ComputedIsCurrent, SaveSubmission
    <3>2. Overwrite(answers[a], request[p].given) \in Answers
      BY <2>3, OverwriteType
    <3> QED BY <1>0, <2>1, <2>2, <2>3, <2>5, <3>1, <3>2, WriteKeepsInv
            DEF SaveSubmission, AttemptStatus, Settled, ShapeInv
  <2>6. CASE FinishAbandon(p, a)
    <3>1. answers' = [answers EXCEPT ![a] = answers[a]]
          /\ result' = [result EXCEPT ![a] = result[a]]
      BY <1>0, <2>6 DEF FinishAbandon, ShapeInv
    <3>2. status' = [status EXCEPT ![a] = "abandoned"] /\ "abandoned" \in AttemptStatus
      BY <2>6 DEF FinishAbandon, AttemptStatus, Settled
    <3> QED BY <2>1, <2>2, <2>3, <3>1, <3>2, WriteKeepsInv
  <2>7. CASE FinishAnswer(p, a)
    <3>1. /\ status' = [status EXCEPT ![a] = status[a]]
          /\ result' = [result EXCEPT ![a] = result[a]]
          /\ answers' = [answers EXCEPT ![a] = Overwrite(answers[a], request[p].given)]
      BY <1>0, <2>7 DEF FinishAnswer, ShapeInv
    <3>2. Overwrite(answers[a], request[p].given) \in Answers
      BY <2>3, OverwriteType
    <3>3. a \notin contended => status[a] # "submitted"
      BY <2>4 DEF InProgress
    <3> QED BY <2>1, <2>2, <2>3, <3>1, <3>2, <3>3, WriteKeepsInv
  <2> QED BY <1>3, <2>5, <2>6, <2>7
<1> QED BY <1>1, <1>2, <1>3 DEF FinishStep

LEMMA StepKeepsInv == AttemptInv /\ [Next]_vars => AttemptInv'
<1> SUFFICES ASSUME AttemptInv, [Next]_vars PROVE AttemptInv'
  OBVIOUS
<1>1. ASSUME NEW p \in Request, BeginStep(p) PROVE AttemptInv'
  BY <1>1, BeginKeepsInv
<1>2. ASSUME NEW p \in Request, FinishStep(p) PROVE AttemptInv'
  BY <1>2, FinishKeepsInv
<1>3. ASSUME NEW p \in Request, LoseRequest(p) PROVE AttemptInv'
  BY <1>3, LoseKeepsInv DEF LoseRequest
<1>4. CASE (\E a \in Attempt : Expire(a)) \/ Archive \/ Publish
  BY <1>4, TimeKeepsInv
<1>5. CASE UNCHANGED vars
  BY <1>5 DEF vars, attemptVars, historyVars, AttemptInv, ShapeInv, Alone,
     ReadIsCurrent, SingleRead, ComputedIsCurrent, ResultOfAnswers, LateIsBlank,
     StartsInv, IsAt, Busy, Starting, InProgress, Overwrite, AtMostOne
<1> QED BY <1>1, <1>2, <1>3, <1>4, <1>5 DEF Next

LEMMA Invariance == Spec => []AttemptInv
BY InitInv, StepKeepsInv, PTL DEF Spec

(* The result of a submitted attempt is that of its answers, unless two
   requests were at it at once: any quiz, any number of requests. *)
THEOREM ResultCorrect == Spec => []ResultOfAnswers
<1>1. AttemptInv => ResultOfAnswers
  BY DEF AttemptInv
<1> QED BY <1>1, Invariance, PTL

(* Only two starts open at once can leave two attempts in progress. *)
THEOREM OneActive == Spec => []OneActiveUnlessRaced
<1>1. AttemptInv => OneActiveUnlessRaced
  BY DEF AttemptInv, StartsInv, OneActiveUnlessRaced
<1> QED BY <1>1, Invariance, PTL

-----------------------------------------------------------------------------
(* The rows of the attempts change only when a request finishes: a start
   settles what is in progress and takes an unused row, any other request
   writes the one attempt it is at. *)
LEMMA RowsChange ==
  ASSUME AttemptInv, [Next]_vars, NEW a \in Attempt
  PROVE  \/ UNCHANGED <<status[a], answers[a], result[a]>>
         \/ (InProgress(a) \/ status[a] = "none") /\ UNCHANGED answers[a]
         \/ \E p \in Request :
              /\ IsAt(p, a) /\ UNCHANGED contended
              /\ \/ UNCHANGED answers[a]
                 \/ /\ request[p].kind \in {"answering", "graded"}
                    /\ answers'[a] = Overwrite(answers[a], request[p].given)
<1>0. ShapeInv
  BY DEF AttemptInv
<1>1. CASE UNCHANGED attemptVars
  BY <1>1 DEF attemptVars
<1>2. ASSUME NEW p \in Request, FinishStart(p)
      PROVE  /\ UNCHANGED answers
             /\ \/ UNCHANGED <<status[a], result[a]>>
                \/ InProgress(a) \/ status[a] = "none"
  <2>1. CASE Reuse(Existing(request[p].at))
    BY <1>2, <2>1 DEF FinishStart, Reuse
  <2>2. CASE StartAfresh(Existing(request[p].at))
    BY <1>0, <1>2, <2>2
    DEF FinishStart, StartAfresh, Existing, StillOpen, InProgress, Unused, ShapeInv
  <2> QED BY <1>2, <2>1, <2>2 DEF FinishStart
<1>3. ASSUME NEW p \in Request, NEW b \in Attempt,
             FinishAnswer(p, b) \/ FinishAbandon(p, b) \/ SaveSubmission(p, b)
      PROVE  /\ IsAt(p, b) /\ UNCHANGED contended
             /\ a # b => UNCHANGED <<status[a], answers[a], result[a]>>
             /\ \/ UNCHANGED answers[b]
                \/ /\ request[p].kind \in {"answering", "graded"}
                   /\ answers'[b] = Overwrite(answers[b], request[p].given)
  <2>1. /\ request[p].kind \in {"answering", "graded", "abandoning"}
        /\ b \in request[p].at /\ CloseRequest(p)
    BY <1>3 DEF FinishAnswer, SaveSubmission, FinishAbandon
  <2>2. IsAt(p, b) /\ UNCHANGED contended
    BY <1>0, <2>1, CloseFrame DEF IsAt, Busy, Idle, historyVars
  <2>3. CASE FinishAnswer(p, b)
    BY <1>0, <2>2, <2>3 DEF FinishAnswer, ShapeInv
  <2>4. CASE FinishAbandon(p, b)
    BY <1>0, <2>2, <2>4 DEF FinishAbandon, ShapeInv
  <2>5. CASE SaveSubmission(p, b)
    BY <1>0, <2>2, <2>5 DEF SaveSubmission, ShapeInv
  <2> QED BY <1>3, <2>3, <2>4, <2>5
<1>4. ASSUME NEW p \in Request, BeginStep(p) PROVE UNCHANGED attemptVars
  BY <1>4 DEF BeginStep, BeginStart, BeginAnswer, BeginSubmit, BeginAbandon, OpenRequest
<1>5. ASSUME NEW p \in Request, FinishStep(p)
      PROVE \/ FinishStart(p)
            \/ \E b \in Attempt : FinishAnswer(p, b) \/ FinishAbandon(p, b)
                                  \/ SaveSubmission(p, b)
            \/ UNCHANGED attemptVars
  BY <1>5 DEF FinishStep, GradeSubmission
<1>6. CASE (\E b \in Attempt : Expire(b)) \/ Archive \/ Publish \/ UNCHANGED vars
  BY <1>6 DEF Expire, Archive, Publish, vars, attemptVars
<1>7. ASSUME NEW p \in Request, LoseRequest(p) PROVE UNCHANGED attemptVars
  BY <1>7 DEF LoseRequest
<1> QED BY <1>1, <1>2, <1>3, <1>4, <1>5, <1>6, <1>7 DEF Next

(* A submitted or abandoned attempt never changes, unless two requests were
   at it at once. *)
THEOREM SettledIsFinal == Spec => SettledAttemptsFrozen
<1> DEFINE Frozen == \A a \in Attempt \ contended' :
              status[a] \in Settled =>
                /\ status'[a] = status[a]
                /\ answers'[a] = answers[a]
                /\ result'[a] = result[a]
<1>1. AttemptInv /\ [Next]_vars => [Frozen]_vars
  <2> SUFFICES ASSUME AttemptInv, [Next]_vars, NEW a \in Attempt \ contended',
                      status[a] \in Settled
               PROVE  UNCHANGED <<status[a], answers[a], result[a]>>
    OBVIOUS
  <2>1. \A p \in Request : IsAt(p, a) /\ UNCHANGED contended => InProgress(a)
    BY DEF AttemptInv, ReadIsCurrent
  <2>2. ~InProgress(a) /\ status[a] # "none"
    BY DEF Settled, InProgress
  <2> QED BY <2>1, <2>2, RowsChange
<1> QED BY <1>1, Invariance, PTL DEF Spec, SettledAttemptsFrozen

(* Nothing that arrives after the deadline changes the answers. *)
THEOREM LateIsIgnored == Spec => LateAnswersIgnored
<1> DEFINE Ignored == \A a \in expired :
              (\A p \in Request : IsAt(p, a) => request[p].late)
                => answers'[a] = answers[a]
<1>1. AttemptInv /\ [Next]_vars => [Ignored]_vars
  <2> SUFFICES ASSUME AttemptInv, [Next]_vars, NEW a \in expired,
                      \A p \in Request : IsAt(p, a) => request[p].late
               PROVE  answers'[a] = answers[a]
    OBVIOUS
  <2>1. a \in Attempt /\ answers[a] \in Answers
    BY DEF AttemptInv, ShapeInv
  <2>2. \A p \in Request : IsAt(p, a) /\ request[p].kind \in {"answering", "graded"}
          => request[p].given = Blank
    BY DEF AttemptInv, LateIsBlank, IsAt
  <2>3. Overwrite(answers[a], Blank) = answers[a]
    BY <2>1, OverwriteBlank
  <2> QED BY <2>1, <2>2, <2>3, RowsChange
<1> QED BY <1>1, Invariance, PTL DEF Spec, LateAnswersIgnored
-----------------------------------------------------------------------------
(* What the proofs above do not need: that a score is a number, and the types
   of what only the histories and the teacher write. *)
LEMMA ResultsAreNumbers == Results \subseteq ResultRecord
<1> SUFFICES ASSUME NEW given \in Answers PROVE Result(given) \in ResultRecord
  BY DEF Results
<1>1. \A m : MarkedAs(m, given) \in SUBSET Question
  BY DEF MarkedAs
<1>2. \A m : Cardinality(MarkedAs(m, given)) \in Nat
  BY <1>1, FS_Subset, FS_CardinalityType
<1>3. \A q \in Question : Points[q] \in Nat
  OBVIOUS
<1>4. Sum(Points, MarkedAs("right", given)) \in Nat
  BY <1>1, <1>3, SumGrows
<1>5. MapThenSumSet(LAMBDA q : Points[q], MarkedAs("right", given)) \in Nat
  BY <1>4 DEF Sum
<1> QED BY <1>2, <1>5 DEF Result, ResultRecord

FlagsInv == archived \in BOOLEAN /\ contended \subseteq Attempt /\ startsOverlapped \in BOOLEAN

LEMMA FlagsKept == FlagsInv /\ [Next]_vars => FlagsInv'
<1> SUFFICES ASSUME FlagsInv, [Next]_vars PROVE FlagsInv'
  OBVIOUS
<1>1. ASSUME NEW p \in Request, BeginStep(p) PROVE FlagsInv'
  <2>1. PICK kind, S, given : OpenRequest(p, kind, S, given) /\ S \subseteq Attempt
    BY <1>1 DEF BeginStep, BeginStart, BeginAnswer, BeginSubmit, BeginAbandon
  <2>2. contended' \subseteq Attempt /\ archived' = archived
    BY <2>1 DEF OpenRequest, attemptVars, FlagsInv
  <2>3. \/ startsOverlapped' = startsOverlapped
        \/ startsOverlapped' = (startsOverlapped \/ Starting # {})
    BY <1>1 DEF BeginStep, BeginStart, BeginAnswer, BeginSubmit, BeginAbandon
  <2>4. startsOverlapped' \in BOOLEAN
    BY <2>3, Zenon DEF FlagsInv
  <2> QED BY <2>2, <2>4 DEF FlagsInv
<1>2. ASSUME NEW p \in Request, FinishStep(p) \/ LoseRequest(p) PROVE FlagsInv'
  <2>1. UNCHANGED historyVars /\ UNCHANGED archived
    BY <1>2 DEF FinishStep, FinishStart, FinishAnswer, FinishAbandon, GradeSubmission,
                SaveSubmission, LoseRequest, CloseRequest, attemptVars
  <2> QED BY <2>1 DEF FlagsInv, historyVars
<1>3. CASE (\E a \in Attempt : Expire(a)) \/ Archive \/ Publish \/ UNCHANGED vars
  BY <1>3 DEF Expire, Archive, Publish, vars, attemptVars, historyVars, FlagsInv
<1> QED BY <1>1, <1>2, <1>3 DEF Next

(* The rows and the requests have their types. *)
THEOREM AttemptTypeCorrect == Spec => []TypeOK
<1>1. AttemptInv /\ FlagsInv => TypeOK
  <2> SUFFICES ASSUME AttemptInv, FlagsInv PROVE TypeOK
    OBVIOUS
  <2>1. ShapeInv
    BY DEF AttemptInv
  <2>2. OpenRecord \subseteq Open
    BY ResultsAreNumbers DEF OpenRecord, Open, Kinds
  <2>3. request \in [Request -> Open \cup {Idle}] /\ result \in [Attempt -> ResultRecord]
    <3> HIDE DEF Attempt
    <3> QED BY <2>1, <2>2, ResultsAreNumbers DEF ShapeInv
  <2> QED BY <2>1, <2>3 DEF ShapeInv, FlagsInv, TypeOK
<1>2. Init => FlagsInv
  BY DEF Init, FlagsInv
<1> QED BY <1>1, <1>2, FlagsKept, Invariance, PTL DEF Spec
=============================================================================
