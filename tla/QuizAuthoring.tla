---------------------------- MODULE QuizAuthoring ----------------------------
(***************************************************************************)
(* How one student's quizzes come to be (apps/quizzes): quizzes written by *)
(* hand as drafts and published, their questions, and the quizzes the AI   *)
(* delivers published.  QuizAttempts has how a published quiz is taken.    *)
(*                                                                         *)
(* No request locks a quiz: each looks at it (Begin...), decides by what   *)
(* it saw, and writes later (Finish...).                                   *)
(***************************************************************************)
EXTENDS Naturals, FiniteSets

CONSTANTS
  Quiz,               \* the quizzes that can be created
  Question,           \* the questions that can be created
  Author,             \* the requests that can be open at the same time
  MaxCreated          \* bound: quizzes and questions when another is begun

ASSUME AuthoringAssumption == IsFiniteSet(Question) /\ MaxCreated \in Nat

VARIABLES
  quiz,               \* Quiz rows, or NoQuiz, or DeletedQuiz
  question,           \* Question rows, or NoQuestion, or Removed
  authoring,          \* per author: the open request, or Resting
  raced               \* history: quizzes changed between look and write

quizRows == <<quiz, question>>
authoringVars == <<quizRows, authoring, raced>>

NoQuiz == [status |-> "none"]
DeletedQuiz == [status |-> "deleted"]
Status == {"draft", "published", "archived"}
Counts == 0..Cardinality(Question)
QuizRow == [status : Status, made : {"manual", "ai"}, count : Counts]

(* A sound question has two choices or more and exactly one correct.  The
   order of questions and choices and their wording are left out. *)
NoQuestion == [state |-> "none"]
Removed == [state |-> "removed"]
QuestionRow == [quiz : Quiz, sound : BOOLEAN]

Quizzes == {q \in Quiz : quiz[q].status \in Status}
Questions == {x \in Question : question[x] \in QuestionRow}
Held(q) == {x \in Questions : question[x].quiz = q}
Fresh == {x \in Question : question[x] = NoQuestion /\
           \A a \in Author : authoring[a].op = "ask" => authoring[a].x # x}
MayCreate ==
  Cardinality({q \in Quiz : quiz[q] # NoQuiz})
    + Cardinality(Question \ Fresh) < MaxCreated

Resting == [op |-> "rest"]
Writing ==
  [op : {"edit"}, quiz : Quiz, row : QuizRow, status : Status] \cup
  [op : {"publish", "resync"}, quiz : Quiz, count : Counts] \cup
  [op : {"ask"}, quiz : Quiz, count : Counts, x : Question, sound : BOOLEAN] \cup
  [op : {"rework", "reworked"}, quiz : Quiz, x : Question, choices : BOOLEAN] \cup
  [op : {"drop"}, quiz : Quiz, count : Counts, x : Question]

AuthoringTypeOK ==
  /\ quiz \in [Quiz -> QuizRow \cup {NoQuiz, DeletedQuiz}]
  /\ question \in [Question -> QuestionRow \cup {NoQuestion, Removed}]
  /\ authoring \in [Author -> Writing \cup {Resting}]
  /\ raced \subseteq Quiz

AuthoringInit ==
  /\ quiz = [q \in Quiz |-> NoQuiz]
  /\ question = [x \in Question |-> NoQuestion]
  /\ authoring = [a \in Author |-> Resting]
  /\ raced = {}

-----------------------------------------------------------------------------
Begin(a, r) ==
  /\ authoring[a] = Resting
  /\ authoring' = [authoring EXCEPT ![a] = r]
  /\ UNCHANGED <<quizRows, raced>>
Rest(a) == authoring' = [authoring EXCEPT ![a] = Resting]
Refuse(a) == Rest(a) /\ UNCHANGED <<quizRows, raced>>

Publishing(q) == \E a \in Author : authoring[a].op = "publish" /\ authoring[a].quiz = q

(* The quizzes of S whose questions change while they are being published, or
   when they are no drafts any more. *)
NotQuiet(S) == {q \in S : quiz[q].status # "draft" \/ Publishing(q)}

(* "Only manual draft quizzes can be edited." *)
ManualDraft(row) == row.status = "draft" /\ row.made = "manual"

CreateQuiz(q) ==
  /\ MayCreate
  /\ quiz[q] = NoQuiz
  /\ quiz' = [quiz EXCEPT ![q] = [status |-> "draft", made |-> "manual", count |-> 0]]
  /\ UNCHANGED <<question, authoring, raced>>

(* The result of a job, materialized: a published quiz with its questions. *)
ReceiveQuiz(q, S) ==
  /\ MayCreate
  /\ quiz[q] = NoQuiz
  /\ S # {} /\ S \subseteq Fresh
  /\ quiz' = [quiz EXCEPT ![q] =
       [status |-> "published", made |-> "ai", count |-> Cardinality(S)]]
  /\ question' = [x \in Question |-> IF x \in S THEN [quiz |-> q, sound |-> TRUE] ELSE question[x]]
  /\ UNCHANGED <<authoring, raced>>

(* Mutant: any status may be set by a PATCH. *)
MayEditFreely(row, wanted, content) == wanted # "published"

(* What a PATCH with or without content and with status "wanted" ("same": none
   given) may do to the row it read. *)
MayEdit(row, wanted, content) ==
  /\ wanted # "published"
  /\ row.status # "archived"
  /\ row.status = "published" => ~content /\ wanted \in {"same", "archived"}

BeginEdit(a, q, wanted, content) ==
  /\ q \in Quizzes
  /\ MayEdit(quiz[q], wanted, content)
  /\ Begin(a, [op |-> "edit", quiz |-> q, row |-> quiz[q],
               status |-> IF wanted = "same" THEN quiz[q].status ELSE wanted])

(* save() of every column; a row deleted meanwhile is inserted again.  It is
   stale unless the row still is what was read (but for the status of one that
   is archived). *)
FinishEdit(a) ==
  LET r == authoring[a]
      stale == \/ r.quiz \notin Quizzes
               \/ quiz[r.quiz].count # r.row.count
               \/ r.row.status # quiz[r.quiz].status /\ r.status # "archived"
  IN
  /\ r.op = "edit"
  /\ Rest(a)
  /\ quiz' = [quiz EXCEPT ![r.quiz] = [r.row EXCEPT !.status = r.status]]
  /\ raced' = IF stale THEN raced \cup {r.quiz} ELSE raced
  /\ UNCHANGED question

(* The status column alone. *)
ArchiveQuiz(q) ==
  /\ q \in Quizzes
  /\ quiz' = [quiz EXCEPT ![q].status = "archived"]
  /\ UNCHANGED <<question, authoring, raced>>

(* DELETE of a quiz takes its questions along. *)
DeleteQuiz(q) ==
  /\ q \in Quizzes
  /\ quiz' = [quiz EXCEPT ![q] = DeletedQuiz]
  /\ question' = [x \in Question |-> IF x \in Held(q) THEN Removed ELSE question[x]]
  /\ raced' = raced \ {q}
  /\ UNCHANGED authoring

-----------------------------------------------------------------------------
(* A question, and every question sound. *)
Publishable(q) == Held(q) # {} /\ \A x \in Held(q) : question[x].sound

(* Whatever its status: an archived quiz can be published again. *)
BeginPublish(a, q) ==
  /\ q \in Quizzes
  /\ quiz[q].made = "manual"
  /\ Publishable(q)
  /\ Begin(a, [op |-> "publish", quiz |-> q, count |-> quiz[q].count])

(* Mutant: nothing brings the count up to date. *)
NeverSynced(q, read, n) == quiz[q].count

(* Mutant: the question just added is counted twice. *)
SyncedTwice(q, read, n) == n + 1

(* The count n is saved if it differs from the one that was read. *)
Synced(q, read, n) == IF read = n THEN quiz[q].count ELSE n

FinishPublish(a) ==
  LET r == authoring[a]
      q == r.quiz IN
  /\ r.op = "publish"
  /\ Rest(a)
  /\ IF q \in Quizzes
     THEN quiz' = [quiz EXCEPT ![q] = [@ EXCEPT
            !.status = "published",
            !.count = Synced(q, r.count, Cardinality(Held(q)))]]
     ELSE UNCHANGED quiz
  /\ UNCHANGED <<question, raced>>

(* POST of a question; one without choices is accepted. *)
BeginAsk(a, q, x, sound) ==
  /\ MayCreate
  /\ ManualDraft(quiz[q])
  /\ x \in Fresh
  /\ Begin(a, [op |-> "ask", quiz |-> q, count |-> quiz[q].count, x |-> x, sound |-> sound])

(* In one transaction, which fails when the quiz is gone. *)
FinishAsk(a) ==
  LET r == authoring[a]
      q == r.quiz IN
  /\ r.op = "ask"
  /\ Rest(a)
  /\ IF q \in Quizzes
     THEN /\ question' = [question EXCEPT ![r.x] = [quiz |-> q, sound |-> r.sound]]
          /\ quiz' = [quiz EXCEPT ![q].count = Synced(q, r.count, Cardinality(Held(q)) + 1)]
          /\ raced' = raced \cup NotQuiet({q})
     ELSE UNCHANGED <<quizRows, raced>>

(* PATCH of a question, with new choices or without, perhaps for another quiz,
   which must be a draft. *)
BeginRework(a, x, q, choices) ==
  /\ x \in Questions
  /\ q = question[x].quiz \/ ManualDraft(quiz[q])
  /\ Begin(a, [op |-> "rework", quiz |-> q, x |-> x, choices |-> choices])

(* perform_update looks again, at the quiz the question is in now. *)
LookAgain(a) ==
  LET r == authoring[a] IN
  /\ r.op = "rework"
  /\ IF r.x \in Questions /\ ManualDraft(quiz[question[r.x].quiz])
     THEN authoring' = [authoring EXCEPT ![a].op = "reworked"]
     ELSE Rest(a)
  /\ UNCHANGED <<quizRows, raced>>

(* The row as first read is saved, inserted if it is gone, without choices of
   its own then; no count is brought up to date. *)
FinishRework(a) ==
  LET r == authoring[a]
      before == IF r.x \in Questions THEN {question[r.x].quiz} ELSE {} IN
  /\ r.op = "reworked"
  /\ Rest(a)
  /\ IF r.quiz \in Quizzes
     THEN /\ question' = [question EXCEPT ![r.x] =
               [quiz |-> r.quiz,
                sound |-> r.choices \/ (r.x \in Questions /\ question[r.x].sound)]]
          /\ raced' = raced \cup NotQuiet(before \cup {r.quiz})
     ELSE UNCHANGED <<question, raced>>
  /\ UNCHANGED quiz

(* DELETE of a question of a draft, ... *)
BeginDrop(a, x, q) ==
  /\ x \in Held(q)
  /\ ManualDraft(quiz[q])
  /\ Begin(a, [op |-> "drop", quiz |-> q, count |-> quiz[q].count, x |-> x])

FinishDrop(a) ==
  LET r == authoring[a] IN
  /\ r.op = "drop"
  /\ authoring' = [authoring EXCEPT ![a] = [op |-> "resync", quiz |-> r.quiz, count |-> r.count]]
  /\ question' = [question EXCEPT ![r.x] = Removed]
  /\ raced' = raced \cup
       (IF r.x \in Questions THEN NotQuiet({question[r.x].quiz}) ELSE {})
  /\ UNCHANGED quiz

(* ... and, in a transaction of its own, the count of the quiz. *)
FinishResync(a) ==
  LET r == authoring[a]
      q == r.quiz IN
  /\ r.op = "resync"
  /\ Rest(a)
  /\ IF q \in Quizzes
     THEN quiz' = [quiz EXCEPT ![q].count = Synced(q, r.count, Cardinality(Held(q)))]
     ELSE UNCHANGED quiz
  /\ UNCHANGED <<question, raced>>

LoseAuthor(a) == authoring[a] # Resting /\ Refuse(a)

-----------------------------------------------------------------------------
QuizStep ==
  \E q \in Quiz :
    \/ CreateQuiz(q) \/ ArchiveQuiz(q) \/ DeleteQuiz(q)
    \/ \E S \in SUBSET Question : ReceiveQuiz(q, S)

BeginAuthoring(a) ==
  \/ \E q \in Quiz, wanted \in Status \cup {"same"}, content \in BOOLEAN :
       BeginEdit(a, q, wanted, content)
  \/ \E q \in Quiz : BeginPublish(a, q)
  \/ \E q \in Quiz, x \in Question, b \in BOOLEAN :
       BeginAsk(a, q, x, b) \/ BeginRework(a, x, q, b)
  \/ \E q \in Quiz, x \in Question : BeginDrop(a, x, q)

FinishAuthoring(a) ==
  \/ FinishEdit(a) \/ FinishPublish(a) \/ FinishAsk(a) \/ LookAgain(a)
  \/ FinishRework(a) \/ FinishDrop(a) \/ FinishResync(a) \/ LoseAuthor(a)

AuthoringNext == QuizStep \/ \E a \in Author : BeginAuthoring(a) \/ FinishAuthoring(a)

AuthoringSpec == AuthoringInit /\ [][AuthoringNext]_authoringVars

-----------------------------------------------------------------------------
(* A published quiz has a question, all its questions can be answered, and its
   count is their number, whatever the counts did while it was a draft, unless
   a question or the row changed between the look and the write of another
   request: publish_quiz checks and counts, and published quizzes are closed. *)
PublishedSound ==
  \A q \in Quizzes \ raced : quiz[q].status = "published" =>
    Publishable(q) /\ quiz[q].count = Cardinality(Held(q))

(* "A published quiz may only be archived.": it goes back to a draft only by a
   PATCH that had read it before it was published. *)
PublishedOnlyArchived ==
  [][\A q \in Quiz : quiz[q].status = "published" /\ quiz'[q].status = "draft" => q \in raced']_authoringVars
=============================================================================
