------------------------------- MODULE Lanes -------------------------------
(***************************************************************************)
(* The two lanes an exercise attempt can live in, practice and exam, as    *)
(* the attempts and exams services promise them: every request takes       *)
(* effect at one instant, as if the backend served one request at a time.  *)
(* LaneRequests describes the same handlers as they really run, with their *)
(* reads and their commit apart, and is compared with this module.         *)
(*                                                                         *)
(* A request that the code refuses (404, 409, 400) writes nothing, so a    *)
(* refusal is an action that is not enabled.  Seeds, prompts, titles and   *)
(* timestamps are left out: finished_at is set exactly when the status     *)
(* leaves "open", answered_at exactly when a row becomes "answered".       *)
(***************************************************************************)
EXTENDS Naturals, FiniteSets

CONSTANTS
  Users,
  Courses,
  Exercises,    \* permanent exercise keys
  Blocks,       \* block ids a "block" exam can be scoped to
  Modules,      \* permanent module keys
  Answers,      \* the answers a client can send
  Malformed,    \* an answer whose shape no grader accepts
  Key,          \* Key[x] is the answer the generator of x grades as correct
  None,         \* given_answer IS NULL
  AttemptIds,   \* bounds the attempts table
  ExamIds,      \* bounds the exam_sessions table
  Practice,     \* exam_session_id IS NULL
  Global,       \* the scope of an exam over the whole course
  Deployments,  \* the catalogs an operator may deploy
  CrossLane     \* may a client post an exam question to the practice route?

\* A module of a course, with the exercises it has a playable config for.
Module == [block : Blocks, module : Modules, bank : SUBSET Exercises]

\* A course's manifest is its modules in canonical order.  Keys are unique
\* within a course: an exercise sits in one module.
IsManifest(m) ==
  /\ DOMAIN m \subseteq Nat
  /\ m \in [DOMAIN m -> Module]
  /\ \A i, j \in DOMAIN m : i # j => m[i].bank \cap m[j].bank = {}

ASSUME ConstantsAssumption ==
  /\ None \notin Answers
  /\ Key \in [Exercises -> Answers \ {Malformed}]
  /\ AttemptIds \subseteq Nat
  /\ Practice \notin ExamIds
  /\ Global \notin Blocks
  /\ CrossLane \in BOOLEAN
  /\ \A d \in Deployments : DOMAIN d = Courses
  /\ \A d \in Deployments, c \in Courses : IsManifest(d[c])

VARIABLES
  attempts,     \* the attempts table: id -> row
  exams,        \* the exam_sessions table: id -> row
  catalog       \* the registry of every course, loaded when the process starts

vars == <<attempts, exams, catalog>>

----------------------------------------------------------------------------
(* The tables.                                                             *)

\* Every query about a learner's rows asks for a user and a course together.
Owner == [user : Users, course : Courses]

Scope == Blocks \cup {Global}

AttemptRow ==
  [owner : Owner, ex : Exercises, exam : ExamIds \cup {Practice},
   given : Answers \cup {None}, verdict : {"none", "correct", "wrong"},
   state : {"open", "answered", "abandoned"}]

NewAttempt(o, x, e) ==
  [owner |-> o, ex |-> x, exam |-> e, given |-> None, verdict |-> "none",
   state |-> "open"]

Abandoned(row) == [row EXCEPT !.state = "abandoned"]

\* Fault: the frozen order ranks every key by the key itself.
NewExam_KeyForRank(o, scope, order) ==
  [owner |-> o, scope |-> scope, status |-> "open",
   order |-> [x \in DOMAIN order |-> x], result |-> [q \in {} |-> None]]

\* `order` is the frozen question order as _frozen_order reads it back: a
\* rank for each key.  `result` has one entry for each question, none before
\* the exam is submitted.
NewExam(o, scope, order) ==
  [owner |-> o, scope |-> scope, status |-> "open", order |-> order,
   result |-> [q \in {} |-> None]]

\* A row is replaced or inserted for each entry of `new`.
Write(table, new) ==
  [i \in DOMAIN table \cup DOMAIN new |->
     IF i \in DOMAIN new THEN new[i] ELSE table[i]]

QuestionsOf(e) == {a \in DOMAIN attempts : attempts[a].exam = e}

\* Ids are handed out in the order rows are created.
FreshAttempts == {a \in AttemptIds : \A b \in DOMAIN attempts : b < a}

\* Distinct fresh ids for the rows a set of manifest positions needs.
FreshIds(S) ==
  {ids \in [S -> FreshAttempts] : \A i, j \in S : ids[i] = ids[j] => i = j}

----------------------------------------------------------------------------
(* The registry.                                                           *)

Playable(c) == UNION {catalog[c][i].bank : i \in DOMAIN catalog[c]}

\* Positions of the modules an exam of this scope draws from.
ScopeModules(c, scope) ==
  {i \in DOMAIN catalog[c] :
     /\ catalog[c][i].bank # {}
     /\ scope = Global \/ catalog[c][i].block = scope}

\* A key the manifest dropped has no module.
ModuleOf(c, x) ==
  {catalog[c][i].module : i \in {j \in DOMAIN catalog[c] : x \in catalog[c][j].bank}}

Verdict(x, ans) == IF ans = Key[x] THEN "correct" ELSE "wrong"

----------------------------------------------------------------------------
(* Practice lane.                                                          *)

\* Fault: the abandoned rule is forgotten.
Superseded_Never(o, x) == {}

\* Fault: the UPDATE does not ask for exam_session_id IS NULL.
Superseded_AnyLane(o, x) ==
  {a \in DOMAIN attempts : attempts[a].owner = o /\ attempts[a].ex = x
                             /\ attempts[a].state = "open"}

\* Fault: the UPDATE does not ask for the OPEN state.
Superseded_AnyState(o, x) ==
  {a \in DOMAIN attempts : attempts[a].owner = o /\ attempts[a].ex = x
                             /\ attempts[a].exam = Practice}

\* The unanswered practice rows that opening x again retires.
Superseded(o, x) ==
  {a \in DOMAIN attempts :
     /\ attempts[a].owner = o
     /\ attempts[a].ex = x
     /\ attempts[a].state = "open"
     /\ attempts[a].exam = Practice}

OpenAttempt(o, x) ==
  /\ x \in Playable(o.course)
  /\ FreshAttempts # {}
  /\ LET new == CHOOSE a \in FreshAttempts : TRUE IN
     attempts' = Write(attempts,
       [a \in Superseded(o, x) \cup {new} |->
          IF a = new THEN NewAttempt(o, x, Practice) ELSE Abandoned(attempts[a])])
  /\ UNCHANGED <<exams, catalog>>

\* The handler does not look at exam_session_id: only clients keep exam
\* questions away from it.
SubmitAnswer(o, a, ans) ==
  /\ a \in DOMAIN attempts
  /\ attempts[a].owner = o
  /\ CrossLane \/ attempts[a].exam = Practice
  /\ attempts[a].state = "open"
  /\ attempts[a].ex \in Playable(o.course)
  /\ ans # Malformed
  /\ attempts' = [attempts EXCEPT ![a].given = ans,
                                  ![a].verdict = Verdict(attempts[a].ex, ans),
                                  ![a].state = "answered"]
  /\ UNCHANGED <<exams, catalog>>

----------------------------------------------------------------------------
(* Exam lane.                                                              *)

\* Fault: block exams are not told apart from global ones by their block.
OpenSittings_GlobalOnly(o, scope) ==
  {e \in DOMAIN exams : exams[e].owner = o /\ exams[e].status = "open"
                          /\ scope = Global /\ exams[e].scope = Global}

\* Fault: finished sittings are closed once more.
OpenSittings_AnyStatus(o, scope) ==
  {e \in DOMAIN exams : exams[e].owner = o /\ exams[e].scope = scope}

OpenSittings(o, scope) ==
  {e \in DOMAIN exams :
     /\ exams[e].owner = o
     /\ exams[e].scope = scope
     /\ exams[e].status = "open"}

StartExam(o, scope) ==
  LET mods == ScopeModules(o.course, scope)
      closed == OpenSittings(o, scope)
  IN
  /\ mods # {}
  /\ ExamIds \ DOMAIN exams # {}
  /\ FreshIds(mods) # {}
  /\ \E pick \in [mods -> Exercises] :
     LET e == CHOOSE i \in ExamIds \ DOMAIN exams : TRUE
         ids == CHOOSE f \in FreshIds(mods) : TRUE
         order == [x \in {pick[i] : i \in mods} |-> CHOOSE i \in mods : pick[i] = x]
     IN
     /\ \A i \in mods : pick[i] \in catalog[o.course][i].bank
     /\ exams' = Write(exams,
          [f \in closed \cup {e} |->
             IF f = e THEN NewExam(o, scope, order)
             ELSE [exams[f] EXCEPT !.status = "abandoned"]])
     /\ attempts' = Write(attempts,
          [a \in {b \in DOMAIN attempts : attempts[b].exam \in closed}
                   \cup {ids[i] : i \in mods} |->
             IF a \in DOMAIN attempts THEN Abandoned(attempts[a])
             ELSE NewAttempt(o, pick[CHOOSE i \in mods : ids[i] = a], e)])
  /\ UNCHANGED catalog

\* Fault: the status check is missing.
InProgress_AnyStatus(o, e) == e \in DOMAIN exams /\ exams[e].owner = o

InProgress(o, e) ==
  /\ e \in DOMAIN exams
  /\ exams[e].owner = o
  /\ exams[e].status = "open"

\* The answer is stored as it came: no grading, no validation, and no look at
\* the state of the attempt.
AnswerQuestion(o, e, a, ans) ==
  /\ InProgress(o, e)
  /\ a \in QuestionsOf(e)
  /\ attempts' = [attempts EXCEPT ![a].given = ans]
  /\ UNCHANGED <<exams, catalog>>

\* Unanswered, malformed and no longer playable questions all count as wrong.
ExamVerdict(c, row) ==
  IF row.given # None /\ row.ex \in Playable(c)
  THEN Verdict(row.ex, row.given) ELSE "wrong"

Graded(c, row) ==
  [row EXCEPT !.verdict = ExamVerdict(c, row), !.state = "answered"]

ResultEntry(c, row) ==
  [module |-> ModuleOf(c, row.ex),
   correct |-> ExamVerdict(c, row) = "correct",
   unanswered |-> row.given = None]

SubmitExam(o, e) ==
  /\ InProgress(o, e)
  /\ attempts' = Write(attempts, [a \in QuestionsOf(e) |-> Graded(o.course, attempts[a])])
  /\ exams' = [exams EXCEPT
       ![e].status = "submitted",
       ![e].result = [a \in QuestionsOf(e) |-> ResultEntry(o.course, attempts[a])]]
  /\ UNCHANGED catalog

AbandonExam(o, e) ==
  /\ InProgress(o, e)
  /\ attempts' = Write(attempts, [a \in QuestionsOf(e) |-> Abandoned(attempts[a])])
  /\ exams' = [exams EXCEPT ![e].status = "abandoned"]
  /\ UNCHANGED catalog

----------------------------------------------------------------------------
\* The operator ships a new content bundle and the process starts on it.
Redeploy ==
  /\ catalog' \in Deployments
  /\ UNCHANGED <<attempts, exams>>

Init ==
  /\ attempts = [a \in {} |-> None]
  /\ exams = [e \in {} |-> None]
  /\ catalog \in Deployments

Next ==
  \/ \E o \in Owner, x \in Exercises : OpenAttempt(o, x)
  \/ \E o \in Owner, a \in AttemptIds, ans \in Answers : SubmitAnswer(o, a, ans)
  \/ \E o \in Owner, scope \in Scope : StartExam(o, scope)
  \/ \E o \in Owner, e \in ExamIds, a \in AttemptIds, ans \in Answers :
       AnswerQuestion(o, e, a, ans)
  \/ \E o \in Owner, e \in ExamIds : SubmitExam(o, e)
  \/ \E o \in Owner, e \in ExamIds : AbandonExam(o, e)
  \/ Redeploy

Spec == Init /\ [][Next]_vars

----------------------------------------------------------------------------
(* What a client is shown.                                                 *)

\* Fault: the order is derived again from the manifest of the day.
Rank_OfTheDay(e, a) ==
  LET c == exams[e].owner.course
      at == {i \in DOMAIN catalog[c] : attempts[a].ex \in catalog[c][i].bank}
  IN IF at = {} THEN Cardinality(DOMAIN catalog[c]) + 1 ELSE CHOOSE i \in at : TRUE

\* Questions are sorted by their frozen rank and numbered before the ones
\* whose exercise has been dropped are skipped.
Rank(e, a) == exams[e].order[attempts[a].ex]

Index(e, a) == Cardinality({b \in QuestionsOf(e) : Rank(e, b) < Rank(e, a)})

View(e) ==
  [a \in {q \in QuestionsOf(e) : attempts[q].ex \in Playable(exams[e].owner.course)} |->
     [index |-> Index(e, a),
      given |-> attempts[a].given,
      correct |-> attempts[a].verdict = "correct" /\ attempts[a].given # None]]

\* The answer the statistics count as a learner's first at an exercise.
CountsAsFirst(a) ==
  LET answered == {b \in DOMAIN attempts :
                     /\ attempts[b].exam = Practice
                     /\ attempts[b].state = "answered"}
  IN /\ a \in answered
     /\ \A b \in answered :
          attempts[b].owner = attempts[a].owner /\ attempts[b].ex = attempts[a].ex => a <= b

----------------------------------------------------------------------------
(* Correctness.                                                            *)

IsExamRow(r) ==
  /\ r \in [owner : Owner, scope : Scope, status : {"open", "submitted", "abandoned"},
            order : {r.order}, result : {r.result}]
  /\ DOMAIN r.order \subseteq Exercises
  /\ r.order \in [DOMAIN r.order -> Nat]
  /\ DOMAIN r.result \subseteq AttemptIds
  /\ r.result \in [DOMAIN r.result -> [module : SUBSET Modules, correct : BOOLEAN,
                                        unanswered : BOOLEAN]]

\* The two tables hold rows of their type under ids that were handed out, and
\* every exam question points at an exam that exists.
TypeOK ==
  /\ DOMAIN attempts \subseteq AttemptIds
  /\ attempts \in [DOMAIN attempts -> AttemptRow]
  /\ DOMAIN exams \subseteq ExamIds
  /\ exams = [e \in DOMAIN exams |-> exams[e]]
  /\ \A e \in DOMAIN exams : IsExamRow(exams[e])
  /\ catalog \in Deployments
  /\ \A a \in DOMAIN attempts :
       attempts[a].exam # Practice => attempts[a].exam \in DOMAIN exams

\* The abandoned rule: a learner has at most one unanswered practice attempt
\* for an exercise (attempts/service.py, open_attempt).
OneOpenPractice ==
  \A a, b \in DOMAIN attempts :
    ( /\ attempts[a].exam = Practice /\ attempts[b].exam = Practice
      /\ attempts[a].state = "open" /\ attempts[b].state = "open"
      /\ attempts[a].owner = attempts[b].owner
      /\ attempts[a].ex = attempts[b].ex ) => a = b

\* Starting an exam closes the open one of its scope: a learner has at most
\* one open sitting for each scope (exams/service.py, start_exam).
OneOpenSitting ==
  \A e, f \in DOMAIN exams :
    ( /\ exams[e].status = "open" /\ exams[f].status = "open"
      /\ exams[e].owner = exams[f].owner
      /\ exams[e].scope = exams[f].scope ) => e = f

\* An exam and its questions: they belong to its learner; a submitted exam has
\* every question graded and a result that repeats each verdict; an abandoned
\* one has every question abandoned and no result; an open one has no result
\* and no abandoned question.
Agrees(e) ==
  /\ \A a \in QuestionsOf(e) : attempts[a].owner = exams[e].owner
  /\ exams[e].status = "submitted" =>
       /\ DOMAIN exams[e].result = QuestionsOf(e)
       /\ \A a \in QuestionsOf(e) :
            /\ attempts[a].state = "answered"
            /\ attempts[a].verdict # "none"
            /\ exams[e].result[a].correct = (attempts[a].verdict = "correct")
  /\ exams[e].status = "abandoned" =>
       /\ DOMAIN exams[e].result = {}
       /\ \A a \in QuestionsOf(e) : attempts[a].state = "abandoned"
  /\ exams[e].status = "open" =>
       /\ DOMAIN exams[e].result = {}
       /\ \A a \in QuestionsOf(e) : attempts[a].state # "abandoned"

\* Every exam row and its question rows tell one story (exams/service.py,
\* start_exam, submit_exam and _abandon).
SittingAgreement == \A e \in DOMAIN exams : Agrees(e)

\* What a submitted exam was graded on is what it still holds: a question
\* counted as unanswered has no answer, one counted as correct has the right
\* one (exams/service.py, submit_exam).
GradedAsStored ==
  \A e \in DOMAIN exams :
    exams[e].status = "submitted" =>
      \A a \in QuestionsOf(e) :
        /\ exams[e].result[a].unanswered = (attempts[a].given = None)
        /\ exams[e].result[a].correct => attempts[a].given = Key[attempts[a].ex]

\* The lanes never touch one another: a step that writes an existing practice
\* row writes no exam and no exam question (exams/service.py:4).
LaneSeparation ==
  [][(\E a \in DOMAIN attempts :
        attempts[a].exam = Practice /\ attempts'[a] # attempts[a])
     => /\ exams' = exams
        /\ \A a \in DOMAIN attempts' :
             attempts'[a].exam # Practice =>
               a \in DOMAIN attempts /\ attempts'[a] = attempts[a]]_vars

\* What is resolved stays as it was resolved: an answered or abandoned practice
\* attempt, and a submitted or abandoned exam with all its questions, are
\* never written again by any request (the 409 of both services).
ResolvedForGood ==
  [][/\ \A a \in DOMAIN attempts :
          attempts[a].exam = Practice /\ attempts[a].state # "open"
            => attempts'[a] = attempts[a]
     /\ \A e \in DOMAIN exams :
          exams[e].status # "open" =>
            /\ exams'[e] = exams[e]
            /\ QuestionsOf(e)' = QuestionsOf(e)
            /\ \A a \in QuestionsOf(e) : attempts'[a] = attempts[a]]_vars

\* The review of a submitted exam shows each question under the same number,
\* with the same answer and the same verdict, for ever, whatever content is
\* deployed in between (exams/service.py:190).
ReviewStable ==
  [][\A e \in DOMAIN exams :
       exams[e].status = "submitted" =>
         \A a \in DOMAIN View(e) \cap DOMAIN View(e)' : View(e)'[a] = View(e)[a]]_vars

\* The first-attempt figures are never rewritten: once a learner has answered
\* an exercise, no later answer is to an earlier attempt.  Only the abandoned
\* rule sees to it (stats/service.py:66-87).
FirstAttemptStands ==
  [][\A a \in DOMAIN attempts : CountsAsFirst(a) => CountsAsFirst(a)']_vars

\* "OPEN covers an exam in progress too: its attempts only become ANSWERED
\* when it is submitted" (reports/service.py:46).
AnsweredMeansSubmitted ==
  \A a \in DOMAIN attempts :
    attempts[a].exam # Practice /\ attempts[a].state = "answered"
      => exams[attempts[a].exam].status = "submitted"

=============================================================================
