---------------------------- MODULE LanesProofs ----------------------------
(* Lanes, for every set of learners, catalogs and ids: the effect of each  *)
(* action, type correctness, and the safety invariants.  None of those is  *)
(* inductive alone: that a closed sitting holds no result needs            *)
(* SittingAgreement, that an answer to an exam question on the practice    *)
(* route leaves a resolved exam alone needs it too, and a fresh exam has   *)
(* no question yet by TypeOK.                                              *)
EXTENDS Lanes, TLAPS

----------------------------------------------------------------------------
(* What each action does to the tables, free of its helpers.               *)

LEMMA AttemptRowFields ==
  ASSUME NEW row \in AttemptRow
  PROVE  /\ row.owner \in Owner /\ row.ex \in Exercises
         /\ row.exam \in ExamIds \cup {Practice}
         /\ row.given \in Answers \cup {None}
         /\ row.verdict \in {"none", "correct", "wrong"}
         /\ row.state \in {"open", "answered", "abandoned"}
  BY DEF AttemptRow

LEMMA AbandonedRow ==
  ASSUME NEW row \in AttemptRow
  PROVE  /\ Abandoned(row) \in AttemptRow
         /\ Abandoned(row).owner = row.owner
         /\ Abandoned(row).ex = row.ex
         /\ Abandoned(row).exam = row.exam
         /\ Abandoned(row).given = row.given
         /\ Abandoned(row).verdict = row.verdict
         /\ Abandoned(row).state = "abandoned"
  BY DEF AttemptRow, Abandoned

LEMMA NewAttemptRow ==
  ASSUME NEW o \in Owner, NEW x \in Exercises, NEW e \in ExamIds \cup {Practice}
  PROVE  /\ NewAttempt(o, x, e) \in AttemptRow
         /\ NewAttempt(o, x, e).owner = o
         /\ NewAttempt(o, x, e).ex = x
         /\ NewAttempt(o, x, e).exam = e
         /\ NewAttempt(o, x, e).given = None
         /\ NewAttempt(o, x, e).verdict = "none"
         /\ NewAttempt(o, x, e).state = "open"
  BY DEF AttemptRow, NewAttempt

LEMMA GradedRow ==
  ASSUME NEW c, NEW row \in AttemptRow
  PROVE  /\ Graded(c, row) \in AttemptRow
         /\ Graded(c, row).owner = row.owner
         /\ Graded(c, row).ex = row.ex
         /\ Graded(c, row).exam = row.exam
         /\ Graded(c, row).given = row.given
         /\ Graded(c, row).verdict = ExamVerdict(c, row)
         /\ Graded(c, row).state = "answered"
         /\ ExamVerdict(c, row) \in {"correct", "wrong"}
  BY DEF AttemptRow, Graded, ExamVerdict, Verdict

\* An id handed out next is one the table does not hold yet.
LEMMA FreshIsNew ==
  ASSUME NEW a \in FreshAttempts
  PROVE  a \in AttemptIds /\ a \notin DOMAIN attempts
<1>1. a \in AttemptIds /\ a \in Nat
  BY ConstantsAssumption DEF FreshAttempts
<1>2. ASSUME a \in DOMAIN attempts PROVE FALSE
  BY <1>1, <1>2 DEF FreshAttempts
<1>. QED
  BY <1>1, <1>2

\* Opening x retires the superseded rows and adds one open practice row.
LEMMA OpenAttemptEffect ==
  ASSUME TypeOK, NEW o \in Owner, NEW x \in Exercises, OpenAttempt(o, x)
  PROVE  \E new \in FreshAttempts :
           /\ DOMAIN attempts' = DOMAIN attempts \cup {new}
           /\ attempts' = [a \in DOMAIN attempts' |-> attempts'[a]]
           /\ attempts'[new] = NewAttempt(o, x, Practice)
           /\ \A a \in DOMAIN attempts :
                attempts'[a] = IF a \in Superseded(o, x) THEN Abandoned(attempts[a])
                               ELSE attempts[a]
<1> DEFINE new == CHOOSE a \in FreshAttempts : TRUE
           rows == [a \in Superseded(o, x) \cup {new} |->
                      IF a = new THEN NewAttempt(o, x, Practice) ELSE Abandoned(attempts[a])]
<1>1. new \in FreshAttempts
  BY DEF OpenAttempt
<1>2. new \notin DOMAIN attempts /\ Superseded(o, x) \subseteq DOMAIN attempts
  BY <1>1, FreshIsNew DEF Superseded
<1>3. DOMAIN rows = Superseded(o, x) \cup {new}
  OBVIOUS
<1>4. \A a \in Superseded(o, x) : rows[a] = Abandoned(attempts[a])
  BY <1>2
<1>5. rows[new] = NewAttempt(o, x, Practice)
  OBVIOUS
<1>6. attempts' = Write(attempts, rows)
  BY DEF OpenAttempt
<1> HIDE DEF new, rows
<1>7. attempts' = [i \in DOMAIN attempts \cup {new} |->
                     IF i \in Superseded(o, x) \cup {new} THEN rows[i] ELSE attempts[i]]
  BY <1>2, <1>3, <1>6 DEF Write
<1>8. DOMAIN attempts' = DOMAIN attempts \cup {new}
  BY <1>7
<1>9. attempts'[new] = NewAttempt(o, x, Practice)
  BY <1>5, <1>7
<1>10. ASSUME NEW a \in DOMAIN attempts
       PROVE  attempts'[a] = IF a \in Superseded(o, x) THEN Abandoned(attempts[a])
                             ELSE attempts[a]
  BY <1>1, <1>2, <1>4, <1>7
<1>11. attempts' = [a \in DOMAIN attempts' |-> attempts'[a]]
  BY <1>7
<1>. QED
  BY <1>1, <1>8, <1>9, <1>10, <1>11

\* An answer, on either route, writes one row and leaves its identity alone.
LEMMA SubmitAnswerEffect ==
  ASSUME TypeOK, NEW o \in Owner, NEW a \in AttemptIds, NEW ans \in Answers,
         SubmitAnswer(o, a, ans)
  PROVE  /\ a \in DOMAIN attempts
         /\ attempts[a].owner = o /\ attempts[a].state = "open"
         /\ attempts' = [b \in DOMAIN attempts |-> attempts'[b]]
         /\ attempts'[a] = [attempts[a] EXCEPT !.given = ans, !.state = "answered",
                                              !.verdict = Verdict(attempts[a].ex, ans)]
         /\ attempts'[a] \in AttemptRow
         /\ attempts'[a].owner = o
         /\ attempts'[a].ex = attempts[a].ex
         /\ attempts'[a].exam = attempts[a].exam
         /\ attempts'[a].state = "answered"
         /\ \A b \in DOMAIN attempts \ {a} : attempts'[b] = attempts[b]
         /\ exams' = exams /\ catalog' = catalog
<1> DEFINE row == [attempts[a] EXCEPT !.given = ans, !.state = "answered",
                                     !.verdict = Verdict(attempts[a].ex, ans)]
<1>1. /\ a \in DOMAIN attempts /\ attempts[a] \in AttemptRow
      /\ attempts[a].owner = o /\ attempts[a].state = "open"
      /\ exams' = exams /\ catalog' = catalog
  BY DEF SubmitAnswer, TypeOK
<1>2. /\ row \in AttemptRow
      /\ row.owner = o /\ row.ex = attempts[a].ex
      /\ row.exam = attempts[a].exam /\ row.state = "answered"
  BY <1>1 DEF AttemptRow, Verdict
<1>3. attempts' = [attempts EXCEPT ![a] = row]
  BY <1>1 DEF SubmitAnswer, TypeOK, AttemptRow
<1> HIDE DEF row
<1>4. attempts' = [b \in DOMAIN attempts |-> IF b = a THEN row ELSE attempts[b]]
  BY <1>3
<1>5. attempts'[a] = row
  BY <1>1, <1>4
<1>6. \A b \in DOMAIN attempts \ {a} : attempts'[b] = attempts[b]
  BY <1>4
<1>7. attempts' = [b \in DOMAIN attempts |-> attempts'[b]]
  BY <1>4
<1>. QED
  BY <1>1, <1>2, <1>5, <1>6, <1>7 DEF row

LEMMA AnswerQuestionEffect ==
  ASSUME TypeOK, NEW o \in Owner, NEW e \in ExamIds, NEW a \in AttemptIds,
         NEW ans \in Answers, AnswerQuestion(o, e, a, ans)
  PROVE  /\ a \in DOMAIN attempts /\ attempts[a].exam = e
         /\ e \in DOMAIN exams /\ exams[e].status = "open"
         /\ attempts' = [b \in DOMAIN attempts |-> attempts'[b]]
         /\ attempts'[a].given = ans /\ attempts'[a].verdict = attempts[a].verdict
         /\ attempts'[a] \in AttemptRow
         /\ attempts'[a].owner = attempts[a].owner
         /\ attempts'[a].ex = attempts[a].ex
         /\ attempts'[a].exam = e
         /\ attempts'[a].state = attempts[a].state
         /\ \A b \in DOMAIN attempts \ {a} : attempts'[b] = attempts[b]
         /\ exams' = exams /\ catalog' = catalog
<1> DEFINE row == [attempts[a] EXCEPT !.given = ans]
<1>1. /\ a \in DOMAIN attempts /\ attempts[a] \in AttemptRow /\ attempts[a].exam = e
      /\ e \in DOMAIN exams /\ exams[e].status = "open"
      /\ exams' = exams /\ catalog' = catalog
  BY DEF AnswerQuestion, InProgress, QuestionsOf, TypeOK
<1>2. /\ row \in AttemptRow
      /\ row.owner = attempts[a].owner /\ row.ex = attempts[a].ex
      /\ row.exam = e /\ row.state = attempts[a].state
      /\ row.given = ans /\ row.verdict = attempts[a].verdict
  BY <1>1 DEF AttemptRow
<1>3. attempts' = [attempts EXCEPT ![a] = row]
  BY <1>1 DEF AnswerQuestion
<1> HIDE DEF row
<1>4. attempts' = [b \in DOMAIN attempts |-> IF b = a THEN row ELSE attempts[b]]
  BY <1>3
<1>5. attempts'[a] = row
  BY <1>1, <1>4
<1>6. \A b \in DOMAIN attempts \ {a} : attempts'[b] = attempts[b]
  BY <1>4
<1>7. attempts' = [b \in DOMAIN attempts |-> attempts'[b]]
  BY <1>4
<1>. QED
  BY <1>1, <1>2, <1>5, <1>6, <1>7

\* Submitting and abandoning write every question of one open exam.
LEMMA SubmitExamEffect ==
  ASSUME TypeOK, NEW o \in Owner, NEW e \in ExamIds, SubmitExam(o, e)
  PROVE  /\ e \in DOMAIN exams /\ exams[e].owner = o /\ exams[e].status = "open"
         /\ attempts' = [a \in DOMAIN attempts |->
                            IF a \in QuestionsOf(e) THEN Graded(o.course, attempts[a])
                            ELSE attempts[a]]
         /\ exams' = [f \in DOMAIN exams |->
                         IF f = e
                         THEN [exams[e] EXCEPT
                                 !.status = "submitted",
                                 !.result = [a \in QuestionsOf(e) |->
                                               ResultEntry(o.course, attempts[a])]]
                         ELSE exams[f]]
         /\ catalog' = catalog
<1> DEFINE rows == [a \in QuestionsOf(e) |-> Graded(o.course, attempts[a])]
           row == [exams[e] EXCEPT !.status = "submitted",
                                   !.result = [a \in QuestionsOf(e) |->
                                                 ResultEntry(o.course, attempts[a])]]
<1>1. e \in DOMAIN exams /\ exams[e].owner = o /\ exams[e].status = "open" /\ catalog' = catalog
  BY DEF SubmitExam, InProgress
<1>2. QuestionsOf(e) \subseteq DOMAIN attempts
  BY DEF QuestionsOf
<1>3. attempts' = [a \in DOMAIN attempts |->
                     IF a \in QuestionsOf(e) THEN Graded(o.course, attempts[a]) ELSE attempts[a]]
  <2>1. attempts' = Write(attempts, rows) /\ DOMAIN rows = QuestionsOf(e)
    BY DEF SubmitExam
  <2>2. attempts' = [a \in DOMAIN attempts |->
                       IF a \in QuestionsOf(e) THEN rows[a] ELSE attempts[a]]
    <3> HIDE DEF rows
    <3>. QED BY <2>1, <1>2 DEF Write
  <2>. QED BY <2>2
<1>4. exams' = [exams EXCEPT ![e] = row]
  BY <1>1 DEF SubmitExam, TypeOK
<1> HIDE DEF row
<1>5. exams' = [f \in DOMAIN exams |-> IF f = e THEN row ELSE exams[f]]
  BY <1>4
<1>. QED
  BY <1>1, <1>3, <1>5 DEF row

LEMMA AbandonExamEffect ==
  ASSUME TypeOK, NEW o \in Owner, NEW e \in ExamIds, AbandonExam(o, e)
  PROVE  /\ e \in DOMAIN exams /\ exams[e].owner = o /\ exams[e].status = "open"
         /\ attempts' = [a \in DOMAIN attempts |->
                            IF a \in QuestionsOf(e) THEN Abandoned(attempts[a])
                            ELSE attempts[a]]
         /\ exams' = [f \in DOMAIN exams |->
                         IF f = e THEN [exams[e] EXCEPT !.status = "abandoned"]
                         ELSE exams[f]]
         /\ catalog' = catalog
<1> DEFINE rows == [a \in QuestionsOf(e) |-> Abandoned(attempts[a])]
           row == [exams[e] EXCEPT !.status = "abandoned"]
<1>1. e \in DOMAIN exams /\ exams[e].owner = o /\ exams[e].status = "open" /\ catalog' = catalog
  BY DEF AbandonExam, InProgress
<1>2. QuestionsOf(e) \subseteq DOMAIN attempts
  BY DEF QuestionsOf
<1>3. attempts' = [a \in DOMAIN attempts |->
                     IF a \in QuestionsOf(e) THEN Abandoned(attempts[a]) ELSE attempts[a]]
  <2>1. attempts' = Write(attempts, rows) /\ DOMAIN rows = QuestionsOf(e)
    BY DEF AbandonExam
  <2>2. attempts' = [a \in DOMAIN attempts |->
                       IF a \in QuestionsOf(e) THEN rows[a] ELSE attempts[a]]
    <3> HIDE DEF rows
    <3>. QED BY <2>1, <1>2 DEF Write
  <2>. QED BY <2>2
<1>4. exams' = [exams EXCEPT ![e] = row]
  BY <1>1 DEF AbandonExam, TypeOK
<1> HIDE DEF row
<1>5. exams' = [f \in DOMAIN exams |-> IF f = e THEN row ELSE exams[f]]
  BY <1>4
<1>. QED
  BY <1>1, <1>3, <1>5 DEF row

\* What starting an exam leaves behind: the open sittings of the scope closed,
\* one exam added, and the fresh rows `new` as its questions.
Started(o, scope, e, new, order) ==
  /\ e \in ExamIds \ DOMAIN exams
  /\ new \subseteq FreshAttempts
  /\ IsExamRow(NewExam(o, scope, order))
  /\ exams' = [f \in DOMAIN exams \cup {e} |->
                  IF f = e THEN NewExam(o, scope, order)
                  ELSE IF f \in OpenSittings(o, scope)
                  THEN [exams[f] EXCEPT !.status = "abandoned"]
                  ELSE exams[f]]
  /\ DOMAIN attempts' = DOMAIN attempts \cup new
  /\ attempts' = [a \in DOMAIN attempts' |-> attempts'[a]]
  /\ \A a \in new : \E x \in Exercises : attempts'[a] = NewAttempt(o, x, e)
  /\ \A a \in DOMAIN attempts :
       attempts'[a] = IF attempts[a].exam \in OpenSittings(o, scope)
                      THEN Abandoned(attempts[a]) ELSE attempts[a]
  /\ catalog' = catalog

LEMMA StartExamEffect ==
  ASSUME TypeOK, NEW o \in Owner, NEW scope \in Scope, StartExam(o, scope)
  PROVE  \E e, new, order : Started(o, scope, e, new, order)
<1> DEFINE mods == ScopeModules(o.course, scope)
           closed == OpenSittings(o, scope)
           e == CHOOSE i \in ExamIds \ DOMAIN exams : TRUE
           ids == CHOOSE f \in FreshIds(mods) : TRUE
           new == {ids[i] : i \in mods}
<1>1. PICK pick \in [mods -> Exercises] :
        LET order == [x \in {pick[i] : i \in mods} |-> CHOOSE i \in mods : pick[i] = x]
        IN  /\ exams' = Write(exams,
                 [f \in closed \cup {e} |->
                    IF f = e THEN NewExam(o, scope, order)
                    ELSE [exams[f] EXCEPT !.status = "abandoned"]])
            /\ attempts' = Write(attempts,
                 [a \in {b \in DOMAIN attempts : attempts[b].exam \in closed} \cup new |->
                    IF a \in DOMAIN attempts THEN Abandoned(attempts[a])
                    ELSE NewAttempt(o, pick[CHOOSE i \in mods : ids[i] = a], e)])
  BY DEF StartExam
<1> DEFINE order == [x \in {pick[i] : i \in mods} |-> CHOOSE i \in mods : pick[i] = x]
           examRows == [f \in closed \cup {e} |->
                          IF f = e THEN NewExam(o, scope, order)
                          ELSE [exams[f] EXCEPT !.status = "abandoned"]]
           old == {b \in DOMAIN attempts : attempts[b].exam \in closed}
           rows == [a \in old \cup new |->
                      IF a \in DOMAIN attempts THEN Abandoned(attempts[a])
                      ELSE NewAttempt(o, pick[CHOOSE i \in mods : ids[i] = a], e)]
<1>2. /\ e \in ExamIds \ DOMAIN exams
      /\ ids \in FreshIds(mods)
      /\ catalog' = catalog
  BY DEF StartExam
<1>3. new \in SUBSET FreshAttempts
  BY <1>2 DEF FreshIds
<1>4. closed \subseteq DOMAIN exams /\ old \subseteq DOMAIN attempts
  BY DEF OpenSittings
<1>5. mods \subseteq Nat
  <2>1. IsManifest(catalog[o.course])
    BY ConstantsAssumption DEF TypeOK, Owner
  <2>. QED BY <2>1 DEF ScopeModules, IsManifest
<1>6. IsExamRow(NewExam(o, scope, order))
  <2>1. DOMAIN order \subseteq Exercises
    OBVIOUS
  <2>2. order \in [DOMAIN order -> Nat]
    BY <1>5
  <2> HIDE DEF order
  <2>. QED BY <2>1, <2>2 DEF NewExam, IsExamRow
<1>7. exams' = [f \in DOMAIN exams \cup {e} |->
                  IF f = e THEN NewExam(o, scope, order)
                  ELSE IF f \in closed THEN [exams[f] EXCEPT !.status = "abandoned"]
                  ELSE exams[f]]
  <2>1. exams' = Write(exams, examRows) /\ DOMAIN examRows = closed \cup {e}
    BY <1>1
  <2>2. examRows[e] = NewExam(o, scope, order)
    OBVIOUS
  <2>3. \A f \in closed : examRows[f] = [exams[f] EXCEPT !.status = "abandoned"]
    BY <1>2, <1>4
  <2> HIDE DEF examRows, e, closed, order
  <2>. QED BY <2>1, <2>2, <2>3, <1>4 DEF Write
<1>8. /\ attempts' = Write(attempts, rows)
      /\ DOMAIN rows = old \cup new
      /\ \A a \in old : rows[a] = Abandoned(attempts[a])
  BY <1>1
<1>9. \A a \in new : \E x \in Exercises : rows[a] = NewAttempt(o, x, e)
  <2> SUFFICES ASSUME NEW a \in new
               PROVE  \E x \in Exercises : rows[a] = NewAttempt(o, x, e)
    OBVIOUS
  <2>1. a \notin DOMAIN attempts
    BY <1>3, FreshIsNew
  <2>2. (CHOOSE i \in mods : ids[i] = a) \in mods
    OBVIOUS
  <2>3. rows[a] = NewAttempt(o, pick[CHOOSE i \in mods : ids[i] = a], e)
    BY <2>1
  <2>. QED BY <2>2, <2>3
<1> HIDE DEF rows, new, closed, e, order
<1>10. attempts' = [a \in DOMAIN attempts \cup new |->
                      IF a \in old \cup new THEN rows[a] ELSE attempts[a]]
  BY <1>4, <1>8 DEF Write
<1>11. \A a \in new : a \notin DOMAIN attempts
  BY <1>3, FreshIsNew
<1>12. /\ DOMAIN attempts' = DOMAIN attempts \cup new
       /\ attempts' = [a \in DOMAIN attempts' |-> attempts'[a]]
  BY <1>10
<1>13. \A a \in new : \E x \in Exercises : attempts'[a] = NewAttempt(o, x, e)
  BY <1>9, <1>10
<1>14. \A a \in DOMAIN attempts :
         attempts'[a] = IF attempts[a].exam \in closed
                        THEN Abandoned(attempts[a]) ELSE attempts[a]
  BY <1>8, <1>10, <1>11
<1>15. closed = OpenSittings(o, scope)
  BY DEF closed
<1>. QED
  BY <1>2, <1>3, <1>6, <1>7, <1>12, <1>13, <1>14, <1>15 DEF Started

----------------------------------------------------------------------------
(* Type correctness.                                                       *)

LEMMA ResultEntryType ==
  ASSUME TypeOK, NEW o \in Owner, NEW row \in AttemptRow
  PROVE  ResultEntry(o.course, row) \in
           [module : SUBSET Modules, correct : BOOLEAN, unanswered : BOOLEAN]
<1>1. IsManifest(catalog[o.course])
  BY ConstantsAssumption DEF TypeOK, Owner
<1>2. ModuleOf(o.course, row.ex) \in SUBSET Modules
  BY <1>1 DEF ModuleOf, IsManifest, Module
<1>. QED
  BY <1>2 DEF ResultEntry

LEMMA InitTypeOK == Init => TypeOK
  BY DEF Init, TypeOK

LEMMA OpenAttemptTypeOK ==
  ASSUME TypeOK, NEW o \in Owner, NEW x \in Exercises, OpenAttempt(o, x)
  PROVE  TypeOK'
<1>1. PICK new \in FreshAttempts :
        /\ DOMAIN attempts' = DOMAIN attempts \cup {new}
        /\ attempts' = [a \in DOMAIN attempts' |-> attempts'[a]]
        /\ attempts'[new] = NewAttempt(o, x, Practice)
        /\ \A a \in DOMAIN attempts :
             attempts'[a] = IF a \in Superseded(o, x) THEN Abandoned(attempts[a])
                            ELSE attempts[a]
  BY OpenAttemptEffect
<1>2. exams' = exams /\ catalog' = catalog
  BY DEF OpenAttempt
<1>3. \A a \in DOMAIN attempts' :
        /\ attempts'[a] \in AttemptRow
        /\ attempts'[a].exam # Practice => attempts'[a].exam \in DOMAIN exams
  <2> TAKE a \in DOMAIN attempts'
  <2>1. CASE a = new
    BY <1>1, <2>1, NewAttemptRow
  <2>2. CASE a \in DOMAIN attempts
    BY <1>1, <2>2, AbandonedRow DEF TypeOK
  <2>. QED BY <1>1, <2>1, <2>2
<1>4. DOMAIN attempts' \subseteq AttemptIds
  BY <1>1, FreshIsNew DEF TypeOK
<1>. QED
  BY <1>1, <1>2, <1>3, <1>4 DEF TypeOK

LEMMA SubmitAnswerTypeOK ==
  ASSUME TypeOK, NEW o \in Owner, NEW a \in AttemptIds, NEW ans \in Answers,
         SubmitAnswer(o, a, ans)
  PROVE  TypeOK'
<1>1. /\ attempts' = [b \in DOMAIN attempts |-> attempts'[b]]
      /\ exams' = exams /\ catalog' = catalog
      /\ attempts'[a] \in AttemptRow /\ attempts'[a].exam = attempts[a].exam
      /\ \A b \in DOMAIN attempts \ {a} : attempts'[b] = attempts[b]
  BY SubmitAnswerEffect
<1>2. DOMAIN attempts' = DOMAIN attempts
  BY <1>1
<1>3. \A b \in DOMAIN attempts :
        attempts'[b] \in AttemptRow /\ attempts'[b].exam = attempts[b].exam
  BY <1>1 DEF TypeOK
<1>. QED
  BY <1>1, <1>2, <1>3 DEF TypeOK

LEMMA AnswerQuestionTypeOK ==
  ASSUME TypeOK, NEW o \in Owner, NEW e \in ExamIds, NEW a \in AttemptIds,
         NEW ans \in Answers, AnswerQuestion(o, e, a, ans)
  PROVE  TypeOK'
<1>1. /\ attempts' = [b \in DOMAIN attempts |-> attempts'[b]]
      /\ exams' = exams /\ catalog' = catalog
      /\ attempts[a].exam = e
      /\ attempts'[a] \in AttemptRow /\ attempts'[a].exam = e
      /\ \A b \in DOMAIN attempts \ {a} : attempts'[b] = attempts[b]
  BY AnswerQuestionEffect
<1>2. DOMAIN attempts' = DOMAIN attempts
  BY <1>1
<1>3. \A b \in DOMAIN attempts :
        attempts'[b] \in AttemptRow /\ attempts'[b].exam = attempts[b].exam
  BY <1>1 DEF TypeOK
<1>. QED
  BY <1>1, <1>2, <1>3 DEF TypeOK

LEMMA StartExamTypeOK ==
  ASSUME TypeOK, NEW o \in Owner, NEW scope \in Scope, StartExam(o, scope)
  PROVE  TypeOK'
<1>1. PICK e, new, order : Started(o, scope, e, new, order)
  BY StartExamEffect
<1>2. \A f \in DOMAIN exams' : IsExamRow(exams'[f])
  <2> TAKE f \in DOMAIN exams'
  <2>1. CASE f = e
    BY <1>1, <2>1 DEF Started
  <2>2. CASE f \in DOMAIN exams
    <3>1. IsExamRow(exams[f])
      BY <2>2 DEF TypeOK
    <3>2. IsExamRow([exams[f] EXCEPT !.status = "abandoned"])
      BY <3>1 DEF IsExamRow
    <3>. QED BY <1>1, <2>2, <3>1, <3>2 DEF Started
  <2>. QED BY <1>1, <2>1, <2>2 DEF Started
<1>3. e \in ExamIds /\ DOMAIN exams' = DOMAIN exams \cup {e}
  BY <1>1 DEF Started
<1>4. \A a \in DOMAIN attempts' :
        /\ attempts'[a] \in AttemptRow
        /\ attempts'[a].exam # Practice => attempts'[a].exam \in DOMAIN exams'
  <2> TAKE a \in DOMAIN attempts'
  <2>1. CASE a \in new
    <3>1. PICK x \in Exercises : attempts'[a] = NewAttempt(o, x, e)
      BY <1>1, <2>1 DEF Started
    <3>. QED BY <1>3, <3>1, NewAttemptRow
  <2>2. CASE a \in DOMAIN attempts
    <3>1. attempts'[a] \in {attempts[a], Abandoned(attempts[a])}
      BY <1>1, <2>2 DEF Started
    <3>. QED BY <1>3, <2>2, <3>1, AbandonedRow DEF TypeOK
  <2>. QED BY <1>1, <2>1, <2>2 DEF Started
<1>. QED
  BY <1>1, <1>2, <1>3, <1>4, FreshIsNew DEF TypeOK, Started

LEMMA SubmitExamTypeOK ==
  ASSUME TypeOK, NEW o \in Owner, NEW e \in ExamIds, SubmitExam(o, e)
  PROVE  TypeOK'
<1> DEFINE result == [a \in QuestionsOf(e) |-> ResultEntry(o.course, attempts[a])]
           row == [exams[e] EXCEPT !.status = "submitted", !.result = result]
<1>1. /\ e \in DOMAIN exams /\ IsExamRow(exams[e])
      /\ \A a \in DOMAIN attempts : attempts[a] \in AttemptRow
      /\ QuestionsOf(e) \subseteq DOMAIN attempts
      /\ DOMAIN attempts \subseteq AttemptIds
  BY SubmitExamEffect DEF TypeOK, QuestionsOf
<1>2. /\ DOMAIN result \subseteq AttemptIds
      /\ result \in [DOMAIN result -> [module : SUBSET Modules, correct : BOOLEAN,
                                       unanswered : BOOLEAN]]
  BY <1>1, ResultEntryType
<1>3. IsExamRow(row)
  <2> HIDE DEF result
  <2>. QED BY <1>1, <1>2 DEF IsExamRow
<1>4. /\ DOMAIN exams' = DOMAIN exams
      /\ exams' = [f \in DOMAIN exams |-> exams'[f]]
      /\ \A f \in DOMAIN exams : IsExamRow(exams'[f])
  <2>1. exams' = [f \in DOMAIN exams |-> IF f = e THEN row ELSE exams[f]]
    BY SubmitExamEffect
  <2> HIDE DEF row
  <2>. QED BY <2>1, <1>3 DEF TypeOK
<1>5. /\ DOMAIN attempts' = DOMAIN attempts
      /\ attempts' = [a \in DOMAIN attempts |-> attempts'[a]]
      /\ \A a \in DOMAIN attempts :
           attempts'[a] \in AttemptRow /\ attempts'[a].exam = attempts[a].exam
  <2>1. attempts' = [a \in DOMAIN attempts |->
                       IF a \in QuestionsOf(e) THEN Graded(o.course, attempts[a])
                       ELSE attempts[a]]
    BY SubmitExamEffect
  <2>2. \A a \in DOMAIN attempts :
          /\ Graded(o.course, attempts[a]) \in AttemptRow
          /\ Graded(o.course, attempts[a]).exam = attempts[a].exam
    BY <1>1, GradedRow
  <2>. QED BY <1>1, <2>1, <2>2
<1>. QED
  BY <1>4, <1>5, SubmitExamEffect DEF TypeOK

LEMMA AbandonExamTypeOK ==
  ASSUME TypeOK, NEW o \in Owner, NEW e \in ExamIds, AbandonExam(o, e)
  PROVE  TypeOK'
<1>1. /\ DOMAIN exams' = DOMAIN exams
      /\ exams' = [f \in DOMAIN exams |-> exams'[f]]
      /\ \A f \in DOMAIN exams : IsExamRow(exams'[f])
  <2>1. IsExamRow([exams[e] EXCEPT !.status = "abandoned"])
    BY AbandonExamEffect DEF TypeOK, IsExamRow
  <2>. QED BY <2>1, AbandonExamEffect DEF TypeOK
<1>2. /\ DOMAIN attempts' = DOMAIN attempts
      /\ attempts' = [a \in DOMAIN attempts |-> attempts'[a]]
      /\ \A a \in DOMAIN attempts :
           attempts'[a] \in AttemptRow /\ attempts'[a].exam = attempts[a].exam
  BY AbandonExamEffect, AbandonedRow DEF TypeOK
<1>. QED
  BY <1>1, <1>2, AbandonExamEffect DEF TypeOK

LEMMA NextTypeOK == TypeOK /\ [Next]_vars => TypeOK'
<1> SUFFICES ASSUME TypeOK, [Next]_vars PROVE TypeOK'
  OBVIOUS
<1>1. ASSUME NEW o \in Owner, NEW x \in Exercises, OpenAttempt(o, x) PROVE TypeOK'
  BY <1>1, OpenAttemptTypeOK
<1>2. ASSUME NEW o \in Owner, NEW a \in AttemptIds, NEW ans \in Answers,
             SubmitAnswer(o, a, ans)
      PROVE  TypeOK'
  BY <1>2, SubmitAnswerTypeOK
<1>3. ASSUME NEW o \in Owner, NEW scope \in Scope, StartExam(o, scope) PROVE TypeOK'
  BY <1>3, StartExamTypeOK
<1>4. ASSUME NEW o \in Owner, NEW e \in ExamIds, NEW a \in AttemptIds,
             NEW ans \in Answers, AnswerQuestion(o, e, a, ans)
      PROVE  TypeOK'
  BY <1>4, AnswerQuestionTypeOK
<1>5. ASSUME NEW o \in Owner, NEW e \in ExamIds, SubmitExam(o, e) PROVE TypeOK'
  BY <1>5, SubmitExamTypeOK
<1>6. ASSUME NEW o \in Owner, NEW e \in ExamIds, AbandonExam(o, e) PROVE TypeOK'
  BY <1>6, AbandonExamTypeOK
<1>7. CASE Redeploy
  BY <1>7 DEF Redeploy, TypeOK
<1>8. CASE UNCHANGED vars
  BY <1>8 DEF vars, TypeOK
<1>. QED
  BY <1>1, <1>2, <1>3, <1>4, <1>5, <1>6, <1>7, <1>8 DEF Next

\* Every row either service ever writes is well typed, and every exam question
\* points at an exam that exists.
THEOREM LanesTypeCorrect == Spec => []TypeOK
  BY InitTypeOK, NextTypeOK, PTL DEF Spec

----------------------------------------------------------------------------
(* The safety invariants.                                                  *)

\* The inductive invariant: the types and the three invariants together.
LaneInvariant ==
  /\ TypeOK
  /\ OneOpenPractice
  /\ OneOpenSitting
  /\ SittingAgreement

----------------------------------------------------------------------------
(* At most one unanswered practice attempt for an exercise.                *)

\* A step keeps the rule if every open practice row after it was one before.
LEMMA OneOpenPracticeKept ==
  ASSUME OneOpenPractice,
         \A a \in DOMAIN attempts' :
           attempts'[a].exam = Practice /\ attempts'[a].state = "open" =>
             /\ a \in DOMAIN attempts
             /\ attempts[a].exam = Practice /\ attempts[a].state = "open"
             /\ attempts[a].owner = attempts'[a].owner
             /\ attempts[a].ex = attempts'[a].ex
  PROVE  OneOpenPractice'
  BY DEF OneOpenPractice

LEMMA OpenAttemptOneOpenPractice ==
  ASSUME LaneInvariant, NEW o \in Owner, NEW x \in Exercises, OpenAttempt(o, x)
  PROVE  OneOpenPractice'
<1> USE DEF LaneInvariant
<1>1. PICK new \in FreshAttempts :
        /\ DOMAIN attempts' = DOMAIN attempts \cup {new}
        /\ attempts'[new] = NewAttempt(o, x, Practice)
        /\ \A a \in DOMAIN attempts :
             attempts'[a] = IF a \in Superseded(o, x) THEN Abandoned(attempts[a])
                            ELSE attempts[a]
  BY OpenAttemptEffect
<1>2. attempts'[new].owner = o /\ attempts'[new].ex = x
  BY <1>1, NewAttemptRow
<1>3. ASSUME NEW a \in DOMAIN attempts, attempts'[a].state = "open"
      PROVE  attempts'[a] = attempts[a] /\ a \notin Superseded(o, x)
  <2>1. attempts[a] \in AttemptRow
    BY DEF TypeOK
  <2>. QED BY <1>1, <1>3, <2>1, AbandonedRow
<1>4. ASSUME NEW a \in DOMAIN attempts, attempts'[a].state = "open",
             attempts'[a].exam = Practice
      PROVE  attempts'[a].owner # o \/ attempts'[a].ex # x
  BY <1>3, <1>4 DEF Superseded
<1>. QED
  BY <1>1, <1>2, <1>3, <1>4 DEF OneOpenPractice

LEMMA SubmitAnswerOneOpenPractice ==
  ASSUME LaneInvariant, NEW o \in Owner, NEW a \in AttemptIds, NEW ans \in Answers,
         SubmitAnswer(o, a, ans)
  PROVE  OneOpenPractice'
<1>1. /\ attempts' = [b \in DOMAIN attempts |-> attempts'[b]]
      /\ attempts'[a].state = "answered"
      /\ \A b \in DOMAIN attempts \ {a} : attempts'[b] = attempts[b]
  BY SubmitAnswerEffect DEF LaneInvariant
<1>2. DOMAIN attempts' = DOMAIN attempts
  BY <1>1
<1>. QED
  BY <1>1, <1>2, OneOpenPracticeKept DEF LaneInvariant

LEMMA AnswerQuestionOneOpenPractice ==
  ASSUME LaneInvariant, NEW o \in Owner, NEW e \in ExamIds, NEW a \in AttemptIds,
         NEW ans \in Answers, AnswerQuestion(o, e, a, ans)
  PROVE  OneOpenPractice'
<1>1. /\ attempts' = [b \in DOMAIN attempts |-> attempts'[b]]
      /\ attempts'[a].exam = e
      /\ \A b \in DOMAIN attempts \ {a} : attempts'[b] = attempts[b]
  BY AnswerQuestionEffect DEF LaneInvariant
<1>2. DOMAIN attempts' = DOMAIN attempts
  BY <1>1
<1>3. e # Practice
  BY ConstantsAssumption
<1>. QED
  BY <1>1, <1>2, <1>3, OneOpenPracticeKept DEF LaneInvariant

LEMMA StartExamOneOpenPractice ==
  ASSUME LaneInvariant, NEW o \in Owner, NEW scope \in Scope, StartExam(o, scope)
  PROVE  OneOpenPractice'
<1>1. PICK e, new, order : Started(o, scope, e, new, order)
  BY StartExamEffect DEF LaneInvariant
<1>2. \A a \in new : attempts'[a].exam # Practice
  BY <1>1, NewAttemptRow, ConstantsAssumption DEF Started
<1>3. ASSUME NEW a \in DOMAIN attempts, attempts'[a].state = "open"
      PROVE  attempts'[a] = attempts[a]
  <2>1. attempts[a] \in AttemptRow
    BY DEF LaneInvariant, TypeOK
  <2>. QED BY <1>1, <1>3, <2>1, AbandonedRow DEF Started
<1>4. DOMAIN attempts' = DOMAIN attempts \cup new
  BY <1>1 DEF Started
<1>. QED
  BY <1>2, <1>3, <1>4, OneOpenPracticeKept DEF LaneInvariant

\* Neither submitting nor abandoning an exam leaves one of its rows open.
LEMMA ClosingOneOpenPractice ==
  ASSUME LaneInvariant, NEW o \in Owner, NEW e \in ExamIds,
         SubmitExam(o, e) \/ AbandonExam(o, e)
  PROVE  OneOpenPractice'
<1>1. /\ DOMAIN attempts' = DOMAIN attempts
      /\ \A a \in DOMAIN attempts : attempts'[a].state = "open" => attempts'[a] = attempts[a]
  <2>1. \A a \in DOMAIN attempts : attempts[a] \in AttemptRow
    BY DEF LaneInvariant, TypeOK
  <2>2. CASE SubmitExam(o, e)
    <3>1. attempts' = [a \in DOMAIN attempts |->
                         IF a \in QuestionsOf(e) THEN Graded(o.course, attempts[a])
                         ELSE attempts[a]]
      BY <2>2, SubmitExamEffect DEF LaneInvariant
    <3>. QED BY <2>1, <3>1, GradedRow
  <2>3. CASE AbandonExam(o, e)
    <3>1. attempts' = [a \in DOMAIN attempts |->
                         IF a \in QuestionsOf(e) THEN Abandoned(attempts[a])
                         ELSE attempts[a]]
      BY <2>3, AbandonExamEffect DEF LaneInvariant
    <3>. QED BY <2>1, <3>1, AbandonedRow
  <2>. QED BY <2>2, <2>3
<1>. QED
  BY <1>1, OneOpenPracticeKept DEF LaneInvariant

----------------------------------------------------------------------------
(* At most one open sitting for a scope.                                   *)

LEMMA StartExamOneOpenSitting ==
  ASSUME LaneInvariant, NEW o \in Owner, NEW scope \in Scope, StartExam(o, scope)
  PROVE  OneOpenSitting'
<1> PICK e, new, order : Started(o, scope, e, new, order)
  BY StartExamEffect DEF LaneInvariant
<1>1. /\ e \notin DOMAIN exams
      /\ exams' = [f \in DOMAIN exams \cup {e} |->
                     IF f = e THEN NewExam(o, scope, order)
                     ELSE IF f \in OpenSittings(o, scope)
                     THEN [exams[f] EXCEPT !.status = "abandoned"]
                     ELSE exams[f]]
  BY DEF Started
<1>2. exams'[e].owner = o /\ exams'[e].scope = scope
  BY <1>1 DEF NewExam
<1>3. ASSUME NEW f \in DOMAIN exams, exams'[f].status = "open"
      PROVE  exams'[f] = exams[f] /\ f \notin OpenSittings(o, scope)
  <2>1. [exams[f] EXCEPT !.status = "abandoned"].status = "abandoned"
    BY DEF LaneInvariant, TypeOK, IsExamRow
  <2>. QED BY <1>1, <1>3, <2>1
<1>4. ASSUME NEW f \in DOMAIN exams, exams'[f].status = "open"
      PROVE  exams'[f].owner # o \/ exams'[f].scope # scope
  BY <1>3, <1>4 DEF OpenSittings
<1>5. DOMAIN exams' = DOMAIN exams \cup {e}
  BY <1>1
<1>. QED
  BY <1>2, <1>3, <1>4, <1>5 DEF OneOpenSitting, LaneInvariant

LEMMA ClosingOneOpenSitting ==
  ASSUME LaneInvariant, NEW o \in Owner, NEW e \in ExamIds,
         SubmitExam(o, e) \/ AbandonExam(o, e)
  PROVE  OneOpenSitting'
<1>1. /\ DOMAIN exams' = DOMAIN exams
      /\ \A f \in DOMAIN exams : exams'[f].status = "open" => exams'[f] = exams[f]
  <2>1. e \in DOMAIN exams => IsExamRow(exams[e])
    BY DEF LaneInvariant, TypeOK
  <2>2. CASE SubmitExam(o, e)
    <3> DEFINE result == [a \in QuestionsOf(e) |-> ResultEntry(o.course, attempts[a])]
    <3>1. /\ e \in DOMAIN exams
          /\ exams' = [f \in DOMAIN exams |->
                         IF f = e THEN [exams[e] EXCEPT !.status = "submitted", !.result = result]
                         ELSE exams[f]]
      BY <2>2, SubmitExamEffect DEF LaneInvariant
    <3> HIDE DEF result
    <3>2. [exams[e] EXCEPT !.status = "submitted", !.result = result].status = "submitted"
      BY <2>1, <3>1 DEF IsExamRow
    <3>. QED BY <3>1, <3>2
  <2>3. CASE AbandonExam(o, e)
    <3>1. /\ e \in DOMAIN exams
          /\ exams' = [f \in DOMAIN exams |->
                         IF f = e THEN [exams[e] EXCEPT !.status = "abandoned"] ELSE exams[f]]
      BY <2>3, AbandonExamEffect DEF LaneInvariant
    <3>2. [exams[e] EXCEPT !.status = "abandoned"].status = "abandoned"
      BY <2>1, <3>1 DEF IsExamRow
    <3>. QED BY <3>1, <3>2
  <2>. QED BY <2>2, <2>3
<1>. QED
  BY <1>1 DEF OneOpenSitting, LaneInvariant

----------------------------------------------------------------------------
(* An exam row and its questions tell one story.                           *)

\* A step leaves an exam in agreement if it writes neither it nor its questions.
LEMMA UntouchedAgrees ==
  ASSUME NEW e \in DOMAIN exams, Agrees(e), exams'[e] = exams[e],
         QuestionsOf(e)' = QuestionsOf(e),
         \A a \in QuestionsOf(e) : attempts'[a] = attempts[a]
  PROVE  Agrees(e)'
  BY DEF Agrees

LEMMA OpenAttemptAgreement ==
  ASSUME LaneInvariant, NEW o \in Owner, NEW x \in Exercises, OpenAttempt(o, x)
  PROVE  SittingAgreement'
<1>1. PICK new \in FreshAttempts :
        /\ DOMAIN attempts' = DOMAIN attempts \cup {new}
        /\ attempts'[new] = NewAttempt(o, x, Practice)
        /\ \A a \in DOMAIN attempts :
             attempts'[a] = IF a \in Superseded(o, x) THEN Abandoned(attempts[a])
                            ELSE attempts[a]
  BY OpenAttemptEffect DEF LaneInvariant
<1>2. exams' = exams
  BY DEF OpenAttempt
<1>3. attempts'[new].exam = Practice
  BY <1>1, NewAttemptRow
<1>4. \A a \in DOMAIN attempts :
        /\ attempts'[a].exam = attempts[a].exam
        /\ attempts[a].exam # Practice => attempts'[a] = attempts[a]
  <2>1. \A a \in DOMAIN attempts : attempts[a] \in AttemptRow
    BY DEF LaneInvariant, TypeOK
  <2>. QED BY <1>1, <2>1, AbandonedRow DEF Superseded
<1>5. ASSUME NEW e \in DOMAIN exams PROVE Agrees(e)'
  <2>1. e # Practice
    BY ConstantsAssumption DEF LaneInvariant, TypeOK
  <2>2. QuestionsOf(e)' = QuestionsOf(e)
    BY <1>1, <1>3, <1>4, <2>1 DEF QuestionsOf
  <2>3. \A a \in QuestionsOf(e) : attempts'[a] = attempts[a]
    BY <1>4, <2>1 DEF QuestionsOf
  <2>. QED BY <1>2, <2>2, <2>3, UntouchedAgrees DEF LaneInvariant, SittingAgreement
<1>. QED
  BY <1>2, <1>5 DEF SittingAgreement

\* On the practice route an exam question can only be one of an open exam.
LEMMA SubmitAnswerAgreement ==
  ASSUME LaneInvariant, NEW o \in Owner, NEW a \in AttemptIds, NEW ans \in Answers,
         SubmitAnswer(o, a, ans)
  PROVE  SittingAgreement'
<1>1. /\ a \in DOMAIN attempts /\ attempts[a].owner = o /\ attempts[a].state = "open"
      /\ attempts' = [b \in DOMAIN attempts |-> attempts'[b]]
      /\ attempts'[a].owner = o /\ attempts'[a].exam = attempts[a].exam
      /\ attempts'[a].state = "answered"
      /\ \A b \in DOMAIN attempts \ {a} : attempts'[b] = attempts[b]
      /\ exams' = exams
  BY SubmitAnswerEffect DEF LaneInvariant
<1>2. DOMAIN attempts' = DOMAIN attempts
  BY <1>1
<1>3. ASSUME NEW e \in DOMAIN exams PROVE Agrees(e)'
  <2>1. Agrees(e)
    BY DEF LaneInvariant, SittingAgreement
  <2>2. QuestionsOf(e)' = QuestionsOf(e)
    BY <1>1, <1>2 DEF QuestionsOf
  <2>3. CASE a \notin QuestionsOf(e)
    <3>1. \A b \in QuestionsOf(e) : attempts'[b] = attempts[b]
      BY <1>1, <2>3 DEF QuestionsOf
    <3>. QED BY <1>1, <2>1, <2>2, <3>1, UntouchedAgrees
  <2>4. CASE a \in QuestionsOf(e)
    <3>1. exams[e].status \notin {"submitted", "abandoned"}
      BY <1>1, <2>1, <2>4 DEF Agrees
    <3>2. \A b \in QuestionsOf(e) : b # a => attempts'[b] = attempts[b]
      BY <1>1 DEF QuestionsOf
    <3>. QED BY <1>1, <2>1, <2>2, <2>4, <3>1, <3>2 DEF Agrees
  <2>. QED BY <2>3, <2>4
<1>. QED
  BY <1>1, <1>3 DEF SittingAgreement

LEMMA AnswerQuestionAgreement ==
  ASSUME LaneInvariant, NEW o \in Owner, NEW e \in ExamIds, NEW a \in AttemptIds,
         NEW ans \in Answers, AnswerQuestion(o, e, a, ans)
  PROVE  SittingAgreement'
<1>1. /\ attempts[a].exam = e /\ exams[e].status = "open"
      /\ attempts' = [b \in DOMAIN attempts |-> attempts'[b]]
      /\ attempts'[a].owner = attempts[a].owner /\ attempts'[a].exam = e
      /\ attempts'[a].state = attempts[a].state
      /\ \A b \in DOMAIN attempts \ {a} : attempts'[b] = attempts[b]
      /\ exams' = exams
  BY AnswerQuestionEffect DEF LaneInvariant
<1>2. DOMAIN attempts' = DOMAIN attempts
  BY <1>1
<1>3. ASSUME NEW f \in DOMAIN exams PROVE Agrees(f)'
  <2>1. Agrees(f)
    BY DEF LaneInvariant, SittingAgreement
  <2>2. QuestionsOf(f)' = QuestionsOf(f)
    BY <1>1, <1>2 DEF QuestionsOf
  <2>3. CASE f # e
    <3>1. \A b \in QuestionsOf(f) : attempts'[b] = attempts[b]
      BY <1>1, <2>3 DEF QuestionsOf
    <3>. QED BY <1>1, <2>1, <2>2, <3>1, UntouchedAgrees
  <2>4. CASE f = e
    <3>1. \A b \in QuestionsOf(e) :
            attempts'[b].owner = attempts[b].owner /\ attempts'[b].state = attempts[b].state
      BY <1>1 DEF QuestionsOf
    <3>. QED BY <1>1, <2>1, <2>2, <2>4, <3>1 DEF Agrees
  <2>. QED BY <2>3, <2>4
<1>. QED
  BY <1>1, <1>3 DEF SittingAgreement

LEMMA StartExamAgreement ==
  ASSUME LaneInvariant, NEW o \in Owner, NEW scope \in Scope, StartExam(o, scope)
  PROVE  SittingAgreement'
<1> PICK e, new, order : Started(o, scope, e, new, order)
  BY StartExamEffect DEF LaneInvariant
<1>1. /\ e \in ExamIds \ DOMAIN exams
      /\ new \subseteq FreshAttempts
      /\ DOMAIN attempts' = DOMAIN attempts \cup new
      /\ \A a \in new : \E x \in Exercises : attempts'[a] = NewAttempt(o, x, e)
      /\ \A a \in DOMAIN attempts :
           attempts'[a] = IF attempts[a].exam \in OpenSittings(o, scope)
                          THEN Abandoned(attempts[a]) ELSE attempts[a]
  BY DEF Started
<1>2. exams' = [f \in DOMAIN exams \cup {e} |->
                  IF f = e THEN NewExam(o, scope, order)
                  ELSE IF f \in OpenSittings(o, scope)
                  THEN [exams[f] EXCEPT !.status = "abandoned"]
                  ELSE exams[f]]
  BY DEF Started
<1>3. \A a \in DOMAIN attempts : attempts[a] \in AttemptRow /\ attempts[a].exam # e
  BY <1>1, ConstantsAssumption DEF LaneInvariant, TypeOK
<1>4. \A a \in DOMAIN attempts :
        /\ attempts'[a].exam = attempts[a].exam
        /\ attempts'[a].owner = attempts[a].owner
        /\ attempts[a].exam \notin OpenSittings(o, scope) => attempts'[a] = attempts[a]
        /\ attempts[a].exam \in OpenSittings(o, scope) => attempts'[a].state = "abandoned"
  BY <1>1, <1>3, AbandonedRow
<1>5. \A a \in new : /\ attempts'[a].exam = e /\ attempts'[a].owner = o
                     /\ attempts'[a].state = "open"
  BY <1>1, NewAttemptRow
<1>6. \A f \in DOMAIN exams : QuestionsOf(f)' = QuestionsOf(f)
  BY <1>1, <1>4, <1>5 DEF QuestionsOf
<1>7. Agrees(e)'
  <2>1. QuestionsOf(e)' = new
    BY <1>1, <1>3, <1>4, <1>5 DEF QuestionsOf
  <2>2. exams'[e] = NewExam(o, scope, order)
    BY <1>2
  <2>3. /\ exams'[e].owner = o /\ exams'[e].status = "open"
        /\ DOMAIN exams'[e].result = {}
    BY <2>2 DEF NewExam
  <2>. QED BY <1>5, <2>1, <2>3 DEF Agrees
<1>8. ASSUME NEW f \in DOMAIN exams PROVE Agrees(f)'
  <2>1. Agrees(f) /\ IsExamRow(exams[f])
    BY DEF LaneInvariant, SittingAgreement, TypeOK
  <2>2. CASE f \in OpenSittings(o, scope)
    <3>1. exams'[f] = [exams[f] EXCEPT !.status = "abandoned"]
      BY <1>1, <1>2, <2>2
    <3>2. /\ exams'[f].status = "abandoned" /\ exams'[f].owner = exams[f].owner
          /\ exams'[f].result = exams[f].result
      BY <2>1, <3>1 DEF IsExamRow
    <3>3. \A a \in QuestionsOf(f) :
            attempts'[a].state = "abandoned" /\ attempts'[a].owner = attempts[a].owner
      BY <1>4, <2>2 DEF QuestionsOf
    <3>. QED BY <1>6, <2>1, <2>2, <3>2, <3>3 DEF Agrees, OpenSittings
  <2>3. CASE f \notin OpenSittings(o, scope)
    <3>1. exams'[f] = exams[f]
      BY <1>1, <1>2, <2>3
    <3>2. \A a \in QuestionsOf(f) : attempts'[a] = attempts[a]
      BY <1>4, <2>3 DEF QuestionsOf
    <3>. QED BY <1>6, <2>1, <3>1, <3>2, UntouchedAgrees
  <2>. QED BY <2>2, <2>3
<1>9. DOMAIN exams' = DOMAIN exams \cup {e}
  BY <1>2
<1>. QED
  BY <1>7, <1>8, <1>9 DEF SittingAgreement

LEMMA SubmitExamAgreement ==
  ASSUME LaneInvariant, NEW o \in Owner, NEW e \in ExamIds, SubmitExam(o, e)
  PROVE  SittingAgreement'
<1> DEFINE result == [a \in QuestionsOf(e) |-> ResultEntry(o.course, attempts[a])]
<1>1. /\ e \in DOMAIN exams
      /\ attempts' = [a \in DOMAIN attempts |->
                        IF a \in QuestionsOf(e) THEN Graded(o.course, attempts[a])
                        ELSE attempts[a]]
      /\ exams' = [f \in DOMAIN exams |->
                     IF f = e THEN [exams[e] EXCEPT !.status = "submitted", !.result = result]
                     ELSE exams[f]]
  BY SubmitExamEffect DEF LaneInvariant
<1>2. \A a \in DOMAIN attempts : attempts[a] \in AttemptRow
  BY DEF LaneInvariant, TypeOK
<1>3. \A a \in DOMAIN attempts : attempts'[a].exam = attempts[a].exam
  BY <1>1, <1>2, GradedRow
<1>4. \A f : QuestionsOf(f)' = QuestionsOf(f)
  BY <1>1, <1>3 DEF QuestionsOf
<1>5. \A a \in QuestionsOf(e) :
        /\ attempts'[a].owner = attempts[a].owner
        /\ attempts'[a].state = "answered"
        /\ attempts'[a].verdict = ExamVerdict(o.course, attempts[a])
        /\ ExamVerdict(o.course, attempts[a]) \in {"correct", "wrong"}
  BY <1>1, <1>2, GradedRow DEF QuestionsOf
<1>6. /\ DOMAIN result = QuestionsOf(e)
      /\ \A a \in QuestionsOf(e) :
           result[a].correct = (ExamVerdict(o.course, attempts[a]) = "correct")
  BY DEF ResultEntry
<1> HIDE DEF result
<1>7. /\ exams'[e].status = "submitted" /\ exams'[e].owner = exams[e].owner
      /\ exams'[e].result = result
  BY <1>1 DEF LaneInvariant, TypeOK, IsExamRow
<1>8. Agrees(e)'
  <2>1. Agrees(e)
    BY <1>1 DEF LaneInvariant, SittingAgreement
  <2>2. \A a \in QuestionsOf(e) : attempts'[a].owner = exams'[e].owner
    BY <1>5, <1>7, <2>1 DEF Agrees
  <2>. QED BY <1>4, <1>5, <1>6, <1>7, <2>2 DEF Agrees
<1>9. ASSUME NEW f \in DOMAIN exams, f # e PROVE Agrees(f)'
  <2>1. exams'[f] = exams[f]
    BY <1>1, <1>9
  <2>2. \A a \in QuestionsOf(f) : attempts'[a] = attempts[a]
    BY <1>1, <1>9 DEF QuestionsOf
  <2>. QED BY <1>4, <2>1, <2>2, UntouchedAgrees DEF LaneInvariant, SittingAgreement
<1>10. DOMAIN exams' = DOMAIN exams
  BY <1>1
<1>. QED
  BY <1>8, <1>9, <1>10 DEF SittingAgreement

LEMMA AbandonExamAgreement ==
  ASSUME LaneInvariant, NEW o \in Owner, NEW e \in ExamIds, AbandonExam(o, e)
  PROVE  SittingAgreement'
<1>1. /\ e \in DOMAIN exams /\ exams[e].status = "open"
      /\ attempts' = [a \in DOMAIN attempts |->
                        IF a \in QuestionsOf(e) THEN Abandoned(attempts[a])
                        ELSE attempts[a]]
      /\ exams' = [f \in DOMAIN exams |->
                     IF f = e THEN [exams[e] EXCEPT !.status = "abandoned"] ELSE exams[f]]
  BY AbandonExamEffect DEF LaneInvariant
<1>2. \A a \in DOMAIN attempts : attempts[a] \in AttemptRow
  BY DEF LaneInvariant, TypeOK
<1>3. \A a \in DOMAIN attempts : attempts'[a].exam = attempts[a].exam
  BY <1>1, <1>2, AbandonedRow
<1>4. \A f : QuestionsOf(f)' = QuestionsOf(f)
  BY <1>1, <1>3 DEF QuestionsOf
<1>5. \A a \in QuestionsOf(e) :
        attempts'[a].owner = attempts[a].owner /\ attempts'[a].state = "abandoned"
  BY <1>1, <1>2, AbandonedRow DEF QuestionsOf
<1>6. /\ exams'[e].status = "abandoned" /\ exams'[e].owner = exams[e].owner
      /\ exams'[e].result = exams[e].result
  BY <1>1 DEF LaneInvariant, TypeOK, IsExamRow
<1>7. Agrees(e)'
  <2>1. Agrees(e)
    BY <1>1 DEF LaneInvariant, SittingAgreement
  <2>. QED BY <1>1, <1>4, <1>5, <1>6, <2>1 DEF Agrees
<1>8. ASSUME NEW f \in DOMAIN exams, f # e PROVE Agrees(f)'
  <2>1. exams'[f] = exams[f]
    BY <1>1, <1>8
  <2>2. \A a \in QuestionsOf(f) : attempts'[a] = attempts[a]
    BY <1>1, <1>8 DEF QuestionsOf
  <2>. QED BY <1>4, <2>1, <2>2, UntouchedAgrees DEF LaneInvariant, SittingAgreement
<1>9. DOMAIN exams' = DOMAIN exams
  BY <1>1
<1>. QED
  BY <1>7, <1>8, <1>9 DEF SittingAgreement

----------------------------------------------------------------------------
(* The invariant.                                                          *)

LEMMA InitLaneInvariant == Init => LaneInvariant
<1> SUFFICES ASSUME Init PROVE LaneInvariant
  OBVIOUS
<1>1. TypeOK
  BY InitTypeOK
<1>2. DOMAIN attempts = {} /\ DOMAIN exams = {}
  BY DEF Init
<1>. QED
  BY <1>1, <1>2 DEF LaneInvariant, OneOpenPractice, OneOpenSitting, SittingAgreement

LEMMA NextLaneInvariant == LaneInvariant /\ [Next]_vars => LaneInvariant'
<1> SUFFICES ASSUME LaneInvariant, [Next]_vars PROVE LaneInvariant'
  OBVIOUS
<1>1. TypeOK'
  BY NextTypeOK DEF LaneInvariant
<1>2. ASSUME NEW o \in Owner, NEW x \in Exercises, OpenAttempt(o, x)
      PROVE  LaneInvariant'
  <2>1. OneOpenSitting'
    BY <1>2 DEF OpenAttempt, OneOpenSitting, LaneInvariant
  <2>. QED BY <1>1, <1>2, <2>1, OpenAttemptOneOpenPractice, OpenAttemptAgreement
           DEF LaneInvariant
<1>3. ASSUME NEW o \in Owner, NEW a \in AttemptIds, NEW ans \in Answers,
             SubmitAnswer(o, a, ans)
      PROVE  LaneInvariant'
  <2>1. OneOpenSitting'
    BY <1>3 DEF SubmitAnswer, OneOpenSitting, LaneInvariant
  <2>2. OneOpenPractice' /\ SittingAgreement'
    BY <1>3, SubmitAnswerOneOpenPractice, SubmitAnswerAgreement
  <2>. QED BY <1>1, <2>1, <2>2 DEF LaneInvariant
<1>4. ASSUME NEW o \in Owner, NEW scope \in Scope, StartExam(o, scope)
      PROVE  LaneInvariant'
  <2>1. OneOpenPractice' /\ OneOpenSitting' /\ SittingAgreement'
    BY <1>4, StartExamOneOpenPractice, StartExamOneOpenSitting, StartExamAgreement
  <2>. QED BY <1>1, <2>1 DEF LaneInvariant
<1>5. ASSUME NEW o \in Owner, NEW e \in ExamIds, NEW a \in AttemptIds,
             NEW ans \in Answers, AnswerQuestion(o, e, a, ans)
      PROVE  LaneInvariant'
  <2>1. OneOpenSitting'
    BY <1>5 DEF AnswerQuestion, OneOpenSitting, LaneInvariant
  <2>2. OneOpenPractice' /\ SittingAgreement'
    BY <1>5, AnswerQuestionOneOpenPractice, AnswerQuestionAgreement
  <2>. QED BY <1>1, <2>1, <2>2 DEF LaneInvariant
<1>6. ASSUME NEW o \in Owner, NEW e \in ExamIds, SubmitExam(o, e) PROVE LaneInvariant'
  <2>1. OneOpenPractice' /\ OneOpenSitting' /\ SittingAgreement'
    BY <1>6, ClosingOneOpenPractice, ClosingOneOpenSitting, SubmitExamAgreement
  <2>. QED BY <1>1, <2>1 DEF LaneInvariant
<1>7. ASSUME NEW o \in Owner, NEW e \in ExamIds, AbandonExam(o, e) PROVE LaneInvariant'
  <2>1. OneOpenPractice' /\ OneOpenSitting' /\ SittingAgreement'
    BY <1>7, ClosingOneOpenPractice, ClosingOneOpenSitting, AbandonExamAgreement
  <2>. QED BY <1>1, <2>1 DEF LaneInvariant
<1>8. CASE Redeploy \/ UNCHANGED vars
  <2>1. attempts' = attempts /\ exams' = exams
    BY <1>8 DEF Redeploy, vars
  <2>. QED BY <1>1, <2>1
           DEF LaneInvariant, OneOpenPractice, OneOpenSitting, SittingAgreement, Agrees,
               QuestionsOf
<1>. QED
  BY <1>2, <1>3, <1>4, <1>5, <1>6, <1>7, <1>8 DEF Next

LEMMA LaneInvariantHolds == Spec => []LaneInvariant
  BY InitLaneInvariant, NextLaneInvariant, PTL DEF Spec

\* The abandoned rule holds in every reachable state, for any number of
\* learners, exercises, attempts and deployments.
THEOREM OpenPracticeIsUnique == Spec => []OneOpenPractice
<1>1. LaneInvariant => OneOpenPractice
  BY DEF LaneInvariant
<1>. QED
  BY <1>1, LaneInvariantHolds, PTL

\* No learner ever has two open sittings of one scope.
THEOREM OpenSittingIsUnique == Spec => []OneOpenSitting
<1>1. LaneInvariant => OneOpenSitting
  BY DEF LaneInvariant
<1>. QED
  BY <1>1, LaneInvariantHolds, PTL

\* Exam rows and question rows agree in every reachable state, even if clients
\* post exam questions to the practice route.
THEOREM SittingsAgree == Spec => []SittingAgreement
<1>1. LaneInvariant => SittingAgreement
  BY DEF LaneInvariant
<1>. QED
  BY <1>1, LaneInvariantHolds, PTL

----------------------------------------------------------------------------
(* What requests leave alone: resolved work, the other lane, the review of  *)
(* a submitted exam, and the answers the statistics count as first.         *)

\* A practice attempt or an exam question that a request may still write.
Unresolved(a) ==
  IF attempts[a].exam = Practice THEN attempts[a].state = "open"
  ELSE exams[attempts[a].exam].status = "open"

\* What the owner, the exercise and the exam of a row are is never written, a
\* row that is written was unresolved, and a practice row that is written is not
\* open any more.
RowKept(a) ==
  /\ a \in DOMAIN attempts'
  /\ attempts'[a].owner = attempts[a].owner
  /\ attempts'[a].ex = attempts[a].ex
  /\ attempts'[a].exam = attempts[a].exam
  /\ attempts'[a] # attempts[a] =>
       /\ Unresolved(a)
       /\ attempts[a].exam = Practice => attempts'[a].state # "open"

\* A row that is added is open, and of practice or of an exam that is new, too.
RowAdded(a) ==
  /\ attempts'[a].state = "open"
  /\ attempts'[a].exam = Practice \/ attempts'[a].exam \notin DOMAIN exams

\* Only open exams are written.
ExamKept(e) == e \in DOMAIN exams' /\ (exams'[e] # exams[e] => exams[e].status = "open")

StepScope ==
  /\ \A a \in DOMAIN attempts : RowKept(a)
  /\ \A a \in DOMAIN attempts' \ DOMAIN attempts : RowAdded(a)
  /\ \A e \in DOMAIN exams : ExamKept(e)

\* No practice row is written and none is added.
PracticeUntouched ==
  \A a \in DOMAIN attempts' :
    attempts'[a].exam = Practice => a \in DOMAIN attempts /\ attempts'[a] = attempts[a]

----------------------------------------------------------------------------
(* What each action writes.                                                *)

LEMMA Rows ==
  ASSUME LaneInvariant
  PROVE  /\ \A a \in DOMAIN attempts :
              /\ attempts[a] \in AttemptRow
              /\ attempts[a].exam # Practice => attempts[a].exam \in DOMAIN exams
         /\ \A e \in DOMAIN exams :
              /\ IsExamRow(exams[e]) /\ e # Practice
              /\ exams[e].status \in {"open", "submitted", "abandoned"}
  BY ConstantsAssumption DEF LaneInvariant, TypeOK, IsExamRow

LEMMA OpenAttemptScope ==
  ASSUME LaneInvariant, NEW o \in Owner, NEW x \in Exercises, OpenAttempt(o, x)
  PROVE  StepScope /\ exams' = exams
           /\ \A a \in DOMAIN attempts' :
                attempts'[a].exam # Practice =>
                  a \in DOMAIN attempts /\ attempts'[a] = attempts[a]
<1>1. PICK new \in FreshAttempts :
        /\ DOMAIN attempts' = DOMAIN attempts \cup {new}
        /\ attempts'[new] = NewAttempt(o, x, Practice)
        /\ \A a \in DOMAIN attempts :
             attempts'[a] = IF a \in Superseded(o, x) THEN Abandoned(attempts[a])
                            ELSE attempts[a]
  BY OpenAttemptEffect DEF LaneInvariant
<1>2. exams' = exams
  BY DEF OpenAttempt
<1>3. attempts'[new].state = "open" /\ attempts'[new].exam = Practice
  BY <1>1, NewAttemptRow
<1>4. ASSUME NEW a \in DOMAIN attempts
      PROVE  /\ RowKept(a)
             /\ attempts'[a].exam # Practice => attempts'[a] = attempts[a]
  <2>1. attempts[a] \in AttemptRow
    BY Rows
  <2>2. CASE a \in Superseded(o, x)
    <3>1. attempts[a].exam = Practice /\ attempts[a].state = "open"
      BY <2>2 DEF Superseded
    <3>. QED BY <1>1, <2>1, <2>2, <3>1, AbandonedRow DEF RowKept, Unresolved
  <2>3. CASE a \notin Superseded(o, x)
    BY <1>1, <2>3 DEF RowKept
  <2>. QED BY <2>2, <2>3
<1>5. \A e \in DOMAIN exams : ExamKept(e)
  BY <1>2 DEF ExamKept
<1>. QED
  BY <1>1, <1>2, <1>3, <1>4, <1>5 DEF StepScope, RowAdded

LEMMA SubmitAnswerScope ==
  ASSUME LaneInvariant, NEW o \in Owner, NEW a \in AttemptIds, NEW ans \in Answers,
         SubmitAnswer(o, a, ans)
  PROVE  /\ StepScope /\ exams' = exams
         /\ attempts[a].exam = Practice \/ PracticeUntouched
<1>1. /\ a \in DOMAIN attempts /\ attempts[a].owner = o /\ attempts[a].state = "open"
      /\ attempts' = [b \in DOMAIN attempts |-> attempts'[b]]
      /\ attempts'[a].owner = o /\ attempts'[a].exam = attempts[a].exam
      /\ attempts'[a].ex = attempts[a].ex /\ attempts'[a].state = "answered"
      /\ \A b \in DOMAIN attempts \ {a} : attempts'[b] = attempts[b]
      /\ exams' = exams
  BY SubmitAnswerEffect DEF LaneInvariant
<1>2. DOMAIN attempts' = DOMAIN attempts
  BY <1>1
<1>3. Unresolved(a)
  <2>1. CASE attempts[a].exam = Practice
    BY <1>1, <2>1 DEF Unresolved
  <2>2. CASE attempts[a].exam # Practice
    <3> DEFINE e == attempts[a].exam
    <3>1. e \in DOMAIN exams /\ a \in QuestionsOf(e)
      BY <1>1, <2>2, Rows DEF QuestionsOf
    <3>2. Agrees(e)
      BY <3>1 DEF LaneInvariant, SittingAgreement
    <3>3. exams[e].status \notin {"submitted", "abandoned"}
      BY <1>1, <3>1, <3>2 DEF Agrees
    <3>4. exams[e].status = "open"
      BY <3>1, <3>3, Rows
    <3>. QED BY <2>2, <3>4 DEF Unresolved
  <2>. QED BY <2>1, <2>2
<1>4. \A b \in DOMAIN attempts : RowKept(b)
  BY <1>1, <1>2, <1>3 DEF RowKept
<1>5. \A e \in DOMAIN exams : ExamKept(e)
  BY <1>1 DEF ExamKept
<1>. QED
  BY <1>1, <1>2, <1>4, <1>5 DEF StepScope, PracticeUntouched

LEMMA StartExamScope ==
  ASSUME LaneInvariant, NEW o \in Owner, NEW scope \in Scope, StartExam(o, scope)
  PROVE  StepScope /\ PracticeUntouched
<1> PICK e, new, order : Started(o, scope, e, new, order)
  BY StartExamEffect DEF LaneInvariant
<1>1. /\ e \in ExamIds \ DOMAIN exams
      /\ DOMAIN attempts' = DOMAIN attempts \cup new
      /\ \A a \in new : \E x \in Exercises : attempts'[a] = NewAttempt(o, x, e)
      /\ \A a \in DOMAIN attempts :
           attempts'[a] = IF attempts[a].exam \in OpenSittings(o, scope)
                          THEN Abandoned(attempts[a]) ELSE attempts[a]
      /\ exams' = [f \in DOMAIN exams \cup {e} |->
                     IF f = e THEN NewExam(o, scope, order)
                     ELSE IF f \in OpenSittings(o, scope)
                     THEN [exams[f] EXCEPT !.status = "abandoned"]
                     ELSE exams[f]]
  BY DEF Started
<1>2. \A a \in new : attempts'[a].exam = e /\ attempts'[a].state = "open"
  BY <1>1, NewAttemptRow
<1>3. e # Practice
  BY <1>1, ConstantsAssumption
<1>4. \A f \in OpenSittings(o, scope) :
        f \in DOMAIN exams /\ f # Practice /\ exams[f].status = "open"
  BY Rows DEF OpenSittings
<1>5. ASSUME NEW a \in DOMAIN attempts
      PROVE  /\ RowKept(a)
             /\ attempts'[a].exam = Practice => attempts'[a] = attempts[a]
  <2>1. attempts[a] \in AttemptRow
    BY Rows
  <2>2. CASE attempts[a].exam \in OpenSittings(o, scope)
    BY <1>1, <1>4, <2>1, <2>2, AbandonedRow DEF RowKept, Unresolved
  <2>3. CASE attempts[a].exam \notin OpenSittings(o, scope)
    BY <1>1, <2>3 DEF RowKept
  <2>. QED BY <2>2, <2>3
<1>6. \A f \in DOMAIN exams : ExamKept(f)
  BY <1>1, <1>4 DEF ExamKept
<1>7. PracticeUntouched
  BY <1>1, <1>2, <1>3, <1>5 DEF PracticeUntouched
<1>. QED
  BY <1>1, <1>2, <1>5, <1>6, <1>7 DEF StepScope, RowAdded

LEMMA AnswerQuestionScope ==
  ASSUME LaneInvariant, NEW o \in Owner, NEW e \in ExamIds, NEW a \in AttemptIds,
         NEW ans \in Answers, AnswerQuestion(o, e, a, ans)
  PROVE  StepScope /\ PracticeUntouched /\ exams' = exams
<1>1. /\ a \in DOMAIN attempts /\ attempts[a].exam = e /\ exams[e].status = "open"
      /\ attempts' = [b \in DOMAIN attempts |-> attempts'[b]]
      /\ attempts'[a].owner = attempts[a].owner /\ attempts'[a].exam = e
      /\ attempts'[a].ex = attempts[a].ex
      /\ \A b \in DOMAIN attempts \ {a} : attempts'[b] = attempts[b]
      /\ exams' = exams
  BY AnswerQuestionEffect DEF LaneInvariant
<1>2. DOMAIN attempts' = DOMAIN attempts /\ e # Practice
  BY <1>1, ConstantsAssumption
<1>3. \A b \in DOMAIN attempts : RowKept(b)
  BY <1>1, <1>2 DEF RowKept, Unresolved
<1>4. \A f \in DOMAIN exams : ExamKept(f)
  BY <1>1 DEF ExamKept
<1>. QED
  BY <1>1, <1>2, <1>3, <1>4 DEF StepScope, PracticeUntouched

LEMMA ClosingScope ==
  ASSUME LaneInvariant, NEW o \in Owner, NEW e \in ExamIds,
         SubmitExam(o, e) \/ AbandonExam(o, e)
  PROVE  StepScope /\ PracticeUntouched
<1>1. /\ e \in DOMAIN exams /\ exams[e].status = "open"
      /\ DOMAIN exams' = DOMAIN exams
      /\ \A f \in DOMAIN exams \ {e} : exams'[f] = exams[f]
  <2>1. CASE SubmitExam(o, e)
    <3> DEFINE row == [exams[e] EXCEPT !.status = "submitted",
                         !.result = [a \in QuestionsOf(e) |-> ResultEntry(o.course, attempts[a])]]
    <3>1. /\ e \in DOMAIN exams /\ exams[e].status = "open"
          /\ exams' = [f \in DOMAIN exams |-> IF f = e THEN row ELSE exams[f]]
      BY <2>1, SubmitExamEffect DEF LaneInvariant
    <3> HIDE DEF row
    <3>. QED BY <3>1
  <2>2. CASE AbandonExam(o, e)
    <3>1. /\ e \in DOMAIN exams /\ exams[e].status = "open"
          /\ exams' = [f \in DOMAIN exams |->
                         IF f = e THEN [exams[e] EXCEPT !.status = "abandoned"] ELSE exams[f]]
      BY <2>2, AbandonExamEffect DEF LaneInvariant
    <3>. QED BY <3>1
  <2>. QED BY <2>1, <2>2
<1>2. /\ DOMAIN attempts' = DOMAIN attempts
      /\ \A a \in DOMAIN attempts :
           /\ attempts'[a].owner = attempts[a].owner
           /\ attempts'[a].ex = attempts[a].ex
           /\ attempts'[a].exam = attempts[a].exam
           /\ a \notin QuestionsOf(e) => attempts'[a] = attempts[a]
  <2>1. CASE SubmitExam(o, e)
    <3>1. attempts' = [a \in DOMAIN attempts |->
                         IF a \in QuestionsOf(e) THEN Graded(o.course, attempts[a])
                         ELSE attempts[a]]
      BY <2>1, SubmitExamEffect DEF LaneInvariant
    <3>. QED BY <3>1, GradedRow, Rows
  <2>2. CASE AbandonExam(o, e)
    <3>1. attempts' = [a \in DOMAIN attempts |->
                         IF a \in QuestionsOf(e) THEN Abandoned(attempts[a])
                         ELSE attempts[a]]
      BY <2>2, AbandonExamEffect DEF LaneInvariant
    <3>. QED BY <3>1, AbandonedRow, Rows
  <2>. QED BY <2>1, <2>2
<1>3. e # Practice
  BY ConstantsAssumption
<1>4. \A a \in DOMAIN attempts : RowKept(a)
  BY <1>1, <1>2, <1>3 DEF RowKept, Unresolved, QuestionsOf
<1>5. \A f \in DOMAIN exams : ExamKept(f)
  BY <1>1 DEF ExamKept
<1>6. PracticeUntouched
  BY <1>2, <1>3 DEF PracticeUntouched, QuestionsOf
<1>. QED
  BY <1>2, <1>4, <1>5, <1>6 DEF StepScope

LEMMA EveryStepScope == ASSUME LaneInvariant, [Next]_vars PROVE StepScope
<1>1. CASE Redeploy \/ UNCHANGED vars
  BY <1>1 DEF Redeploy, vars, StepScope, RowKept, ExamKept
<1>. QED
  BY <1>1, OpenAttemptScope, SubmitAnswerScope, StartExamScope, AnswerQuestionScope,
     ClosingScope DEF Next

----------------------------------------------------------------------------
(* Resolved work and the other lane.                                       *)

LEMMA ResolvedExam ==
  ASSUME LaneInvariant, StepScope, NEW e \in DOMAIN exams, exams[e].status # "open"
  PROVE  /\ exams'[e] = exams[e]
         /\ QuestionsOf(e)' = QuestionsOf(e)
         /\ \A a \in QuestionsOf(e) : attempts'[a] = attempts[a]
<1>1. e # Practice
  BY Rows
<1>2. \A a \in DOMAIN attempts :
        /\ a \in DOMAIN attempts' /\ attempts'[a].exam = attempts[a].exam
        /\ attempts[a].exam = e => attempts'[a] = attempts[a]
  BY <1>1 DEF StepScope, RowKept, Unresolved
<1>3. \A a \in DOMAIN attempts' \ DOMAIN attempts : attempts'[a].exam # e
  BY <1>1 DEF StepScope, RowAdded
<1>4. exams'[e] = exams[e]
  BY DEF StepScope, ExamKept
<1>. QED
  BY <1>2, <1>3, <1>4 DEF QuestionsOf

\* No request rewrites an answered or abandoned attempt, or an exam that is over
\* with its questions, from any client (attempts/service.py:117-118).
THEOREM ResolvedStays == Spec => ResolvedForGood
<1>1. LaneInvariant /\ [Next]_vars =>
        [/\ \A a \in DOMAIN attempts :
              attempts[a].exam = Practice /\ attempts[a].state # "open"
                => attempts'[a] = attempts[a]
         /\ \A e \in DOMAIN exams :
              exams[e].status # "open" =>
                /\ exams'[e] = exams[e]
                /\ QuestionsOf(e)' = QuestionsOf(e)
                /\ \A a \in QuestionsOf(e) : attempts'[a] = attempts[a]]_vars
  <2> SUFFICES ASSUME LaneInvariant, [Next]_vars
               PROVE  /\ \A a \in DOMAIN attempts :
                           attempts[a].exam = Practice /\ attempts[a].state # "open"
                             => attempts'[a] = attempts[a]
                      /\ \A e \in DOMAIN exams :
                           exams[e].status # "open" =>
                             /\ exams'[e] = exams[e]
                             /\ QuestionsOf(e)' = QuestionsOf(e)
                             /\ \A a \in QuestionsOf(e) : attempts'[a] = attempts[a]
    OBVIOUS
  <2>1. StepScope
    BY EveryStepScope
  <2>2. \A a \in DOMAIN attempts :
          attempts[a].exam = Practice /\ attempts[a].state # "open"
            => attempts'[a] = attempts[a]
    BY <2>1 DEF StepScope, RowKept, Unresolved
  <2>. QED BY <2>1, <2>2, ResolvedExam
<1>. QED
  BY <1>1, LaneInvariantHolds, PTL DEF Spec, ResolvedForGood

\* A step that writes practice rows writes no exam and no exam question, even if
\* clients post exam questions to the practice route (exams/service.py:4).
LEMMA LanesApart ==
  ASSUME LaneInvariant, [Next]_vars,
         NEW p \in DOMAIN attempts, attempts[p].exam = Practice, attempts'[p] # attempts[p]
  PROVE  /\ exams' = exams
         /\ \A a \in DOMAIN attempts' :
              attempts'[a].exam # Practice =>
                a \in DOMAIN attempts /\ attempts'[a] = attempts[a]
<1>1. ~PracticeUntouched
  BY EveryStepScope DEF PracticeUntouched, StepScope, RowKept
<1>2. ASSUME NEW o \in Owner, NEW x \in Exercises, OpenAttempt(o, x)
      PROVE  /\ exams' = exams
             /\ \A a \in DOMAIN attempts' :
                  attempts'[a].exam # Practice =>
                    a \in DOMAIN attempts /\ attempts'[a] = attempts[a]
  BY <1>2, OpenAttemptScope
<1>3. ASSUME NEW o \in Owner, NEW a \in AttemptIds, NEW ans \in Answers,
             SubmitAnswer(o, a, ans)
      PROVE  /\ exams' = exams
             /\ \A b \in DOMAIN attempts' :
                  attempts'[b].exam # Practice =>
                    b \in DOMAIN attempts /\ attempts'[b] = attempts[b]
  <2>1. /\ attempts' = [b \in DOMAIN attempts |-> attempts'[b]]
        /\ attempts'[a].exam = attempts[a].exam
        /\ \A b \in DOMAIN attempts \ {a} : attempts'[b] = attempts[b]
    BY <1>3, SubmitAnswerEffect DEF LaneInvariant
  <2>2. DOMAIN attempts' = DOMAIN attempts
    BY <2>1
  <2>. QED BY <1>1, <1>3, <2>1, <2>2, SubmitAnswerScope
<1>4. CASE Redeploy \/ UNCHANGED vars
  BY <1>4 DEF Redeploy, vars
<1>. QED
  BY <1>1, <1>2, <1>3, <1>4, StartExamScope, AnswerQuestionScope, ClosingScope DEF Next

\* The lanes never touch one another: a request that writes an existing practice
\* row writes no exam and no exam question (exams/service.py:4).
THEOREM LanesStayApart == Spec => LaneSeparation
<1>1. LaneInvariant /\ [Next]_vars =>
        [(\E a \in DOMAIN attempts :
            attempts[a].exam = Practice /\ attempts'[a] # attempts[a])
         => /\ exams' = exams
            /\ \A a \in DOMAIN attempts' :
                 attempts'[a].exam # Practice =>
                   a \in DOMAIN attempts /\ attempts'[a] = attempts[a]]_vars
  BY LanesApart
<1>. QED
  BY <1>1, LaneInvariantHolds, PTL DEF Spec, LaneSeparation

----------------------------------------------------------------------------
(* Submitted exams: what they were graded on, and their review.            *)

\* Only submit_exam makes an exam a submitted one.
LEMMA NewlySubmitted ==
  ASSUME LaneInvariant, [Next]_vars, NEW e \in DOMAIN exams',
         exams'[e].status = "submitted",
         ~(e \in DOMAIN exams /\ exams[e].status = "submitted")
  PROVE  \E o \in Owner : e \in ExamIds /\ SubmitExam(o, e)
<1>1. exams' # exams
  OBVIOUS
<1>2. ASSUME NEW o \in Owner, NEW scope \in Scope, StartExam(o, scope)
      PROVE  FALSE
  <2> PICK f, new, order : Started(o, scope, f, new, order)
    BY <1>2, StartExamEffect DEF LaneInvariant
  <2>1. exams' = [g \in DOMAIN exams \cup {f} |->
                    IF g = f THEN NewExam(o, scope, order)
                    ELSE IF g \in OpenSittings(o, scope)
                    THEN [exams[g] EXCEPT !.status = "abandoned"]
                    ELSE exams[g]]
    BY DEF Started
  <2>2. NewExam(o, scope, order).status = "open"
    BY DEF NewExam
  <2>3. \A g \in DOMAIN exams : [exams[g] EXCEPT !.status = "abandoned"].status = "abandoned"
    BY Rows DEF IsExamRow
  <2>. QED BY <2>1, <2>2, <2>3
<1>3. ASSUME NEW o \in Owner, NEW f \in ExamIds, AbandonExam(o, f)
      PROVE  FALSE
  <2>1. /\ f \in DOMAIN exams
        /\ exams' = [g \in DOMAIN exams |->
                       IF g = f THEN [exams[f] EXCEPT !.status = "abandoned"] ELSE exams[g]]
    BY <1>3, AbandonExamEffect DEF LaneInvariant
  <2>2. [exams[f] EXCEPT !.status = "abandoned"].status = "abandoned"
    BY <2>1, Rows DEF IsExamRow
  <2>. QED BY <2>1, <2>2
<1>4. ASSUME NEW o \in Owner, NEW f \in ExamIds, SubmitExam(o, f)
      PROVE  f = e
  <2>1. /\ DOMAIN exams' = DOMAIN exams
        /\ \A g \in DOMAIN exams \ {f} : exams'[g] = exams[g]
    <3> DEFINE row == [exams[f] EXCEPT !.status = "submitted",
                         !.result = [a \in QuestionsOf(f) |-> ResultEntry(o.course, attempts[a])]]
    <3>1. exams' = [g \in DOMAIN exams |-> IF g = f THEN row ELSE exams[g]]
      BY <1>4, SubmitExamEffect DEF LaneInvariant
    <3> HIDE DEF row
    <3>. QED BY <3>1
  <2>. QED BY <2>1
<1>5. ~(Redeploy \/ UNCHANGED vars)
  BY <1>1 DEF Redeploy, vars
<1>. QED
  BY <1>1, <1>2, <1>3, <1>4, <1>5, OpenAttemptScope, SubmitAnswerScope,
     AnswerQuestionScope DEF Next

\* The result is read off the answers the rows keep.
LEMMA GradedOnStored ==
  ASSUME LaneInvariant, NEW o \in Owner, NEW e \in ExamIds, SubmitExam(o, e),
         NEW a \in QuestionsOf(e)'
  PROVE  /\ exams'[e].result[a].unanswered = (attempts'[a].given = None)
         /\ exams'[e].result[a].correct => attempts'[a].given = Key[attempts'[a].ex]
<1> DEFINE result == [b \in QuestionsOf(e) |-> ResultEntry(o.course, attempts[b])]
<1>1. /\ e \in DOMAIN exams
      /\ attempts' = [b \in DOMAIN attempts |->
                        IF b \in QuestionsOf(e) THEN Graded(o.course, attempts[b])
                        ELSE attempts[b]]
      /\ exams' = [f \in DOMAIN exams |->
                     IF f = e THEN [exams[e] EXCEPT !.status = "submitted", !.result = result]
                     ELSE exams[f]]
  BY SubmitExamEffect DEF LaneInvariant
<1>2. a \in DOMAIN attempts /\ attempts[a] \in AttemptRow /\ a \in QuestionsOf(e)
  BY <1>1, Rows, GradedRow DEF QuestionsOf
<1>3. /\ attempts'[a].given = attempts[a].given
      /\ attempts'[a].ex = attempts[a].ex
  BY <1>1, <1>2, GradedRow
<1>4. exams'[e].result = result
  <2> HIDE DEF result
  <2>1. exams'[e] = [exams[e] EXCEPT !.status = "submitted", !.result = result]
    BY <1>1
  <2>. QED BY <1>1, <2>1, Rows DEF IsExamRow
<1>5. exams'[e].result[a] = ResultEntry(o.course, attempts[a])
  BY <1>2, <1>4
<1>6. /\ ResultEntry(o.course, attempts[a]).unanswered = (attempts[a].given = None)
      /\ ResultEntry(o.course, attempts[a]).correct =>
           attempts[a].given = Key[attempts[a].ex]
  BY DEF ResultEntry, ExamVerdict, Verdict
<1>. QED
  BY <1>3, <1>5, <1>6

\* What an exam was graded on is what its rows still hold, whatever was sent,
\* in any order, by any client (exams/service.py, submit_exam).
THEOREM GradedIsStored == Spec => []GradedAsStored
<1>1. Init => GradedAsStored
  BY DEF Init, GradedAsStored
<1>2. LaneInvariant /\ GradedAsStored /\ [Next]_vars => GradedAsStored'
  <2> SUFFICES ASSUME LaneInvariant, GradedAsStored, [Next]_vars,
                      NEW e \in DOMAIN exams', exams'[e].status = "submitted",
                      NEW a \in QuestionsOf(e)'
               PROVE  /\ exams'[e].result[a].unanswered = (attempts'[a].given = None)
                      /\ exams'[e].result[a].correct =>
                           attempts'[a].given = Key[attempts'[a].ex]
    BY DEF GradedAsStored
  <2>1. CASE e \in DOMAIN exams /\ exams[e].status = "submitted"
    <3>1. /\ exams'[e] = exams[e] /\ a \in QuestionsOf(e)
          /\ attempts'[a] = attempts[a]
      BY <2>1, EveryStepScope, ResolvedExam
    <3>. QED BY <2>1, <3>1 DEF GradedAsStored
  <2>2. CASE ~(e \in DOMAIN exams /\ exams[e].status = "submitted")
    BY <2>2, NewlySubmitted, GradedOnStored
  <2>. QED BY <2>1, <2>2
<1>. QED
  BY <1>1, <1>2, LaneInvariantHolds, PTL DEF Spec

\* A question of a resolved exam that two reviews show is shown alike.
LEMMA SameReview ==
  ASSUME LaneInvariant, StepScope, NEW e \in DOMAIN exams, exams[e].status = "submitted",
         NEW a \in DOMAIN View(e) \cap DOMAIN View(e)'
  PROVE  View(e)'[a] = View(e)[a]
<1>1. /\ exams'[e] = exams[e]
      /\ QuestionsOf(e)' = QuestionsOf(e)
      /\ \A b \in QuestionsOf(e) : attempts'[b] = attempts[b]
  BY ResolvedExam
<1>2. a \in QuestionsOf(e)
  BY DEF View
<1>3. \A b \in QuestionsOf(e) : Rank(e, b)' = Rank(e, b)
  BY <1>1 DEF Rank
<1>4. Index(e, a)' = Index(e, a)
  <2>1. {b \in QuestionsOf(e)' : Rank(e, b)' < Rank(e, a)'}
          = {b \in QuestionsOf(e) : Rank(e, b) < Rank(e, a)}
    BY <1>1, <1>2, <1>3
  <2>. QED BY <2>1 DEF Index
<1>5. View(e)[a] = [index |-> Index(e, a), given |-> attempts[a].given,
                    correct |-> attempts[a].verdict = "correct" /\ attempts[a].given # None]
  BY DEF View
<1>6. View(e)'[a] = [index |-> Index(e, a)', given |-> attempts'[a].given,
                     correct |-> attempts'[a].verdict = "correct" /\ attempts'[a].given # None]
  BY DEF View
<1>. QED
  BY <1>1, <1>2, <1>4, <1>5, <1>6

\* The review of a submitted exam keeps the number, the answer and the verdict
\* of every question it shows, through any deployment (exams/service.py:190).
THEOREM ReviewStays == Spec => ReviewStable
<1>1. LaneInvariant /\ [Next]_vars =>
        [\A e \in DOMAIN exams :
           exams[e].status = "submitted" =>
             \A a \in DOMAIN View(e) \cap DOMAIN View(e)' : View(e)'[a] = View(e)[a]]_vars
  BY EveryStepScope, SameReview
<1>. QED
  BY <1>1, LaneInvariantHolds, PTL DEF Spec, ReviewStable

----------------------------------------------------------------------------
(* The first answer at an exercise.                                        *)

\* An unanswered practice attempt is the newest its learner has at the exercise:
\* opening another one retires it.
OpenIsNewest ==
  \A a, b \in DOMAIN attempts :
    ( /\ attempts[a].exam = Practice /\ attempts[b].exam = Practice
      /\ attempts[a].owner = attempts[b].owner
      /\ attempts[a].ex = attempts[b].ex
      /\ attempts[b].state = "open" ) => a <= b

\* A step that opens no practice attempt keeps it.
LEMMA OpenIsNewestKept ==
  ASSUME OpenIsNewest,
         \A a \in DOMAIN attempts' :
           attempts'[a].exam = Practice =>
             /\ a \in DOMAIN attempts
             /\ attempts[a].exam = Practice
             /\ attempts[a].owner = attempts'[a].owner
             /\ attempts[a].ex = attempts'[a].ex
             /\ attempts'[a].state = "open" => attempts[a].state = "open"
  PROVE  OpenIsNewest'
  BY DEF OpenIsNewest

LEMMA OpenAttemptNewest ==
  ASSUME LaneInvariant, OpenIsNewest, NEW o \in Owner, NEW x \in Exercises,
         OpenAttempt(o, x)
  PROVE  OpenIsNewest'
<1>1. PICK new \in FreshAttempts :
        /\ DOMAIN attempts' = DOMAIN attempts \cup {new}
        /\ attempts'[new] = NewAttempt(o, x, Practice)
        /\ \A a \in DOMAIN attempts :
             attempts'[a] = IF a \in Superseded(o, x) THEN Abandoned(attempts[a])
                            ELSE attempts[a]
  BY OpenAttemptEffect DEF LaneInvariant
<1>2. attempts'[new].owner = o /\ attempts'[new].ex = x
  BY <1>1, NewAttemptRow
<1>3. new \in Nat /\ DOMAIN attempts \subseteq Nat
  BY <1>1, FreshIsNew, ConstantsAssumption DEF LaneInvariant, TypeOK
<1>4. \A a \in DOMAIN attempts' : a <= new
  BY <1>1, <1>3 DEF FreshAttempts
<1>5. ASSUME NEW a \in DOMAIN attempts
      PROVE  /\ attempts'[a].exam = attempts[a].exam
             /\ attempts'[a].owner = attempts[a].owner
             /\ attempts'[a].ex = attempts[a].ex
             /\ attempts'[a].state = "open" =>
                  attempts[a].state = "open" /\ a \notin Superseded(o, x)
  <2>1. attempts[a] \in AttemptRow
    BY Rows
  <2>. QED BY <1>1, <2>1, AbandonedRow
<1>6. SUFFICES ASSUME NEW a \in DOMAIN attempts', NEW b \in DOMAIN attempts',
                      attempts'[a].exam = Practice, attempts'[b].exam = Practice,
                      attempts'[a].owner = attempts'[b].owner,
                      attempts'[a].ex = attempts'[b].ex,
                      attempts'[b].state = "open"
               PROVE  a <= b
  BY DEF OpenIsNewest
<1>7. CASE b = new
  BY <1>4, <1>7
<1>8. CASE b # new /\ a = new
  <2>1. b \in Superseded(o, x)
    BY <1>1, <1>2, <1>5, <1>6, <1>8 DEF Superseded
  <2>. QED BY <1>1, <1>5, <1>6, <1>8, <2>1
<1>9. CASE b # new /\ a # new
  BY <1>1, <1>5, <1>6, <1>9 DEF OpenIsNewest
<1>. QED
  BY <1>7, <1>8, <1>9

LEMMA NextOpenIsNewest ==
  ASSUME LaneInvariant, OpenIsNewest, [Next]_vars
  PROVE  OpenIsNewest'
<1>1. CASE PracticeUntouched
  BY <1>1, OpenIsNewestKept DEF PracticeUntouched
<1>2. ASSUME NEW o \in Owner, NEW a \in AttemptIds, NEW ans \in Answers,
             SubmitAnswer(o, a, ans)
      PROVE  OpenIsNewest'
  <2>1. DOMAIN attempts' = DOMAIN attempts
    BY <1>2, SubmitAnswerEffect DEF LaneInvariant
  <2>. QED BY <1>2, <2>1, EveryStepScope, OpenIsNewestKept DEF StepScope, RowKept
<1>3. CASE Redeploy \/ UNCHANGED vars
  BY <1>3, OpenIsNewestKept DEF Redeploy, vars
<1>. QED
  BY <1>1, <1>2, <1>3, OpenAttemptNewest, StartExamScope, AnswerQuestionScope,
     ClosingScope DEF Next

\* Nothing a learner or a deployment does rewrites which answer counts as the
\* first: only the abandoned rule sees to it (stats/service.py:66-87).
THEOREM FirstStands == Spec => FirstAttemptStands
<1>1. Init => OpenIsNewest
  BY DEF Init, OpenIsNewest
<1>2. LaneInvariant /\ OpenIsNewest /\ [Next]_vars => OpenIsNewest'
  BY NextOpenIsNewest
<1>3. LaneInvariant /\ OpenIsNewest /\ [Next]_vars =>
        [\A a \in DOMAIN attempts : CountsAsFirst(a) => CountsAsFirst(a)']_vars
  <2> SUFFICES ASSUME LaneInvariant, OpenIsNewest, [Next]_vars,
                      NEW a \in DOMAIN attempts, CountsAsFirst(a)
               PROVE  CountsAsFirst(a)'
    OBVIOUS
  <2>1. StepScope
    BY EveryStepScope
  <2>2. /\ attempts[a].exam = Practice /\ attempts[a].state = "answered"
        /\ \A b \in DOMAIN attempts :
             ( /\ attempts[b].exam = Practice /\ attempts[b].state = "answered"
               /\ attempts[b].owner = attempts[a].owner
               /\ attempts[b].ex = attempts[a].ex ) => a <= b
    BY DEF CountsAsFirst
  <2>3. a \in DOMAIN attempts' /\ attempts'[a] = attempts[a]
    BY <2>1, <2>2 DEF StepScope, RowKept, Unresolved
  <2>4. ASSUME NEW b \in DOMAIN attempts',
               attempts'[b].exam = Practice, attempts'[b].state = "answered",
               attempts'[b].owner = attempts[a].owner, attempts'[b].ex = attempts[a].ex
        PROVE  a <= b
    <3>1. b \in DOMAIN attempts
      BY <2>1, <2>4 DEF StepScope, RowAdded
    <3>2. /\ attempts[b].exam = Practice /\ attempts[b].owner = attempts[a].owner
          /\ attempts[b].ex = attempts[a].ex
          /\ attempts[b].state = "answered" \/ attempts[b].state = "open"
      BY <2>1, <2>4, <3>1 DEF StepScope, RowKept, Unresolved
    <3>3. CASE attempts[b].state = "answered"
      BY <2>2, <3>1, <3>2, <3>3
    <3>4. CASE attempts[b].state = "open"
      BY <2>2, <3>1, <3>2, <3>4 DEF OpenIsNewest
    <3>. QED BY <3>2, <3>3, <3>4
  <2>. QED BY <2>2, <2>3, <2>4 DEF CountsAsFirst
<1>. QED
  BY <1>1, <1>2, <1>3, LaneInvariantHolds, PTL DEF Spec, FirstAttemptStands
=============================================================================
