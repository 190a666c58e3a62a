------------------------ MODULE LaneRequestsProofs ------------------------
(* The handlers of the two lanes as they run, for any number of requests   *)
(* in flight: what survives every overlap, what survives when no two       *)
(* submissions of a learner overlap, and which overlaps leave every        *)
(* request taking effect at one instant.                                   *)
EXTENDS LaneRequests, LanesProofs, FiniteSetTheorems

----------------------------------------------------------------------------
(* What a request in flight remembers, whatever overlaps it.               *)

\* An exam of the request's learner, as it was read while it was open.
SeenOpen(e, row, o) ==
  /\ e \in DOMAIN exams /\ exams[e].owner = o
  /\ IsExamRow(row) /\ row.owner = o /\ row.status = "open"
  /\ DOMAIN row.result = {}

OpenOK(s) ==
  /\ requests[s] \in [op : {"open"}, at : {"commit"}, owner : Owner, ex : Exercises,
                      found : SUBSET DOMAIN attempts]
  /\ \A a \in requests[s].found : attempts[a].exam = Practice

\* A practice row that was read as unanswered held no answer and no verdict.
AnswerOK(s) ==
  LET r == requests[s] IN
  /\ r \in [op : {"answer"}, at : {"commit"}, owner : Owner,
            attempt : DOMAIN attempts, ans : Answers, seen : AttemptRow]
  /\ r.seen.ex = attempts[r.attempt].ex
  /\ CrossLane \/ attempts[r.attempt].exam = Practice
  /\ attempts[r.attempt].exam = Practice =>
       r.seen.given = None /\ r.seen.verdict = "none"

StartOK(s) ==
  LET r == requests[s] IN
  /\ r.op = "start"
  /\ r \in [op : {"start"}, at : {"commit"}, owner : Owner, scope : Scope, seen : {r.seen}]
  /\ \A e \in DOMAIN r.seen : SeenOpen(e, r.seen[e], r.owner)

ExamAnswerOK(s) ==
  LET r == requests[s] IN
  /\ r \in [op : {"examAnswer"}, at : {"read", "commit"}, owner : Owner,
            attempt : DOMAIN attempts, ans : Answers, seen : Answers \cup {None}]
  /\ attempts[r.attempt].exam # Practice

SubmitOK(s) ==
  LET r == requests[s] IN
  /\ r.op = "submit"
  /\ r \in [op : {"submit"}, at : {"read", "commit"}, owner : Owner,
            exam : DOMAIN exams, seen : {r.seen}, rows : {r.rows}]
  /\ SeenOpen(r.exam, r.seen, r.owner)
  /\ r.at = "commit" =>
       /\ DOMAIN r.rows = QuestionsOf(r.exam)
       /\ \A a \in DOMAIN r.rows : r.rows[a] \in AttemptRow

AbandonOK(s) ==
  LET r == requests[s] IN
  /\ r.op = "abandon"
  /\ r \in [op : {"abandon"}, at : {"commit"}, owner : Owner, exam : DOMAIN exams,
            seen : {r.seen}]
  /\ SeenOpen(r.exam, r.seen, r.owner)

RequestOK(s) ==
  \/ requests[s] = Idle
  \/ OpenOK(s) \/ AnswerOK(s)
  \/ StartOK(s) \/ ExamAnswerOK(s) \/ SubmitOK(s) \/ AbandonOK(s)

OpenHasNoResult ==
  \A e \in DOMAIN exams : exams[e].status = "open" => DOMAIN exams[e].result = {}

\* Holds whatever overlaps.
FlightInvariant ==
  /\ TypeOK
  /\ DOMAIN requests = Slots
  /\ \A s \in Slots : RequestOK(s)
  /\ OpenHasNoResult
  /\ PracticeRowWhole

----------------------------------------------------------------------------
(* What no step undoes, and what that spares the other requests.           *)

\* Rows stay, with what they are about; questions are only added with their exam.
RowsStay ==
  /\ \A a \in DOMAIN attempts :
       /\ a \in DOMAIN attempts'
       /\ attempts'[a].owner = attempts[a].owner
       /\ attempts'[a].ex = attempts[a].ex
       /\ attempts'[a].exam = attempts[a].exam
  /\ \A a \in DOMAIN attempts' \ DOMAIN attempts :
       attempts'[a].exam = Practice \/ attempts'[a].exam \notin DOMAIN exams
  /\ \A e \in DOMAIN exams : e \in DOMAIN exams' /\ exams'[e].owner = exams[e].owner

LEMMA QuestionsStay ==
  ASSUME TypeOK, RowsStay, NEW e \in DOMAIN exams
  PROVE  QuestionsOf(e)' = QuestionsOf(e)
<1>1. e # Practice
  BY ConstantsAssumption DEF TypeOK
<1>. QED
  BY <1>1 DEF RowsStay, QuestionsOf

LEMMA SeenOpenStays ==
  ASSUME RowsStay, NEW e, NEW row, NEW o, SeenOpen(e, row, o)
  PROVE  SeenOpen(e, row, o)'
  BY DEF RowsStay, SeenOpen, IsExamRow

LEMMA RequestStays ==
  ASSUME TypeOK, RowsStay, NEW s \in Slots, RequestOK(s), requests'[s] = requests[s]
  PROVE  RequestOK(s)'
<1>1. CASE requests[s] = Idle
  BY <1>1 DEF RequestOK
<1>2. CASE OpenOK(s)
  BY <1>2 DEF RequestOK, OpenOK, RowsStay
<1>3. CASE AnswerOK(s)
  BY <1>3 DEF RequestOK, AnswerOK, RowsStay
<1>4. CASE StartOK(s)
  <2>1. StartOK(s)'
    BY <1>4, SeenOpenStays DEF StartOK
  <2>. QED BY <2>1 DEF RequestOK
<1>5. CASE ExamAnswerOK(s)
  BY <1>5 DEF RequestOK, ExamAnswerOK, RowsStay
<1>6. CASE SubmitOK(s)
  <2>1. SubmitOK(s)'
    BY <1>6, SeenOpenStays, QuestionsStay DEF SubmitOK, RowsStay
  <2>. QED BY <2>1 DEF RequestOK
<1>7. CASE AbandonOK(s)
  <2>1. AbandonOK(s)'
    BY <1>7, SeenOpenStays DEF AbandonOK, RowsStay
  <2>. QED BY <2>1 DEF RequestOK
<1>. QED
  BY <1>1, <1>2, <1>3, <1>4, <1>5, <1>6, <1>7 DEF RequestOK

LEMMA NothingWritten ==
  ASSUME attempts' = attempts, exams' = exams
  PROVE  RowsStay
  BY DEF RowsStay

LEMMA StoredRows ==
  ASSUME FlightInvariant
  PROVE  /\ \A a \in DOMAIN attempts :
              /\ attempts[a] \in AttemptRow /\ a \in AttemptIds
              /\ attempts[a].exam # Practice => attempts[a].exam \in DOMAIN exams
         /\ \A e \in DOMAIN exams :
              /\ IsExamRow(exams[e]) /\ e # Practice /\ e \in ExamIds
              /\ exams[e].status \in {"open", "submitted", "abandoned"}
         /\ catalog \in Deployments
  BY ConstantsAssumption DEF FlightInvariant, TypeOK, IsExamRow

\* The request a slot is about to finish is one of the kind it says.
LEMMA PendingRequest ==
  ASSUME FlightInvariant, NEW s \in Slots
  PROVE  /\ requests[s].op = "open" => OpenOK(s)
         /\ requests[s].op = "answer" => AnswerOK(s)
         /\ requests[s].op = "start" => StartOK(s)
         /\ requests[s].op = "examAnswer" => ExamAnswerOK(s)
         /\ requests[s].op = "submit" => SubmitOK(s)
         /\ requests[s].op = "abandon" => AbandonOK(s)
  BY DEF FlightInvariant, RequestOK, Idle, OpenOK, AnswerOK, StartOK, ExamAnswerOK,
         SubmitOK, AbandonOK

----------------------------------------------------------------------------
(* What each commit writes, free of its helpers.                           *)

LEMMA OpenCommitEffect ==
  ASSUME FlightInvariant, NEW s \in Slots, OpenCommit(s)
  PROVE  \E new \in FreshAttempts :
           /\ new \in AttemptIds /\ new \notin DOMAIN attempts
           /\ DOMAIN attempts' = DOMAIN attempts \cup {new}
           /\ attempts' = [a \in DOMAIN attempts' |-> attempts'[a]]
           /\ attempts'[new] = NewAttempt(requests[s].owner, requests[s].ex, Practice)
           /\ \A a \in DOMAIN attempts :
                attempts'[a] = IF a \in StillOpen(requests[s].found)
                               THEN Abandoned(attempts[a]) ELSE attempts[a]
<1> DEFINE r == requests[s]
           found == StillOpen(r.found)
           new == CHOOSE a \in FreshAttempts : TRUE
           rows == [a \in found \cup {new} |->
                      IF a = new THEN NewAttempt(r.owner, r.ex, Practice)
                      ELSE Abandoned(attempts[a])]
<1>1. new \in FreshAttempts /\ attempts' = Write(attempts, rows)
  BY DEF OpenCommit
<1>2. new \in AttemptIds /\ new \notin DOMAIN attempts
  BY <1>1, FreshIsNew
<1>3. found \subseteq DOMAIN attempts
  <2>1. OpenOK(s)
    BY PendingRequest DEF OpenCommit, Pending
  <2>. QED BY <2>1 DEF OpenOK, StillOpen
<1>4. /\ DOMAIN rows = found \cup {new}
      /\ rows[new] = NewAttempt(r.owner, r.ex, Practice)
      /\ \A a \in found : rows[a] = Abandoned(attempts[a])
  BY <1>2, <1>3
<1>5. found = StillOpen(requests[s].found) /\ r = requests[s]
  OBVIOUS
<1> HIDE DEF rows, new, found, r
<1>6. attempts' = [a \in DOMAIN attempts \cup {new} |->
                     IF a \in found \cup {new} THEN rows[a] ELSE attempts[a]]
  BY <1>1, <1>3, <1>4 DEF Write
<1>7. /\ DOMAIN attempts' = DOMAIN attempts \cup {new}
      /\ attempts' = [a \in DOMAIN attempts' |-> attempts'[a]]
      /\ attempts'[new] = NewAttempt(r.owner, r.ex, Practice)
  BY <1>4, <1>6
<1>8. \A a \in DOMAIN attempts :
        attempts'[a] = IF a \in found THEN Abandoned(attempts[a]) ELSE attempts[a]
  BY <1>2, <1>4, <1>6
<1>. QED
  BY <1>1, <1>2, <1>5, <1>7, <1>8

\* What an answer that was in flight leaves in its row.
LEMMA AnswerCommitEffect ==
  ASSUME FlightInvariant, NEW s \in Slots, AnswerCommit(s)
  PROVE  LET r == requests[s]
             a == r.attempt
         IN  /\ attempts' = [b \in DOMAIN attempts |-> attempts'[b]]
             /\ attempts'[a] \in AttemptRow
             /\ attempts'[a] = [attempts[a] EXCEPT
                  !.given = Column(r.seen.given, r.ans, @),
                  !.verdict = Column(r.seen.verdict, Verdict(r.seen.ex, r.ans), @),
                  !.state = "answered"]
             /\ \A b \in DOMAIN attempts \ {a} : attempts'[b] = attempts[b]
<1> DEFINE r == requests[s]
           a == r.attempt
           given == Column(r.seen.given, r.ans, attempts[a].given)
           verdict == Column(r.seen.verdict, Verdict(r.seen.ex, r.ans), attempts[a].verdict)
           row == [attempts[a] EXCEPT !.given = given, !.verdict = verdict,
                                      !.state = "answered"]
<1>1. AnswerOK(s)
  BY PendingRequest DEF AnswerCommit, Pending
<1>2. a \in DOMAIN attempts /\ attempts[a] \in AttemptRow
  BY <1>1, StoredRows DEF AnswerOK
<1>3. given \in Answers \cup {None}
  BY <1>1, <1>2 DEF AnswerOK, Column, AttemptRow
<1>4. verdict \in {"none", "correct", "wrong"}
  BY <1>2 DEF Column, AttemptRow, Verdict
<1>5. attempts' = [attempts EXCEPT ![a] = row]
  <2>1. attempts' = [attempts EXCEPT
          ![a].given = Column(r.seen.given, r.ans, @),
          ![a].verdict = Column(r.seen.verdict, Verdict(r.seen.ex, r.ans), @),
          ![a].state = "answered"]
    BY DEF AnswerCommit
  <2>. QED BY <1>2, <2>1 DEF AttemptRow
<1>6. row = [attempts[a] EXCEPT
               !.given = Column(r.seen.given, r.ans, @),
               !.verdict = Column(r.seen.verdict, Verdict(r.seen.ex, r.ans), @),
               !.state = "answered"]
  BY <1>2 DEF AttemptRow
<1> HIDE DEF given, verdict
<1>7. row \in AttemptRow
  BY <1>2, <1>3, <1>4 DEF AttemptRow
<1> HIDE DEF row
<1>8. attempts' = [b \in DOMAIN attempts |-> IF b = a THEN row ELSE attempts[b]]
  BY <1>5
<1>9. attempts'[a] = row
  BY <1>2, <1>8
<1>. QED
  BY <1>6, <1>7, <1>8, <1>9

\* What a start that was in flight leaves behind: the exams it had found open
\* closed as it had read them, one exam added, and the rows `new` as its questions.
StartedLate(s, e, new, order) ==
  LET r == requests[s] IN
  /\ e \in ExamIds \ DOMAIN exams
  /\ new \subseteq FreshAttempts
  /\ IsExamRow(NewExam(r.owner, r.scope, order))
  /\ exams' = [f \in DOMAIN exams \cup {e} |->
                  IF f = e THEN NewExam(r.owner, r.scope, order)
                  ELSE IF f \in DOMAIN r.seen
                  THEN [r.seen[f] EXCEPT !.status = "abandoned"]
                  ELSE exams[f]]
  /\ DOMAIN attempts' = DOMAIN attempts \cup new
  /\ attempts' = [a \in DOMAIN attempts' |-> attempts'[a]]
  /\ \A a \in new : \E x \in Exercises : attempts'[a] = NewAttempt(r.owner, x, e)
  /\ \A a \in DOMAIN attempts :
       attempts'[a] = IF attempts[a].exam \in DOMAIN r.seen
                      THEN Abandoned(attempts[a]) ELSE attempts[a]

LEMMA StartCommitEffect ==
  ASSUME FlightInvariant, NEW s \in Slots, StartCommit(s)
  PROVE  \E e, new, order : StartedLate(s, e, new, order)
<1> DEFINE r == requests[s]
           o == r.owner
           scope == r.scope
           mods == ScopeModules(o.course, scope)
           closed == DOMAIN r.seen
           e == CHOOSE i \in ExamIds \ DOMAIN exams : TRUE
           ids == CHOOSE f \in FreshIds(mods) : TRUE
           new == {ids[i] : i \in mods}
<1>1. PICK pick \in [mods -> Exercises] :
        LET order == [x \in {pick[i] : i \in mods} |-> CHOOSE i \in mods : pick[i] = x]
        IN  /\ exams' = Write(exams,
                 [f \in closed \cup {e} |->
                    IF f = e THEN NewExam(o, scope, order)
                    ELSE [r.seen[f] EXCEPT !.status = "abandoned"]])
            /\ attempts' = Write(attempts,
                 [a \in {b \in DOMAIN attempts : attempts[b].exam \in closed} \cup new |->
                    IF a \in DOMAIN attempts THEN Abandoned(attempts[a])
                    ELSE NewAttempt(o, pick[CHOOSE i \in mods : ids[i] = a], e)])
  BY DEF StartCommit
<1> DEFINE order == [x \in {pick[i] : i \in mods} |-> CHOOSE i \in mods : pick[i] = x]
           examRows == [f \in closed \cup {e} |->
                          IF f = e THEN NewExam(o, scope, order)
                          ELSE [r.seen[f] EXCEPT !.status = "abandoned"]]
           old == {b \in DOMAIN attempts : attempts[b].exam \in closed}
           rows == [a \in old \cup new |->
                      IF a \in DOMAIN attempts THEN Abandoned(attempts[a])
                      ELSE NewAttempt(o, pick[CHOOSE i \in mods : ids[i] = a], e)]
<1>2. e \in ExamIds \ DOMAIN exams /\ ids \in FreshIds(mods)
  BY DEF StartCommit
<1>3. new \in SUBSET FreshAttempts
  BY <1>2 DEF FreshIds
<1>4. /\ o \in Owner /\ scope \in Scope
      /\ closed \subseteq DOMAIN exams /\ old \subseteq DOMAIN attempts
  <2>1. StartOK(s)
    BY PendingRequest DEF StartCommit, Pending
  <2>. QED BY <2>1 DEF StartOK, SeenOpen
<1>5. mods \subseteq Nat
  <2>1. IsManifest(catalog[o.course])
    BY <1>4, ConstantsAssumption, StoredRows DEF Owner
  <2>. QED BY <2>1 DEF ScopeModules, IsManifest
<1>6. IsExamRow(NewExam(o, scope, order))
  <2>1. DOMAIN order \subseteq Exercises
    OBVIOUS
  <2>2. order \in [DOMAIN order -> Nat]
    BY <1>5
  <2> HIDE DEF order
  <2>. QED BY <1>4, <2>1, <2>2 DEF NewExam, IsExamRow
<1>7. exams' = [f \in DOMAIN exams \cup {e} |->
                  IF f = e THEN NewExam(o, scope, order)
                  ELSE IF f \in closed THEN [r.seen[f] EXCEPT !.status = "abandoned"]
                  ELSE exams[f]]
  <2>1. exams' = Write(exams, examRows) /\ DOMAIN examRows = closed \cup {e}
    BY <1>1
  <2>2. examRows[e] = NewExam(o, scope, order)
    OBVIOUS
  <2>3. \A f \in closed : examRows[f] = [r.seen[f] EXCEPT !.status = "abandoned"]
    BY <1>2, <1>4
  <2> HIDE DEF examRows, e, closed, order
  <2>. QED BY <2>1, <2>2, <2>3, <1>4 DEF Write
<1>8. /\ attempts' = Write(attempts, rows)
      /\ DOMAIN rows = old \cup new
      /\ \A a \in old : rows[a] = Abandoned(attempts[a])
  BY <1>1
<1>9. \A a \in new : \E x \in Exercises : rows[a] = NewAttempt(o, x, e)
  <2> SUFFICES ASSUME NEW a \in new
               PROVE  \E x \in Exercises : rows[a] = NewAttempt(o, x, e)
    OBVIOUS
  <2>1. a \notin DOMAIN attempts
    BY <1>3, FreshIsNew
  <2>2. (CHOOSE i \in mods : ids[i] = a) \in mods
    OBVIOUS
  <2>3. rows[a] = NewAttempt(o, pick[CHOOSE i \in mods : ids[i] = a], e)
    BY <2>1
  <2>. QED BY <2>2, <2>3
<1>10. /\ \A a \in new : a \notin DOMAIN attempts
       /\ \A a \in old : attempts[a].exam \in closed
       /\ \A a \in DOMAIN attempts : attempts[a].exam \in closed => a \in old
  BY <1>3, FreshIsNew
<1>11. o = requests[s].owner /\ scope = requests[s].scope /\ closed = DOMAIN requests[s].seen
         /\ r = requests[s]
  OBVIOUS
<1> HIDE DEF rows, new, old, closed, e, order, o, scope, r
<1>12. attempts' = [a \in DOMAIN attempts \cup new |->
                      IF a \in old \cup new THEN rows[a] ELSE attempts[a]]
  BY <1>4, <1>8 DEF Write
<1>13. /\ DOMAIN attempts' = DOMAIN attempts \cup new
       /\ attempts' = [a \in DOMAIN attempts' |-> attempts'[a]]
  BY <1>12
<1>14. \A a \in new : \E x \in Exercises : attempts'[a] = NewAttempt(o, x, e)
  BY <1>9, <1>12
<1>15. \A a \in DOMAIN attempts :
         attempts'[a] = IF attempts[a].exam \in closed
                        THEN Abandoned(attempts[a]) ELSE attempts[a]
  BY <1>8, <1>10, <1>12
<1>16. StartedLate(s, e, new, order)
  <2>1. exams' = [f \in DOMAIN exams \cup {e} |->
                    IF f = e THEN NewExam(requests[s].owner, requests[s].scope, order)
                    ELSE IF f \in DOMAIN requests[s].seen
                    THEN [requests[s].seen[f] EXCEPT !.status = "abandoned"]
                    ELSE exams[f]]
    BY <1>7, <1>11
  <2>. QED BY <1>2, <1>3, <1>6, <1>11, <1>13, <1>14, <1>15, <2>1 DEF StartedLate
<1>. QED
  BY <1>16

LEMMA ExamAnswerCommitEffect ==
  ASSUME FlightInvariant, NEW s \in Slots, ExamAnswerCommit(s)
  PROVE  LET r == requests[s]
             a == r.attempt
         IN  /\ attempts' = [b \in DOMAIN attempts |-> attempts'[b]]
             /\ attempts'[a] \in AttemptRow
             /\ attempts'[a] = [attempts[a] EXCEPT !.given = Column(r.seen, r.ans, @)]
             /\ \A b \in DOMAIN attempts \ {a} : attempts'[b] = attempts[b]
<1> DEFINE r == requests[s]
           a == r.attempt
           given == Column(r.seen, r.ans, attempts[a].given)
           row == [attempts[a] EXCEPT !.given = given]
<1>1. ExamAnswerOK(s)
  BY PendingRequest DEF ExamAnswerCommit, Pending
<1>2. a \in DOMAIN attempts /\ attempts[a] \in AttemptRow
  BY <1>1, StoredRows DEF ExamAnswerOK
<1>3. given \in Answers \cup {None}
  BY <1>1, <1>2 DEF ExamAnswerOK, Column, AttemptRow
<1>4. attempts' = [attempts EXCEPT ![a] = row]
  BY DEF ExamAnswerCommit
<1>5. row = [attempts[a] EXCEPT !.given = Column(r.seen, r.ans, @)]
  OBVIOUS
<1> HIDE DEF given
<1>6. row \in AttemptRow
  BY <1>2, <1>3 DEF AttemptRow
<1> HIDE DEF row
<1>7. attempts' = [b \in DOMAIN attempts |-> IF b = a THEN row ELSE attempts[b]]
  BY <1>4
<1>8. attempts'[a] = row
  BY <1>2, <1>7
<1>. QED
  BY <1>5, <1>6, <1>7, <1>8

\* A question as a submission in flight leaves it, graded on the row it had read.
LateGraded(c, seen, row) ==
  [row EXCEPT !.verdict = Column(seen.verdict, ExamVerdict(c, seen), @),
              !.state = Column(seen.state, "answered", @)]

LEMMA LateGradedRow ==
  ASSUME NEW c, NEW seen \in AttemptRow, NEW row \in AttemptRow
  PROVE  /\ LateGraded(c, seen, row) \in AttemptRow
         /\ LateGraded(c, seen, row).owner = row.owner
         /\ LateGraded(c, seen, row).ex = row.ex
         /\ LateGraded(c, seen, row).exam = row.exam
         /\ LateGraded(c, seen, row).given = row.given
         /\ LateGraded(c, seen, row).verdict =
              Column(seen.verdict, ExamVerdict(c, seen), row.verdict)
         /\ LateGraded(c, seen, row).state = Column(seen.state, "answered", row.state)
<1> DEFINE verdict == Column(seen.verdict, ExamVerdict(c, seen), row.verdict)
           state == Column(seen.state, "answered", row.state)
<1>1. /\ verdict \in {"none", "correct", "wrong"}
      /\ state \in {"open", "answered", "abandoned"}
  BY DEF Column, ExamVerdict, Verdict, AttemptRow
<1>2. LateGraded(c, seen, row) = [row EXCEPT !.verdict = verdict, !.state = state]
  BY DEF LateGraded, AttemptRow
<1> HIDE DEF verdict, state
<1>3. LateGraded(c, seen, row) \in AttemptRow
  BY <1>1, <1>2 DEF AttemptRow
<1>4. /\ LateGraded(c, seen, row).owner = row.owner
      /\ LateGraded(c, seen, row).ex = row.ex
      /\ LateGraded(c, seen, row).exam = row.exam
      /\ LateGraded(c, seen, row).given = row.given
      /\ LateGraded(c, seen, row).verdict = verdict
      /\ LateGraded(c, seen, row).state = state
  BY <1>2 DEF AttemptRow
<1>. QED
  BY <1>3, <1>4 DEF verdict, state

LEMMA SubmitCommitEffect ==
  ASSUME FlightInvariant, NEW s \in Slots, SubmitCommit(s)
  PROVE  LET r == requests[s]
             c == r.owner.course
             result == [a \in DOMAIN r.rows |-> ResultEntry(c, r.rows[a])]
         IN  /\ attempts' = [a \in DOMAIN attempts |->
                               IF a \in QuestionsOf(r.exam)
                               THEN LateGraded(c, r.rows[a], attempts[a])
                               ELSE attempts[a]]
             /\ exams' = [f \in DOMAIN exams |->
                            IF f = r.exam
                            THEN [r.seen EXCEPT !.status = "submitted", !.result = result]
                            ELSE exams[f]]
             /\ IsExamRow([r.seen EXCEPT !.status = "submitted", !.result = result])
<1> DEFINE r == requests[s]
           c == r.owner.course
           result == [a \in DOMAIN r.rows |-> ResultEntry(c, r.rows[a])]
           row == [r.seen EXCEPT !.status = "submitted", !.result = result]
           rows == [a \in DOMAIN r.rows |-> LateGraded(c, r.rows[a], attempts[a])]
<1>1. SubmitOK(s) /\ r.at = "commit"
  BY PendingRequest DEF SubmitCommit, Pending
<1>2. /\ r.owner \in Owner /\ r.exam \in DOMAIN exams /\ IsExamRow(r.seen)
      /\ DOMAIN r.rows = QuestionsOf(r.exam)
      /\ \A a \in DOMAIN r.rows : r.rows[a] \in AttemptRow
      /\ QuestionsOf(r.exam) \subseteq DOMAIN attempts
  BY <1>1 DEF SubmitOK, SeenOpen, QuestionsOf
<1>3. /\ DOMAIN result \subseteq AttemptIds
      /\ result \in [DOMAIN result -> [module : SUBSET Modules, correct : BOOLEAN,
                                       unanswered : BOOLEAN]]
  <2>1. TypeOK
    BY DEF FlightInvariant
  <2>2. \A a \in DOMAIN r.rows :
          ResultEntry(c, r.rows[a]) \in
            [module : SUBSET Modules, correct : BOOLEAN, unanswered : BOOLEAN]
    BY <1>2, <2>1, ResultEntryType
  <2>3. DOMAIN r.rows \subseteq AttemptIds
    BY <1>2, StoredRows
  <2>. QED BY <2>2, <2>3
<1>4. IsExamRow(row)
  <2> HIDE DEF result, r
  <2>. QED BY <1>2, <1>3 DEF IsExamRow
<1>5. attempts' = Write(attempts, rows) /\ DOMAIN rows = QuestionsOf(r.exam)
  BY <1>2 DEF SubmitCommit, LateGraded
<1>6. exams' = [exams EXCEPT ![r.exam] = row]
  <2>1. exams' = [exams EXCEPT ![r.exam] =
                    [r.seen EXCEPT !.status = "submitted", !.result = result]]
    BY DEF SubmitCommit
  <2>. QED BY <2>1
<1>7. attempts' = [a \in DOMAIN attempts |->
                     IF a \in QuestionsOf(r.exam)
                     THEN LateGraded(c, r.rows[a], attempts[a]) ELSE attempts[a]]
  <2>1. \A a \in QuestionsOf(r.exam) : rows[a] = LateGraded(c, r.rows[a], attempts[a])
    BY <1>2
  <2> HIDE DEF rows, c, r
  <2>. QED BY <1>2, <1>5, <2>1 DEF Write
<1>8. exams' = [f \in DOMAIN exams |-> IF f = r.exam THEN row ELSE exams[f]]
  <2> HIDE DEF row, r
  <2>. QED BY <1>6
<1>. QED
  BY <1>4, <1>7, <1>8

LEMMA AbandonCommitEffect ==
  ASSUME FlightInvariant, NEW s \in Slots, AbandonCommit(s)
  PROVE  LET r == requests[s] IN
         /\ attempts' = [a \in DOMAIN attempts |->
                           IF a \in QuestionsOf(r.exam) THEN Abandoned(attempts[a])
                           ELSE attempts[a]]
         /\ exams' = [f \in DOMAIN exams |->
                        IF f = r.exam THEN [r.seen EXCEPT !.status = "abandoned"]
                        ELSE exams[f]]
<1> DEFINE r == requests[s]
           row == [r.seen EXCEPT !.status = "abandoned"]
           rows == [a \in QuestionsOf(r.exam) |-> Abandoned(attempts[a])]
<1>1. attempts' = Write(attempts, rows) /\ exams' = [exams EXCEPT ![r.exam] = row]
  BY DEF AbandonCommit, BulkAbandoned
<1>2. QuestionsOf(r.exam) \subseteq DOMAIN attempts
  BY DEF QuestionsOf
<1>3. attempts' = [a \in DOMAIN attempts |->
                     IF a \in QuestionsOf(r.exam) THEN Abandoned(attempts[a])
                     ELSE attempts[a]]
  <2>1. /\ DOMAIN rows = QuestionsOf(r.exam)
        /\ \A a \in QuestionsOf(r.exam) : rows[a] = Abandoned(attempts[a])
    OBVIOUS
  <2> HIDE DEF rows, r
  <2>. QED BY <1>1, <1>2, <2>1 DEF Write
<1>4. exams' = [f \in DOMAIN exams |-> IF f = r.exam THEN row ELSE exams[f]]
  <2> HIDE DEF row, r
  <2>. QED BY <1>1
<1>. QED
  BY <1>3, <1>4

----------------------------------------------------------------------------
(* Every step keeps the invariant, whatever overlaps.                      *)

RowWhole(row) ==
  row.exam = Practice =>
    /\ (row.state = "answered") = (row.given # None)
    /\ row.verdict = IF row.given = None THEN "none" ELSE Verdict(row.ex, row.given)

LEMMA RowsWhole == PracticeRowWhole <=> \A a \in DOMAIN attempts : RowWhole(attempts[a])
  BY DEF PracticeRowWhole, RowWhole

LEMMA RowsWholeAfter ==
  (\A a \in DOMAIN attempts' : RowWhole(attempts'[a])) => PracticeRowWhole'
  BY DEF PracticeRowWhole, RowWhole

\* The part of the invariant that is about the tables, after a step.
TablesSound == RowsStay /\ TypeOK' /\ OpenHasNoResult' /\ PracticeRowWhole'

LEMMA AbandonedWhole ==
  ASSUME NEW row \in AttemptRow, RowWhole(row), row.state # "answered" \/ row.exam # Practice
  PROVE  RowWhole(Abandoned(row))
  BY AbandonedRow DEF RowWhole

LEMMA OpenCommitSound ==
  ASSUME FlightInvariant, NEW s \in Slots, OpenCommit(s)
  PROVE  TablesSound
<1> DEFINE r == requests[s]
<1>1. PICK new \in FreshAttempts :
        /\ new \in AttemptIds /\ new \notin DOMAIN attempts
        /\ DOMAIN attempts' = DOMAIN attempts \cup {new}
        /\ attempts' = [a \in DOMAIN attempts' |-> attempts'[a]]
        /\ attempts'[new] = NewAttempt(r.owner, r.ex, Practice)
        /\ \A a \in DOMAIN attempts :
             attempts'[a] = IF a \in StillOpen(r.found)
                            THEN Abandoned(attempts[a]) ELSE attempts[a]
  BY OpenCommitEffect
<1>2. r.owner \in Owner /\ r.ex \in Exercises
  <2>1. OpenOK(s)
    BY PendingRequest DEF OpenCommit, Pending
  <2>. QED BY <2>1 DEF OpenOK
<1>3. exams' = exams /\ catalog' = catalog
  BY DEF OpenCommit
<1>4. /\ attempts'[new] \in AttemptRow /\ attempts'[new].exam = Practice
      /\ RowWhole(attempts'[new])
  BY <1>1, <1>2, NewAttemptRow DEF RowWhole
<1>5. ASSUME NEW a \in DOMAIN attempts
      PROVE  /\ attempts'[a] \in AttemptRow
             /\ attempts'[a].owner = attempts[a].owner
             /\ attempts'[a].ex = attempts[a].ex
             /\ attempts'[a].exam = attempts[a].exam
             /\ RowWhole(attempts'[a])
  <2>1. attempts[a] \in AttemptRow /\ RowWhole(attempts[a])
    BY StoredRows, RowsWhole DEF FlightInvariant
  <2>2. CASE a \in StillOpen(r.found)
    BY <1>1, <2>1, <2>2, AbandonedRow, AbandonedWhole DEF StillOpen
  <2>3. CASE a \notin StillOpen(r.found)
    BY <1>1, <2>1, <2>3
  <2>. QED BY <2>2, <2>3
<1>6. RowsStay
  BY <1>1, <1>3, <1>4, <1>5 DEF RowsStay
<1>7. TypeOK'
  BY <1>1, <1>3, <1>4, <1>5 DEF FlightInvariant, TypeOK
<1>8. OpenHasNoResult'
  BY <1>3 DEF FlightInvariant, OpenHasNoResult
<1>9. PracticeRowWhole'
  BY <1>1, <1>4, <1>5, RowsWholeAfter
<1>. QED
  BY <1>6, <1>7, <1>8, <1>9 DEF TablesSound

\* A practice row that is answered late keeps one answer and its grade.
LEMMA AnswerCommitSound ==
  ASSUME FlightInvariant, NEW s \in Slots, AnswerCommit(s)
  PROVE  TablesSound
<1> DEFINE r == requests[s]
           a == r.attempt
<1>1. AnswerOK(s)
  BY PendingRequest DEF AnswerCommit, Pending
<1>2. /\ a \in DOMAIN attempts /\ attempts[a] \in AttemptRow
      /\ r.ans \in Answers /\ r.seen.ex = attempts[a].ex
      /\ attempts[a].exam = Practice => r.seen.given = None /\ r.seen.verdict = "none"
  BY <1>1, StoredRows DEF AnswerOK
<1>3. /\ attempts' = [b \in DOMAIN attempts |-> attempts'[b]]
      /\ attempts'[a] \in AttemptRow
      /\ attempts'[a] = [attempts[a] EXCEPT
           !.given = Column(r.seen.given, r.ans, @),
           !.verdict = Column(r.seen.verdict, Verdict(r.seen.ex, r.ans), @),
           !.state = "answered"]
      /\ \A b \in DOMAIN attempts \ {a} : attempts'[b] = attempts[b]
  BY AnswerCommitEffect
<1>4. exams' = exams /\ catalog' = catalog
  BY DEF AnswerCommit
<1>5. /\ attempts'[a].owner = attempts[a].owner
      /\ attempts'[a].ex = attempts[a].ex
      /\ attempts'[a].exam = attempts[a].exam
      /\ attempts'[a].state = "answered"
      /\ attempts'[a].given = Column(r.seen.given, r.ans, attempts[a].given)
      /\ attempts'[a].verdict =
           Column(r.seen.verdict, Verdict(r.seen.ex, r.ans), attempts[a].verdict)
  BY <1>2, <1>3 DEF AttemptRow
<1>6. DOMAIN attempts' = DOMAIN attempts
  BY <1>3
<1>7. RowWhole(attempts'[a])
  <2>1. r.ans # None
    BY <1>2, ConstantsAssumption
  <2>2. Verdict(attempts[a].ex, r.ans) # "none"
    BY DEF Verdict
  <2>. QED BY <1>2, <1>5, <2>1, <2>2 DEF RowWhole, Column
<1>8. RowsStay
  BY <1>3, <1>4, <1>5, <1>6 DEF RowsStay
<1>9. TypeOK'
  BY <1>3, <1>4, <1>5, <1>6 DEF FlightInvariant, TypeOK
<1>10. OpenHasNoResult'
  BY <1>4 DEF FlightInvariant, OpenHasNoResult
<1>11. PracticeRowWhole'
  BY <1>3, <1>6, <1>7, RowsWhole, RowsWholeAfter DEF FlightInvariant
<1>. QED
  BY <1>8, <1>9, <1>10, <1>11 DEF TablesSound

LEMMA ExamAnswerCommitSound ==
  ASSUME FlightInvariant, NEW s \in Slots, ExamAnswerCommit(s)
  PROVE  TablesSound
<1> DEFINE r == requests[s]
           a == r.attempt
<1>1. ExamAnswerOK(s)
  BY PendingRequest DEF ExamAnswerCommit, Pending
<1>2. a \in DOMAIN attempts /\ attempts[a] \in AttemptRow /\ attempts[a].exam # Practice
  BY <1>1, StoredRows DEF ExamAnswerOK
<1>3. /\ attempts' = [b \in DOMAIN attempts |-> attempts'[b]]
      /\ attempts'[a] \in AttemptRow
      /\ attempts'[a] = [attempts[a] EXCEPT !.given = Column(r.seen, r.ans, @)]
      /\ \A b \in DOMAIN attempts \ {a} : attempts'[b] = attempts[b]
  BY ExamAnswerCommitEffect
<1>4. exams' = exams /\ catalog' = catalog
  BY DEF ExamAnswerCommit
<1>5. /\ attempts'[a].owner = attempts[a].owner
      /\ attempts'[a].ex = attempts[a].ex
      /\ attempts'[a].exam = attempts[a].exam
  BY <1>2, <1>3 DEF AttemptRow
<1>6. DOMAIN attempts' = DOMAIN attempts
  BY <1>3
<1>7. RowsStay
  BY <1>3, <1>4, <1>5, <1>6 DEF RowsStay
<1>8. TypeOK'
  BY <1>3, <1>4, <1>5, <1>6 DEF FlightInvariant, TypeOK
<1>9. OpenHasNoResult'
  BY <1>4 DEF FlightInvariant, OpenHasNoResult
<1>10. RowWhole(attempts'[a])
  BY <1>2, <1>5 DEF RowWhole
<1>11. PracticeRowWhole'
  BY <1>3, <1>6, <1>10, RowsWhole, RowsWholeAfter DEF FlightInvariant
<1>. QED
  BY <1>7, <1>8, <1>9, <1>11 DEF TablesSound

\* Both ways to close an exam write one exam row and its questions.
LEMMA ClosingSound ==
  ASSUME FlightInvariant, NEW e \in DOMAIN exams, NEW row, IsExamRow(row),
         row.owner = exams[e].owner, row.status # "open",
         exams' = [f \in DOMAIN exams |-> IF f = e THEN row ELSE exams[f]],
         attempts' = [a \in DOMAIN attempts |-> attempts'[a]],
         \A a \in DOMAIN attempts \ QuestionsOf(e) : attempts'[a] = attempts[a],
         \A a \in QuestionsOf(e) :
           /\ attempts'[a] \in AttemptRow
           /\ attempts'[a].owner = attempts[a].owner
           /\ attempts'[a].ex = attempts[a].ex
           /\ attempts'[a].exam = attempts[a].exam,
         catalog' = catalog
  PROVE  TablesSound
<1>1. DOMAIN attempts' = DOMAIN attempts /\ DOMAIN exams' = DOMAIN exams
  OBVIOUS
<1>2. \A f \in DOMAIN exams :
        /\ IsExamRow(exams'[f]) /\ exams'[f].owner = exams[f].owner
        /\ exams'[f].status = "open" => exams'[f] = exams[f]
  BY StoredRows
<1>3. \A a \in DOMAIN attempts :
        /\ attempts'[a] \in AttemptRow
        /\ attempts'[a].owner = attempts[a].owner
        /\ attempts'[a].ex = attempts[a].ex
        /\ attempts'[a].exam = attempts[a].exam
        /\ attempts'[a].exam = Practice => attempts'[a] = attempts[a]
  BY StoredRows DEF QuestionsOf
<1>4. RowsStay
  BY <1>1, <1>2, <1>3 DEF RowsStay
<1>5. TypeOK'
  BY <1>1, <1>2, <1>3 DEF FlightInvariant, TypeOK
<1>6. OpenHasNoResult'
  BY <1>1, <1>2 DEF FlightInvariant, OpenHasNoResult
<1>7. PracticeRowWhole'
  BY <1>1, <1>3, RowsWhole, RowsWholeAfter DEF FlightInvariant, RowWhole
<1>. QED
  BY <1>4, <1>5, <1>6, <1>7 DEF TablesSound

LEMMA SubmitCommitSound ==
  ASSUME FlightInvariant, NEW s \in Slots, SubmitCommit(s)
  PROVE  TablesSound
<1> DEFINE r == requests[s]
           c == r.owner.course
           result == [a \in DOMAIN r.rows |-> ResultEntry(c, r.rows[a])]
           row == [r.seen EXCEPT !.status = "submitted", !.result = result]
<1>1. SubmitOK(s) /\ r.at = "commit" /\ catalog' = catalog
  BY PendingRequest DEF SubmitCommit, Pending
<1>2. /\ r.exam \in DOMAIN exams /\ IsExamRow(r.seen)
      /\ exams[r.exam].owner = r.owner /\ r.seen.owner = r.owner
      /\ DOMAIN r.rows = QuestionsOf(r.exam)
      /\ \A a \in DOMAIN r.rows : r.rows[a] \in AttemptRow
  BY <1>1 DEF SubmitOK, SeenOpen
<1>3. /\ attempts' = [a \in DOMAIN attempts |->
                        IF a \in QuestionsOf(r.exam)
                        THEN LateGraded(c, r.rows[a], attempts[a]) ELSE attempts[a]]
      /\ exams' = [f \in DOMAIN exams |-> IF f = r.exam THEN row ELSE exams[f]]
      /\ IsExamRow(row)
  BY SubmitCommitEffect
<1>4. row.owner = exams[r.exam].owner /\ row.status = "submitted"
  <2> HIDE DEF result
  <2>. QED BY <1>2 DEF IsExamRow
<1>5. \A a \in QuestionsOf(r.exam) :
        /\ attempts'[a] \in AttemptRow
        /\ attempts'[a].owner = attempts[a].owner
        /\ attempts'[a].ex = attempts[a].ex
        /\ attempts'[a].exam = attempts[a].exam
  <2> TAKE a \in QuestionsOf(r.exam)
  <2>1. a \in DOMAIN attempts /\ attempts[a] \in AttemptRow /\ r.rows[a] \in AttemptRow
    BY <1>2, StoredRows DEF QuestionsOf
  <2>2. attempts'[a] = LateGraded(c, r.rows[a], attempts[a])
    BY <1>3, <2>1
  <2> DEFINE seen == r.rows[a]
             old == attempts[a]
             graded == LateGraded(c, seen, old)
  <2>3. seen \in AttemptRow /\ old \in AttemptRow /\ attempts'[a] = LateGraded(c, seen, old)
    BY <2>1, <2>2
  <2> HIDE DEF seen, c
  <2>4. /\ graded \in AttemptRow
        /\ graded.owner = old.owner
        /\ graded.ex = old.ex
        /\ graded.exam = old.exam
    BY <2>3, LateGradedRow
  <2> HIDE DEF graded
  <2>. QED BY <2>3, <2>4 DEF graded
<1> HIDE DEF row, r, c
<1>6. /\ attempts' = [a \in DOMAIN attempts |-> attempts'[a]]
      /\ \A a \in DOMAIN attempts \ QuestionsOf(r.exam) : attempts'[a] = attempts[a]
  BY <1>3
<1>. QED
  BY <1>1, <1>2, <1>3, <1>4, <1>5, <1>6, ClosingSound

LEMMA AbandonCommitSound ==
  ASSUME FlightInvariant, NEW s \in Slots, AbandonCommit(s)
  PROVE  TablesSound
<1> DEFINE r == requests[s]
           row == [r.seen EXCEPT !.status = "abandoned"]
<1>1. AbandonOK(s) /\ catalog' = catalog
  BY PendingRequest DEF AbandonCommit, Pending
<1>2. /\ r.exam \in DOMAIN exams /\ IsExamRow(r.seen)
      /\ exams[r.exam].owner = r.owner /\ r.seen.owner = r.owner
  BY <1>1 DEF AbandonOK, SeenOpen
<1>3. /\ attempts' = [a \in DOMAIN attempts |->
                        IF a \in QuestionsOf(r.exam) THEN Abandoned(attempts[a])
                        ELSE attempts[a]]
      /\ exams' = [f \in DOMAIN exams |-> IF f = r.exam THEN row ELSE exams[f]]
  BY AbandonCommitEffect
<1>4. IsExamRow(row) /\ row.owner = exams[r.exam].owner /\ row.status = "abandoned"
  BY <1>2 DEF IsExamRow
<1>5. \A a \in QuestionsOf(r.exam) :
        /\ attempts'[a] \in AttemptRow
        /\ attempts'[a].owner = attempts[a].owner
        /\ attempts'[a].ex = attempts[a].ex
        /\ attempts'[a].exam = attempts[a].exam
  BY <1>3, StoredRows, AbandonedRow DEF QuestionsOf
<1> HIDE DEF row, r
<1>6. /\ attempts' = [a \in DOMAIN attempts |-> attempts'[a]]
      /\ \A a \in DOMAIN attempts \ QuestionsOf(r.exam) : attempts'[a] = attempts[a]
  BY <1>3
<1>. QED
  BY <1>1, <1>2, <1>3, <1>4, <1>5, <1>6, ClosingSound

LEMMA StartCommitSound ==
  ASSUME FlightInvariant, NEW s \in Slots, StartCommit(s)
  PROVE  TablesSound
<1> DEFINE r == requests[s]
           closed == DOMAIN r.seen
<1> PICK e, new, order : StartedLate(s, e, new, order)
  BY StartCommitEffect
<1>1. /\ e \in ExamIds \ DOMAIN exams
      /\ new \subseteq FreshAttempts
      /\ IsExamRow(NewExam(r.owner, r.scope, order))
      /\ DOMAIN attempts' = DOMAIN attempts \cup new
      /\ attempts' = [a \in DOMAIN attempts' |-> attempts'[a]]
      /\ \A a \in new : \E x \in Exercises : attempts'[a] = NewAttempt(r.owner, x, e)
      /\ \A a \in DOMAIN attempts :
           attempts'[a] = IF attempts[a].exam \in closed
                          THEN Abandoned(attempts[a]) ELSE attempts[a]
  BY DEF StartedLate
<1>2. exams' = [f \in DOMAIN exams \cup {e} |->
                  IF f = e THEN NewExam(r.owner, r.scope, order)
                  ELSE IF f \in closed THEN [r.seen[f] EXCEPT !.status = "abandoned"]
                  ELSE exams[f]]
  BY DEF StartedLate
<1>3. /\ r.owner \in Owner /\ catalog' = catalog
      /\ \A f \in closed : /\ IsExamRow(r.seen[f]) /\ r.seen[f].owner = exams[f].owner
                           /\ f \in DOMAIN exams
  <2>1. StartOK(s) /\ catalog' = catalog
    BY PendingRequest DEF StartCommit, Pending
  <2>. QED BY <2>1 DEF StartOK, SeenOpen
<1>4. \A a \in new : /\ attempts'[a] \in AttemptRow /\ attempts'[a].exam = e
                     /\ a \in AttemptIds /\ a \notin DOMAIN attempts
  BY <1>1, <1>3, NewAttemptRow, FreshIsNew
<1>5. e # Practice
  BY <1>1, ConstantsAssumption
<1>6. ASSUME NEW f \in DOMAIN exams
      PROVE  /\ IsExamRow(exams'[f]) /\ exams'[f].owner = exams[f].owner
             /\ exams'[f].status = "open" => exams'[f] = exams[f]
  <2>1. CASE f \in closed
    <3>1. exams'[f] = [r.seen[f] EXCEPT !.status = "abandoned"]
      BY <1>1, <1>2, <2>1
    <3>. QED BY <1>3, <2>1, <3>1 DEF IsExamRow
  <2>2. CASE f \notin closed
    BY <1>1, <1>2, <2>2, StoredRows
  <2>. QED BY <2>1, <2>2
<1>7. /\ DOMAIN exams' = DOMAIN exams \cup {e}
      /\ exams' = [f \in DOMAIN exams' |-> exams'[f]]
      /\ exams'[e] = NewExam(r.owner, r.scope, order)
  BY <1>2
<1>8. ASSUME NEW a \in DOMAIN attempts
      PROVE  /\ attempts'[a] \in AttemptRow
             /\ attempts'[a].owner = attempts[a].owner
             /\ attempts'[a].ex = attempts[a].ex
             /\ attempts'[a].exam = attempts[a].exam
             /\ RowWhole(attempts'[a])
  <2>1. attempts[a] \in AttemptRow /\ RowWhole(attempts[a])
    BY StoredRows, RowsWhole DEF FlightInvariant
  <2>2. CASE attempts[a].exam \in closed
    <3>1. attempts[a].exam # Practice
      BY <1>3, <2>2, StoredRows
    <3>. QED BY <1>1, <2>1, <2>2, <3>1, AbandonedRow, AbandonedWhole
  <2>3. CASE attempts[a].exam \notin closed
    BY <1>1, <2>1, <2>3
  <2>. QED BY <2>2, <2>3
<1>9. RowsStay
  BY <1>1, <1>4, <1>6, <1>7, <1>8 DEF RowsStay
<1>10. TypeOK'
  <2>1. \A a \in DOMAIN attempts' :
          /\ attempts'[a] \in AttemptRow
          /\ attempts'[a].exam # Practice => attempts'[a].exam \in DOMAIN exams'
    BY <1>1, <1>4, <1>7, <1>8, StoredRows
  <2>2. \A f \in DOMAIN exams' : IsExamRow(exams'[f])
    BY <1>1, <1>6, <1>7
  <2>3. DOMAIN attempts' \subseteq AttemptIds /\ DOMAIN exams' \subseteq ExamIds
    BY <1>1, <1>4, <1>7, StoredRows
  <2>. QED BY <1>1, <1>3, <1>7, <2>1, <2>2, <2>3, StoredRows DEF TypeOK
<1>11. OpenHasNoResult'
  <2>1. DOMAIN NewExam(r.owner, r.scope, order).result = {}
    BY DEF NewExam
  <2>. QED BY <1>6, <1>7, <2>1 DEF FlightInvariant, OpenHasNoResult
<1>12. PracticeRowWhole'
  BY <1>1, <1>4, <1>5, <1>8, RowsWholeAfter DEF RowWhole
<1>. QED
  BY <1>9, <1>10, <1>11, <1>12 DEF TablesSound

\* A step of one slot leaves the invariant if it leaves the tables sound and its
\* own request in order.
LEMMA FlightKept ==
  ASSUME FlightInvariant, TablesSound, NEW s \in Slots, NEW request,
         Serve(s, request), RequestOK(s)'
  PROVE  FlightInvariant'
<1>1. /\ DOMAIN requests' = Slots
      /\ \A t \in Slots \ {s} : requests'[t] = requests[t]
  BY DEF Serve, FlightInvariant
<1>2. \A t \in Slots : RequestOK(t)'
  BY <1>1, RequestStays DEF FlightInvariant, TablesSound
<1>. QED
  BY <1>1, <1>2 DEF FlightInvariant, TablesSound

LEMMA UnchangedSound ==
  ASSUME FlightInvariant, attempts' = attempts, exams' = exams, catalog' \in Deployments
  PROVE  TablesSound
<1>1. TypeOK' /\ OpenHasNoResult' /\ PracticeRowWhole'
  BY DEF FlightInvariant, TypeOK, OpenHasNoResult, PracticeRowWhole
<1>. QED
  BY <1>1, NothingWritten DEF TablesSound

\* A request that has read and written nothing yet.
LEMMA ReadingKept ==
  ASSUME FlightInvariant, UNCHANGED vars, NEW s \in Slots, NEW request,
         Serve(s, request), RequestOK(s)'
  PROVE  FlightInvariant'
<1>1. TablesSound
  BY StoredRows, UnchangedSound DEF vars
<1>. QED
  BY <1>1, FlightKept

LEMMA FinishedOK ==
  ASSUME FlightInvariant, NEW s \in Slots, Serve(s, Idle)
  PROVE  RequestOK(s)'
  BY DEF FlightInvariant, Serve, RequestOK

LEMMA ServedRequest ==
  ASSUME FlightInvariant, NEW s \in Slots, NEW request, Serve(s, request)
  PROVE  requests'[s] = request
  BY DEF FlightInvariant, Serve

LEMMA OpenBeginKept ==
  ASSUME FlightInvariant, NEW s \in Slots, NEW o \in Owner, NEW x \in Exercises,
         OpenBegin(s, o, x)
  PROVE  FlightInvariant'
<1> DEFINE request == [op |-> "open", at |-> "commit", owner |-> o, ex |-> x,
                       found |-> Superseded(o, x)]
<1>1. Serve(s, request) /\ UNCHANGED vars
  BY DEF OpenBegin
<1>2. requests'[s] = request
  BY <1>1, ServedRequest
<1>3. OpenOK(s)'
  BY <1>1, <1>2 DEF OpenOK, Superseded, vars
<1>. QED
  BY <1>1, <1>3, ReadingKept DEF RequestOK

LEMMA AnswerBeginKept ==
  ASSUME FlightInvariant, NEW s \in Slots, NEW o \in Owner, NEW a \in AttemptIds,
         NEW ans \in Answers, AnswerBegin(s, o, a, ans)
  PROVE  FlightInvariant'
<1> DEFINE request == [op |-> "answer", at |-> "commit", owner |-> o, attempt |-> a,
                       ans |-> ans, seen |-> attempts[a]]
<1>1. /\ Serve(s, request) /\ UNCHANGED vars
      /\ a \in DOMAIN attempts /\ attempts[a].state = "open"
      /\ CrossLane \/ attempts[a].exam = Practice
  BY DEF AnswerBegin
<1>2. requests'[s] = request
  BY <1>1, ServedRequest
<1>3. attempts[a] \in AttemptRow
  BY <1>1, StoredRows
<1>4. attempts[a].exam = Practice => attempts[a].given = None /\ attempts[a].verdict = "none"
  BY <1>1 DEF FlightInvariant, PracticeRowWhole
<1>5. AnswerOK(s)'
  BY <1>1, <1>2, <1>3, <1>4 DEF AnswerOK, vars
<1>. QED
  BY <1>1, <1>5, ReadingKept DEF RequestOK

LEMMA StartBeginKept ==
  ASSUME FlightInvariant, NEW s \in Slots, NEW o \in Owner, NEW scope \in Scope,
         StartBegin(s, o, scope)
  PROVE  FlightInvariant'
<1> DEFINE seen == [e \in OpenSittings(o, scope) |-> exams[e]]
           request == [op |-> "start", at |-> "commit", owner |-> o, scope |-> scope,
                       seen |-> seen]
<1>1. Serve(s, request) /\ UNCHANGED vars
  BY DEF StartBegin
<1>2. requests'[s] = request
  BY <1>1, ServedRequest
<1>3. \A e \in DOMAIN seen : SeenOpen(e, seen[e], o)
  BY StoredRows DEF SeenOpen, OpenSittings, FlightInvariant, OpenHasNoResult
<1> HIDE DEF seen
<1>4. StartOK(s)'
  BY <1>1, <1>2, <1>3 DEF StartOK, SeenOpen, IsExamRow, vars
<1>. QED
  BY <1>1, <1>4, ReadingKept DEF RequestOK

LEMMA ExamAnswerBeginKept ==
  ASSUME FlightInvariant, NEW s \in Slots, NEW o \in Owner, NEW e \in ExamIds,
         NEW a \in AttemptIds, NEW ans \in Answers, ExamAnswerBegin(s, o, e, a, ans)
  PROVE  FlightInvariant'
<1> DEFINE request == [op |-> "examAnswer", at |-> "read", owner |-> o, attempt |-> a,
                       ans |-> ans, seen |-> None]
<1>1. /\ Serve(s, request) /\ UNCHANGED vars
      /\ a \in DOMAIN attempts /\ attempts[a].exam = e /\ e # Practice
  BY ConstantsAssumption DEF ExamAnswerBegin, QuestionsOf
<1>2. requests'[s] = request
  BY <1>1, ServedRequest
<1>3. ExamAnswerOK(s)'
  BY <1>1, <1>2 DEF ExamAnswerOK, vars
<1>. QED
  BY <1>1, <1>3, ReadingKept DEF RequestOK

LEMMA ExamAnswerReadKept ==
  ASSUME FlightInvariant, NEW s \in Slots, ExamAnswerRead(s)
  PROVE  FlightInvariant'
<1> DEFINE r == requests[s]
           given == attempts[r.attempt].given
           request == [r EXCEPT !.at = "commit", !.seen = given]
<1>1. Serve(s, request) /\ UNCHANGED vars
  BY DEF ExamAnswerRead
<1>2. requests'[s] = request
  BY <1>1, ServedRequest
<1>3. ExamAnswerOK(s)
  BY PendingRequest DEF ExamAnswerRead, Pending
<1>4. given \in Answers \cup {None}
  BY <1>3, StoredRows, AttemptRowFields DEF ExamAnswerOK
<1> HIDE DEF given
<1>5. ExamAnswerOK(s)'
  BY <1>1, <1>2, <1>3, <1>4 DEF ExamAnswerOK, vars
<1>. QED
  BY <1>1, <1>5, ReadingKept DEF RequestOK

LEMMA SubmitBeginKept ==
  ASSUME FlightInvariant, NEW s \in Slots, NEW o \in Owner, NEW e \in ExamIds,
         SubmitBegin(s, o, e)
  PROVE  FlightInvariant'
<1> DEFINE rows == [a \in {} |-> None]
           request == [op |-> "submit", at |-> "read", owner |-> o, exam |-> e,
                       seen |-> exams[e], rows |-> rows]
<1>1. Serve(s, request) /\ UNCHANGED vars /\ InProgress(o, e)
  BY DEF SubmitBegin
<1> HIDE DEF rows
<1>2. requests'[s] = request
  BY <1>1, ServedRequest
<1>3. SeenOpen(e, exams[e], o)
  BY <1>1, StoredRows DEF SeenOpen, InProgress, FlightInvariant, OpenHasNoResult
<1>4. SeenOpen(e, exams[e], o)' /\ exams' = exams
  BY <1>1, <1>3 DEF SeenOpen, IsExamRow, vars
<1>5. SubmitOK(s)'
  BY <1>2, <1>4 DEF SubmitOK, SeenOpen
<1>. QED
  BY <1>1, <1>5, ReadingKept DEF RequestOK

LEMMA SubmitReadKept ==
  ASSUME FlightInvariant, NEW s \in Slots, SubmitRead(s)
  PROVE  FlightInvariant'
<1> DEFINE r == requests[s]
           rows == [a \in QuestionsOf(r.exam) |-> attempts[a]]
           request == [r EXCEPT !.at = "commit", !.rows = rows]
<1>1. Serve(s, request) /\ UNCHANGED vars
  BY DEF SubmitRead
<1>2. requests'[s] = request
  BY <1>1, ServedRequest
<1>3. SubmitOK(s)
  BY PendingRequest DEF SubmitRead, Pending
<1>4. /\ DOMAIN rows = QuestionsOf(r.exam)
      /\ \A a \in DOMAIN rows : rows[a] \in AttemptRow
  BY StoredRows DEF QuestionsOf
<1> HIDE DEF rows
<1>5. /\ requests'[s].op = r.op /\ requests'[s].owner = r.owner
      /\ requests'[s].exam = r.exam /\ requests'[s].seen = r.seen
      /\ requests'[s].at = "commit" /\ requests'[s].rows = rows
  BY <1>2, <1>3 DEF SubmitOK
<1>6. SeenOpen(r.exam, r.seen, r.owner)'
  BY <1>1, <1>3, <1>5 DEF SubmitOK, SeenOpen, IsExamRow, vars
<1>7. SubmitOK(s)'
  BY <1>1, <1>2, <1>3, <1>4, <1>6 DEF SubmitOK, QuestionsOf, vars
<1>. QED
  BY <1>1, <1>7, ReadingKept DEF RequestOK

LEMMA AbandonBeginKept ==
  ASSUME FlightInvariant, NEW s \in Slots, NEW o \in Owner, NEW e \in ExamIds,
         AbandonBegin(s, o, e)
  PROVE  FlightInvariant'
<1> DEFINE request == [op |-> "abandon", at |-> "commit", owner |-> o, exam |-> e,
                       seen |-> exams[e]]
<1>1. Serve(s, request) /\ UNCHANGED vars /\ InProgress(o, e)
  BY DEF AbandonBegin
<1>2. requests'[s] = request
  BY <1>1, ServedRequest
<1>3. SeenOpen(e, exams[e], o)
  BY <1>1, StoredRows DEF SeenOpen, InProgress, FlightInvariant, OpenHasNoResult
<1>4. SeenOpen(e, exams[e], o)' /\ exams' = exams
  BY <1>1, <1>3 DEF SeenOpen, IsExamRow, vars
<1>5. AbandonOK(s)'
  BY <1>2, <1>4 DEF AbandonOK, SeenOpen
<1>. QED
  BY <1>1, <1>5, ReadingKept DEF RequestOK

LEMMA CommitKept ==
  ASSUME FlightInvariant, NEW s \in Slots, TablesSound, Serve(s, Idle)
  PROVE  FlightInvariant'
  BY FlightKept, FinishedOK

LEMMA RestartKept == ASSUME FlightInvariant, Restart PROVE FlightInvariant'
<1>1. TablesSound
  BY UnchangedSound DEF Restart
<1>2. DOMAIN requests' = Slots /\ \A s \in Slots : RequestOK(s)'
  BY DEF Restart, RequestOK
<1>. QED
  BY <1>1, <1>2 DEF FlightInvariant, TablesSound

LEMMA InitFlight == RInit => FlightInvariant
<1> SUFFICES ASSUME RInit PROVE FlightInvariant
  OBVIOUS
<1>1. TypeOK
  BY InitTypeOK DEF RInit
<1>2. OpenHasNoResult /\ PracticeRowWhole
  BY DEF RInit, Init, OpenHasNoResult, PracticeRowWhole
<1>3. DOMAIN requests = Slots /\ \A s \in Slots : RequestOK(s)
  BY DEF RInit, RequestOK
<1>. QED
  BY <1>1, <1>2, <1>3 DEF FlightInvariant

LEMMA NextFlight == ASSUME FlightInvariant, [RNext]_rvars PROVE FlightInvariant'
<1>1. ASSUME NEW s \in Slots, NEW o \in Owner, Begin(s, o) PROVE FlightInvariant'
  BY <1>1, OpenBeginKept, AnswerBeginKept, StartBeginKept, ExamAnswerBeginKept,
     SubmitBeginKept, AbandonBeginKept DEF Begin
<1>2. ASSUME NEW s \in Slots, Proceed(s) PROVE FlightInvariant'
  <2>1. CASE ExamAnswerRead(s) \/ SubmitRead(s)
    BY <2>1, ExamAnswerReadKept, SubmitReadKept
  <2>2. CASE OpenCommit(s)
    BY <2>2, OpenCommitSound, CommitKept DEF OpenCommit
  <2>3. CASE AnswerCommit(s)
    BY <2>3, AnswerCommitSound, CommitKept DEF AnswerCommit
  <2>4. CASE StartCommit(s)
    BY <2>4, StartCommitSound, CommitKept DEF StartCommit
  <2>5. CASE ExamAnswerCommit(s)
    BY <2>5, ExamAnswerCommitSound, CommitKept DEF ExamAnswerCommit
  <2>6. CASE SubmitCommit(s)
    BY <2>6, SubmitCommitSound, CommitKept DEF SubmitCommit
  <2>7. CASE AbandonCommit(s)
    BY <2>7, AbandonCommitSound, CommitKept DEF AbandonCommit
  <2>. QED BY <1>2, <2>1, <2>2, <2>3, <2>4, <2>5, <2>6, <2>7 DEF Proceed
<1>3. CASE UNCHANGED rvars
  <2>1. TablesSound
    BY <1>3, StoredRows, UnchangedSound DEF rvars
  <2>2. requests' = requests
    BY <1>3 DEF rvars
  <2>3. \A s \in Slots : RequestOK(s)'
    BY <2>1, <2>2, RequestStays DEF FlightInvariant, TablesSound
  <2>. QED BY <2>1, <2>2, <2>3 DEF FlightInvariant, TablesSound
<1>. QED
  BY <1>1, <1>2, <1>3, RestartKept DEF RNext

LEMMA ProceedRows == ASSUME FlightInvariant, NEW s \in Slots, Proceed(s) PROVE RowsStay
<1>1. CASE ExamAnswerRead(s) \/ SubmitRead(s)
  BY <1>1, NothingWritten DEF ExamAnswerRead, SubmitRead, vars
<1>. QED
  BY <1>1, OpenCommitSound, AnswerCommitSound, StartCommitSound, ExamAnswerCommitSound,
     SubmitCommitSound, AbandonCommitSound DEF Proceed, TablesSound

LEMMA FlightHolds == RSpec => []FlightInvariant
  BY InitFlight, NextFlight, PTL DEF RSpec

\* A request in flight only remembers rows that exist, and the tables stay typed,
\* whatever overlaps.
THEOREM RequestsSound == RSpec => []RequestsOK
<1>1. FlightInvariant => RequestsOK
  <2> SUFFICES ASSUME FlightInvariant, NEW s \in Slots, requests[s] # Idle
               PROVE  LET r == requests[s] IN
                      /\ r.op \in Operations
                      /\ r.owner \in Owner
                      /\ r.op \in {"submit", "abandon"} => r.exam \in DOMAIN exams
                      /\ r.op \in {"answer", "examAnswer"} => r.attempt \in DOMAIN attempts
                      /\ r.op = "open" => r.found \subseteq DOMAIN attempts
                      /\ r.op = "start" => DOMAIN r.seen \subseteq DOMAIN exams
    BY DEF RequestsOK, FlightInvariant
  <2>1. RequestOK(s)
    BY DEF FlightInvariant
  <2>. QED BY <2>1 DEF RequestOK, Operations, OpenOK, AnswerOK, StartOK, ExamAnswerOK,
                       SubmitOK, AbandonOK, SeenOpen
<1>. QED
  BY <1>1, FlightHolds, PTL

\* A practice row never mixes two requests, whatever overlaps: it holds one answer
\* and its grade, or neither (attempts/service.py:128-131).
THEOREM PracticeRowsWhole == RSpec => []PracticeRowWhole
<1>1. FlightInvariant => PracticeRowWhole
  BY DEF FlightInvariant
<1>. QED
  BY <1>1, FlightHolds, PTL

----------------------------------------------------------------------------
(* What a submitted exam keeps.                                            *)

\* The row is the same but for what it shows as given.
SameButGiven(row, after) == after = [row EXCEPT !.given = after.given]

LEMMA UnchangedRow == ASSUME NEW row \in AttemptRow PROVE SameButGiven(row, row)
  BY DEF SameButGiven, AttemptRow

\* What a commit does to an exam it does not submit: nothing but answers, or it
\* closes it; and an exam it adds has fresh questions.
Untouched(e) ==
  /\ exams'[e] = exams[e]
  /\ \A a \in QuestionsOf(e) : SameButGiven(attempts[a], attempts'[a])

ClosedLate(e) ==
  /\ exams'[e].status = "abandoned" /\ exams'[e].owner = exams[e].owner
  /\ DOMAIN exams'[e].result = {}
  /\ \A a \in QuestionsOf(e) : attempts'[a] = Abandoned(attempts[a])

AddedFresh(e) ==
  /\ exams'[e].status = "open" /\ DOMAIN exams'[e].result = {}
  /\ \A a \in DOMAIN attempts' :
       attempts'[a].exam = e =>
         /\ attempts'[a].owner = exams'[e].owner
         /\ attempts'[a].state = "open" /\ attempts'[a].verdict = "none"

LEMMA CommitScope ==
  ASSUME FlightInvariant, ~CrossLane, NEW s \in Slots, Proceed(s)
  PROVE  /\ \A e \in DOMAIN exams :
              \/ Untouched(e)
              \/ ClosedLate(e) /\ Closing(s, e) /\ requests'[s] = Idle
              \/ SubmitCommit(s) /\ requests[s].exam = e
         /\ \A e \in DOMAIN exams' \ DOMAIN exams : AddedFresh(e)
<1> DEFINE r == requests[s]
<1>1. \A e \in DOMAIN exams : \A a \in QuestionsOf(e) :
        /\ a \in DOMAIN attempts /\ attempts[a] \in AttemptRow
        /\ attempts[a].exam = e /\ e # Practice
        /\ SameButGiven(attempts[a], attempts[a])
  BY StoredRows, UnchangedRow DEF QuestionsOf
<1>2. CASE ExamAnswerRead(s) \/ SubmitRead(s)
  BY <1>1, <1>2 DEF ExamAnswerRead, SubmitRead, vars, Untouched
<1>3. CASE OpenCommit(s)
  <2>1. \A a \in StillOpen(r.found) : attempts[a].exam = Practice
    BY <1>3, PendingRequest DEF OpenCommit, Pending, OpenOK, StillOpen
  <2>2. \A a \in DOMAIN attempts : attempts[a].exam # Practice => attempts'[a] = attempts[a]
    BY <1>3, <2>1, OpenCommitEffect
  <2>3. \A e \in DOMAIN exams : \A a \in QuestionsOf(e) : attempts'[a] = attempts[a]
    BY <1>1, <2>2
  <2>. QED BY <1>1, <1>3, <2>3 DEF OpenCommit, Untouched
<1>4. CASE AnswerCommit(s)
  <2>1. attempts[r.attempt].exam = Practice
    BY <1>4, PendingRequest DEF AnswerCommit, Pending, AnswerOK
  <2>2. \A a \in DOMAIN attempts : attempts[a].exam # Practice => attempts'[a] = attempts[a]
    BY <1>4, <2>1, AnswerCommitEffect
  <2>3. \A e \in DOMAIN exams : \A a \in QuestionsOf(e) : attempts'[a] = attempts[a]
    BY <1>1, <2>2
  <2>. QED BY <1>1, <1>4, <2>3 DEF AnswerCommit, Untouched
<1>5. CASE StartCommit(s)
  <2> PICK f, new, order : StartedLate(s, f, new, order)
    BY <1>5, StartCommitEffect
  <2>1. /\ f \in ExamIds /\ f \notin DOMAIN exams
        /\ new \subseteq FreshAttempts
        /\ DOMAIN attempts' = DOMAIN attempts \cup new
        /\ \A a \in new : \E x \in Exercises : attempts'[a] = NewAttempt(r.owner, x, f)
        /\ \A a \in DOMAIN attempts :
             attempts'[a] = IF attempts[a].exam \in DOMAIN r.seen
                            THEN Abandoned(attempts[a]) ELSE attempts[a]
    BY DEF StartedLate
  <2>2. exams' = [e \in DOMAIN exams \cup {f} |->
                    IF e = f THEN NewExam(r.owner, r.scope, order)
                    ELSE IF e \in DOMAIN r.seen
                    THEN [r.seen[e] EXCEPT !.status = "abandoned"]
                    ELSE exams[e]]
    BY DEF StartedLate
  <2>3. \A e \in DOMAIN r.seen : SeenOpen(e, r.seen[e], r.owner)
    BY <1>5, PendingRequest DEF StartCommit, Pending, StartOK
  <2>4. ASSUME NEW e \in DOMAIN exams, e \in DOMAIN r.seen PROVE ClosedLate(e)
    <3>1. exams'[e] = [r.seen[e] EXCEPT !.status = "abandoned"]
      BY <2>1, <2>2, <2>4
    <3>2. /\ exams'[e].status = "abandoned" /\ exams'[e].owner = exams[e].owner
          /\ DOMAIN exams'[e].result = {}
      BY <2>3, <2>4, <3>1 DEF SeenOpen, IsExamRow
    <3>3. \A a \in QuestionsOf(e) : attempts'[a] = Abandoned(attempts[a])
      BY <1>1, <2>1, <2>4
    <3>. QED BY <3>2, <3>3 DEF ClosedLate
  <2>5. ASSUME NEW e \in DOMAIN exams, e \notin DOMAIN r.seen PROVE Untouched(e)
    <3>1. exams'[e] = exams[e]
      BY <2>1, <2>2, <2>5
    <3>. QED BY <1>1, <2>1, <2>5, <3>1 DEF Untouched
  <2>6. AddedFresh(f)
    <3>1. exams'[f] = NewExam(r.owner, r.scope, order)
      BY <2>2
    <3>2. /\ exams'[f].status = "open" /\ exams'[f].owner = r.owner
          /\ DOMAIN exams'[f].result = {}
      BY <3>1 DEF NewExam
    <3>3. ASSUME NEW a \in DOMAIN attempts PROVE attempts'[a].exam # f
      <4>1. attempts[a] \in AttemptRow /\ attempts[a].exam # f
        BY <2>1, StoredRows, ConstantsAssumption
      <4>. QED BY <2>1, <4>1, AbandonedRow
    <3>4. \A a \in new : /\ attempts'[a].owner = r.owner
                         /\ attempts'[a].state = "open" /\ attempts'[a].verdict = "none"
      BY <2>1 DEF NewAttempt
    <3>. QED BY <2>1, <3>2, <3>3, <3>4 DEF AddedFresh
  <2>7. requests'[s] = Idle /\ \A e \in DOMAIN r.seen : Closing(s, e)
    BY <1>5, ServedRequest DEF StartCommit, Pending, Closing
  <2>. QED BY <2>2, <2>4, <2>5, <2>6, <2>7
<1>6. CASE ExamAnswerCommit(s)
  <2> DEFINE given == Column(r.seen, r.ans, attempts[r.attempt].given)
  <2>1. /\ attempts'[r.attempt] = [attempts[r.attempt] EXCEPT !.given = given]
        /\ \A a \in DOMAIN attempts \ {r.attempt} : attempts'[a] = attempts[a]
    BY <1>6, ExamAnswerCommitEffect
  <2> HIDE DEF given
  <2>2. \A a \in DOMAIN attempts : SameButGiven(attempts[a], attempts'[a])
    <3> TAKE a \in DOMAIN attempts
    <3>1. attempts[a] \in AttemptRow
      BY StoredRows
    <3>2. CASE a = r.attempt
      BY <2>1, <3>1, <3>2 DEF SameButGiven, AttemptRow
    <3>3. CASE a # r.attempt
      BY <2>1, <3>1, <3>3, UnchangedRow
    <3>. QED BY <3>2, <3>3
  <2>. QED BY <1>1, <1>6, <2>2 DEF ExamAnswerCommit, Untouched
<1>7. CASE SubmitCommit(s)
  <2> DEFINE c == r.owner.course
             result == [a \in DOMAIN r.rows |-> ResultEntry(c, r.rows[a])]
             row == [r.seen EXCEPT !.status = "submitted", !.result = result]
  <2>1. /\ attempts' = [a \in DOMAIN attempts |->
                          IF a \in QuestionsOf(r.exam)
                          THEN LateGraded(c, r.rows[a], attempts[a]) ELSE attempts[a]]
        /\ exams' = [f \in DOMAIN exams |-> IF f = r.exam THEN row ELSE exams[f]]
    BY <1>7, SubmitCommitEffect
  <2> HIDE DEF row, c
  <2>2. ASSUME NEW e \in DOMAIN exams, e # r.exam PROVE Untouched(e)
    <3>1. \A a \in QuestionsOf(e) : attempts'[a] = attempts[a]
      BY <1>1, <2>1, <2>2 DEF QuestionsOf
    <3>. QED BY <1>1, <2>1, <2>2, <3>1 DEF Untouched
  <2>. QED BY <1>7, <2>1, <2>2
<1>8. CASE AbandonCommit(s)
  <2> DEFINE row == [r.seen EXCEPT !.status = "abandoned"]
  <2>1. /\ attempts' = [a \in DOMAIN attempts |->
                          IF a \in QuestionsOf(r.exam) THEN Abandoned(attempts[a])
                          ELSE attempts[a]]
        /\ exams' = [f \in DOMAIN exams |-> IF f = r.exam THEN row ELSE exams[f]]
    BY <1>8, AbandonCommitEffect
  <2>2. SeenOpen(r.exam, r.seen, r.owner)
    BY <1>8, PendingRequest DEF AbandonCommit, Pending, AbandonOK
  <2>3. /\ row.status = "abandoned" /\ row.owner = exams[r.exam].owner
        /\ DOMAIN row.result = {}
    BY <2>2 DEF SeenOpen, IsExamRow
  <2> HIDE DEF row
  <2>4. ASSUME NEW e \in DOMAIN exams, e # r.exam PROVE Untouched(e)
    <3>1. \A a \in QuestionsOf(e) : attempts'[a] = attempts[a]
      BY <1>1, <2>1, <2>4 DEF QuestionsOf
    <3>. QED BY <1>1, <2>1, <2>4, <3>1 DEF Untouched
  <2>5. ClosedLate(r.exam)
    BY <1>1, <2>1, <2>2, <2>3 DEF ClosedLate, SeenOpen
  <2>6. requests'[s] = Idle /\ Closing(s, r.exam)
    BY <1>8, ServedRequest DEF AbandonCommit, Pending, Closing
  <2>. QED BY <2>1, <2>4, <2>5, <2>6
<1>. QED
  BY <1>2, <1>3, <1>4, <1>5, <1>6, <1>7, <1>8 DEF Proceed

\* What will close an exam found it open.
LEMMA NoClosingBegins ==
  ASSUME FlightInvariant, [RNext]_rvars,
         NEW e \in DOMAIN exams, exams[e].status = "submitted",
         NEW t \in Slots, Closing(t, e)'
  PROVE  Closing(t, e)
<1>1. CASE requests'[t] = requests[t]
  BY <1>1 DEF Closing
<1>2. CASE requests'[t] = Idle
  BY <1>2 DEF Closing, Idle
<1>3. ASSUME NEW s \in Slots, NEW request, Serve(s, request)
      PROVE  requests'[t] = IF s = t THEN request ELSE requests[t]
  BY <1>3 DEF FlightInvariant, Serve
<1>4. ASSUME NEW s \in Slots, NEW o \in Owner, Begin(s, o) PROVE Closing(t, e)
  <2>1. CASE \E scope \in Scope : StartBegin(s, o, scope)
    <3> PICK scope \in Scope : StartBegin(s, o, scope)
      BY <2>1
    <3> DEFINE seen == [f \in OpenSittings(o, scope) |-> exams[f]]
               request == [op |-> "start", at |-> "commit", owner |-> o, scope |-> scope,
                           seen |-> seen]
    <3>1. Serve(s, request) /\ e \notin DOMAIN seen
      BY DEF StartBegin, OpenSittings
    <3>2. requests'[t] = requests[t] \/ requests'[t] = request
      BY <1>3, <3>1
    <3> HIDE DEF seen
    <3>3. requests'[t] = request => ~Closing(t, e)'
      BY <3>1 DEF Closing
    <3>. QED BY <1>1, <3>2, <3>3
  <2>2. CASE \E f \in ExamIds : SubmitBegin(s, o, f) \/ AbandonBegin(s, o, f)
    <3> PICK f \in ExamIds : SubmitBegin(s, o, f) \/ AbandonBegin(s, o, f)
      BY <2>2
    <3>1. f # e
      BY DEF SubmitBegin, AbandonBegin, InProgress
    <3>2. PICK request : Serve(s, request) /\ request.op \in {"submit", "abandon"}
                           /\ request.exam = f
      BY DEF SubmitBegin, AbandonBegin
    <3>3. requests'[t] = requests[t] \/ requests'[t] = request
      BY <1>3, <3>2
    <3>4. requests'[t] = request => ~Closing(t, e)'
      BY <3>1, <3>2 DEF Closing
    <3>. QED BY <1>1, <3>3, <3>4
  <2>3. CASE \E request : Serve(s, request) /\ request.op \in {"open", "answer", "examAnswer"}
    <3>1. PICK request : Serve(s, request) /\ request.op \in {"open", "answer", "examAnswer"}
      BY <2>3
    <3>2. requests'[t] = requests[t] \/ requests'[t] = request
      BY <1>3, <3>1
    <3>3. requests'[t] = request => ~Closing(t, e)'
      BY <3>1 DEF Closing
    <3>. QED BY <1>1, <3>2, <3>3
  <2>4. ASSUME NEW x \in Exercises, OpenBegin(s, o, x) PROVE Closing(t, e)
    BY <2>3, <2>4 DEF OpenBegin
  <2>5. ASSUME NEW a \in AttemptIds, NEW ans \in Answers, AnswerBegin(s, o, a, ans)
        PROVE  Closing(t, e)
    BY <2>3, <2>5 DEF AnswerBegin
  <2>6. ASSUME NEW f \in ExamIds, NEW a \in AttemptIds, NEW ans \in Answers,
               ExamAnswerBegin(s, o, f, a, ans)
        PROVE  Closing(t, e)
    BY <2>3, <2>6 DEF ExamAnswerBegin
  <2>. QED BY <1>4, <2>1, <2>2, <2>4, <2>5, <2>6 DEF Begin
<1>5. ASSUME NEW s \in Slots, ExamAnswerRead(s) PROVE Closing(t, e)
  <2> DEFINE given == attempts[requests[s].attempt].given
             request == [requests[s] EXCEPT !.at = "commit", !.seen = given]
  <2>1. ExamAnswerOK(s) /\ Serve(s, request)
    BY <1>5, PendingRequest DEF ExamAnswerRead, Pending
  <2> HIDE DEF given
  <2>2. request.op = "examAnswer"
    BY <2>1 DEF ExamAnswerOK
  <2>3. requests'[t] = requests[t] \/ requests'[t] = request
    BY <1>3, <2>1
  <2>4. requests'[t] = request => ~Closing(t, e)'
    BY <2>2 DEF Closing
  <2>. QED BY <1>1, <2>3, <2>4
<1>6. ASSUME NEW s \in Slots, SubmitRead(s) PROVE Closing(t, e)
  <2> DEFINE rows == [a \in QuestionsOf(requests[s].exam) |-> attempts[a]]
             request == [requests[s] EXCEPT !.at = "commit", !.rows = rows]
  <2>1. SubmitOK(s) /\ Serve(s, request)
    BY <1>6, PendingRequest DEF SubmitRead, Pending
  <2> HIDE DEF rows
  <2>2. request.op = "submit" /\ requests[s].op = "submit" /\ request.exam = requests[s].exam
    BY <2>1 DEF SubmitOK
  <2>3. requests'[t] = requests[t] \/ (s = t /\ requests'[t] = request)
    BY <1>3, <2>1
  <2>4. s = t /\ requests'[t] = request => Closing(t, e)
    BY <2>2 DEF Closing
  <2>. QED BY <1>1, <2>3, <2>4
<1>7. ASSUME NEW s \in Slots, Serve(s, Idle) PROVE Closing(t, e)
  BY <1>1, <1>2, <1>3, <1>7
<1>8. CASE Restart \/ UNCHANGED rvars
  BY <1>1, <1>2, <1>8 DEF Restart, rvars
<1>. QED
  BY <1>4, <1>5, <1>6, <1>7, <1>8 DEF RNext, Proceed, OpenCommit, AnswerCommit,
     StartCommit, ExamAnswerCommit, SubmitCommit, AbandonCommit

\* A commit that does more to a submitted exam than replace an answer closes it,
\* and was in flight to do so.
LEMMA StepGradingStands ==
  ASSUME FlightInvariant, ~CrossLane, [RNext]_rvars,
         NEW e \in DOMAIN exams, exams[e].status = "submitted"
  PROVE  \/ /\ exams'[e] = exams[e]
            /\ \A a \in QuestionsOf(e) :
                 attempts'[a] = [attempts[a] EXCEPT !.given = attempts'[a].given]
         \/ \E s \in Slots : Closing(s, e) /\ requests'[s] = Idle
<1>1. CASE attempts' = attempts /\ exams' = exams
  BY <1>1, StoredRows, UnchangedRow DEF QuestionsOf, SameButGiven
<1>2. ASSUME NEW s \in Slots, NEW o \in Owner, Begin(s, o)
      PROVE  attempts' = attempts /\ exams' = exams
  BY <1>2 DEF Begin, OpenBegin, AnswerBegin, StartBegin, ExamAnswerBegin, SubmitBegin,
              AbandonBegin, vars
<1>3. CASE Restart \/ UNCHANGED rvars
  BY <1>1, <1>3 DEF Restart, rvars
<1>4. ASSUME NEW s \in Slots, Proceed(s)
      PROVE  Untouched(e) \/ (Closing(s, e) /\ requests'[s] = Idle)
  <2>1. SubmitCommit(s) /\ requests[s].exam = e => Closing(s, e) /\ requests'[s] = Idle
    BY ServedRequest DEF SubmitCommit, Pending, Closing
  <2>. QED BY <1>4, <2>1, CommitScope
<1>. QED
  BY <1>1, <1>2, <1>3, <1>4 DEF RNext, Untouched, SameButGiven

\* Whatever overlaps, the result, the verdicts and the numbering of a submitted
\* exam change only when a request commits that found it open, and no new one
\* does; short of them a late answer replaces what was given
\* (exams/service.py:140-145, 370-386).  Only a client that posts exam questions
\* to the practice route is left out.
THEOREM GradingStaysPut == ASSUME ~CrossLane PROVE RSpec => GradingStands
<1>1. FlightInvariant /\ [RNext]_rvars =>
        [\A e \in DOMAIN exams : exams[e].status = "submitted" =>
           /\ \/ /\ exams'[e] = exams[e]
                 /\ \A a \in QuestionsOf(e) :
                      attempts'[a] = [attempts[a] EXCEPT !.given = attempts'[a].given]
              \/ \E s \in Slots : Closing(s, e) /\ requests'[s] = Idle
           /\ \A s \in Slots : Closing(s, e)' => Closing(s, e)]_rvars
  BY StepGradingStands, NoClosingBegins
<1>. QED
  BY <1>1, FlightHolds, PTL DEF RSpec, GradingStands

----------------------------------------------------------------------------
(* How much overlapping openings leave open.                               *)

\* Of what is open, the part that none of `some` requests has found, and those
\* requests, which will each add a row.
Bounded(open, waiting, found) ==
  \A some \in SUBSET waiting :
    LET left == open \ UNION {found[s] : s \in some}
    IN  IsFiniteSet(left) /\ Cardinality(left) + Cardinality(some) <= Cardinality(Slots)

\* Rows are closed, and requests are dropped.
LEMMA BoundedShrinks ==
  ASSUME IsFiniteSet(Slots), NEW open, NEW waiting \in SUBSET Slots, NEW found,
         Bounded(open, waiting, found),
         NEW less \in SUBSET open, NEW fewer \in SUBSET waiting, NEW same,
         \A s \in fewer : same[s] = found[s]
  PROVE  Bounded(less, fewer, same)
<1> SUFFICES ASSUME NEW some \in SUBSET fewer
             PROVE  LET left == less \ UNION {same[s] : s \in some}
                    IN  /\ IsFiniteSet(left)
                        /\ Cardinality(left) + Cardinality(some) <= Cardinality(Slots)
  BY DEF Bounded
<1> DEFINE before == open \ UNION {found[s] : s \in some}
           left == less \ UNION {same[s] : s \in some}
<1>1. IsFiniteSet(before) /\ Cardinality(before) + Cardinality(some) <= Cardinality(Slots)
  BY DEF Bounded
<1>2. left \subseteq before
  OBVIOUS
<1>3. IsFiniteSet(some)
  BY FS_Subset
<1> HIDE DEF before, left
<1>4. IsFiniteSet(left) /\ Cardinality(left) <= Cardinality(before)
  BY <1>1, <1>2, FS_Subset
<1>5. /\ Cardinality(left) \in Nat /\ Cardinality(before) \in Nat
      /\ Cardinality(some) \in Nat /\ Cardinality(Slots) \in Nat
  BY <1>1, <1>3, <1>4, FS_CardinalityType
<1>6. Cardinality(left) + Cardinality(some) <= Cardinality(Slots)
  BY <1>1, <1>4, <1>5
<1>. QED
  BY <1>4, <1>6 DEF left

\* A request begins, and finds what is open.
LEMMA BoundedBegins ==
  ASSUME IsFiniteSet(Slots), NEW open, NEW waiting \in SUBSET Slots, NEW found,
         Bounded(open, waiting, found),
         NEW s \in Slots, NEW after, \A t \in waiting \ {s} : after[t] = found[t],
         open \subseteq after[s]
  PROVE  Bounded(open, waiting \cup {s}, after)
<1> SUFFICES ASSUME NEW some \in SUBSET (waiting \cup {s})
             PROVE  LET left == open \ UNION {after[t] : t \in some}
                    IN  /\ IsFiniteSet(left)
                        /\ Cardinality(left) + Cardinality(some) <= Cardinality(Slots)
  BY DEF Bounded
<1>1. CASE s \in some
  <2>1. open \ UNION {after[t] : t \in some} = {}
    BY <1>1
  <2>2. IsFiniteSet({}) /\ Cardinality({}) = 0
    BY FS_EmptySet
  <2>3. /\ Cardinality(some) <= Cardinality(Slots)
        /\ Cardinality(some) \in Nat /\ Cardinality(Slots) \in Nat
    BY FS_Subset, FS_CardinalityType
  <2>. QED BY <2>1, <2>2, <2>3
<1>2. CASE s \notin some
  <2>1. some \in SUBSET waiting /\ \A t \in some : after[t] = found[t]
    BY <1>2
  <2>2. open \ UNION {after[t] : t \in some} = open \ UNION {found[t] : t \in some}
    BY <2>1
  <2>. QED BY <2>1, <2>2 DEF Bounded
<1>. QED
  BY <1>1, <1>2

\* A request commits: what it found is closed, and one row is added.
LEMMA BoundedCommits ==
  ASSUME IsFiniteSet(Slots), NEW open, NEW waiting \in SUBSET Slots, NEW found,
         Bounded(open, waiting, found),
         NEW s \in waiting, NEW new, NEW less \in SUBSET ((open \ found[s]) \cup {new}),
         NEW fewer \in SUBSET (waiting \ {s}), NEW same,
         \A t \in fewer : same[t] = found[t]
  PROVE  Bounded(less, fewer, same)
<1> SUFFICES ASSUME NEW some \in SUBSET fewer
             PROVE  LET left == less \ UNION {same[t] : t \in some}
                    IN  /\ IsFiniteSet(left)
                        /\ Cardinality(left) + Cardinality(some) <= Cardinality(Slots)
  BY DEF Bounded
<1> DEFINE more == some \cup {s}
           before == open \ UNION {found[t] : t \in more}
           left == less \ UNION {same[t] : t \in some}
<1>1. IsFiniteSet(before) /\ Cardinality(before) + Cardinality(more) <= Cardinality(Slots)
  <2>1. more \in SUBSET waiting
    OBVIOUS
  <2>. QED BY <2>1 DEF Bounded
<1>2. left \subseteq before \cup {new}
  OBVIOUS
<1>3. IsFiniteSet(some) /\ s \notin some
  BY FS_Subset
<1>4. IsFiniteSet(more) /\ Cardinality(more) = Cardinality(some) + 1
  BY <1>3, FS_AddElement
<1> HIDE DEF before, left, more
<1>5. /\ IsFiniteSet(before \cup {new})
      /\ Cardinality(before \cup {new}) <= Cardinality(before) + 1
  <2>1. Cardinality(before) \in Nat
    BY <1>1, FS_CardinalityType
  <2>2. IsFiniteSet(before)
    BY <1>1
  <2>3. /\ IsFiniteSet(before \cup {new})
        /\ Cardinality(before \cup {new}) =
             IF new \in before THEN Cardinality(before) ELSE Cardinality(before) + 1
    BY <2>2, FS_AddElement
  <2>. QED BY <2>1, <2>3
<1>6. IsFiniteSet(left) /\ Cardinality(left) <= Cardinality(before \cup {new})
  BY <1>2, <1>5, FS_Subset
<1>7. /\ Cardinality(left) \in Nat /\ Cardinality(before) \in Nat
      /\ Cardinality(before \cup {new}) \in Nat
      /\ Cardinality(some) \in Nat /\ Cardinality(Slots) \in Nat
  BY <1>1, <1>3, <1>5, <1>6, FS_CardinalityType
<1>8. Cardinality(left) + Cardinality(some) <= Cardinality(Slots)
  BY <1>1, <1>4, <1>5, <1>6, <1>7
<1>. QED
  BY <1>6, <1>8 DEF left

\* What each request in flight found, as functions of its slot.
Found == [s \in Slots |-> requests[s].found]
FoundSittings == [s \in Slots |-> DOMAIN requests[s].seen]

ExcessInvariant ==
  /\ FlightInvariant
  /\ \A o \in Owner, x \in Exercises :
       Bounded(Superseded(o, x), Opening(o, x), Found)
  /\ \A o \in Owner, scope \in Scope :
       Bounded(OpenSittings(o, scope), Starting(o, scope), FoundSittings)

\* A slot that goes on is not opening or starting any more; before, only a commit
\* of that kind could end it.
LEMMA SlotsEnd ==
  ASSUME FlightInvariant, NEW s \in Slots, Proceed(s)
  PROVE  /\ requests'[s].op \notin {"open", "start"}
         /\ \A o, x : s \in Opening(o, x) => OpenCommit(s)
         /\ \A o, scope : s \in Starting(o, scope) => StartCommit(s)
<1>1. CASE Serve(s, Idle)
  <2>1. requests'[s] = Idle
    BY <1>1, ServedRequest
  <2>2. /\ requests[s].op = "open" => OpenCommit(s)
        /\ requests[s].op = "start" => StartCommit(s)
    BY DEF Proceed, Pending, AnswerCommit, ExamAnswerRead, ExamAnswerCommit, SubmitRead,
           SubmitCommit, AbandonCommit, OpenCommit, StartCommit
  <2>. QED BY <2>1, <2>2 DEF Idle, Opening, Starting
<1>2. CASE ExamAnswerRead(s)
  <2> DEFINE given == attempts[requests[s].attempt].given
             request == [requests[s] EXCEPT !.at = "commit", !.seen = given]
  <2>1. ExamAnswerOK(s) /\ Serve(s, request)
    BY <1>2, PendingRequest DEF ExamAnswerRead, Pending
  <2> HIDE DEF given
  <2>2. request.op = "examAnswer" /\ requests[s].op = "examAnswer"
    BY <2>1 DEF ExamAnswerOK
  <2>3. requests'[s] = request
    BY <2>1, ServedRequest
  <2>. QED BY <2>2, <2>3 DEF Opening, Starting
<1>3. CASE SubmitRead(s)
  <2> DEFINE rows == [a \in QuestionsOf(requests[s].exam) |-> attempts[a]]
             request == [requests[s] EXCEPT !.at = "commit", !.rows = rows]
  <2>1. SubmitOK(s) /\ Serve(s, request)
    BY <1>3, PendingRequest DEF SubmitRead, Pending
  <2> HIDE DEF rows
  <2>2. request.op = "submit" /\ requests[s].op = "submit"
    BY <2>1 DEF SubmitOK
  <2>3. requests'[s] = request
    BY <2>1, ServedRequest
  <2>. QED BY <2>2, <2>3 DEF Opening, Starting
<1>. QED
  BY <1>1, <1>2, <1>3 DEF Proceed, OpenCommit, AnswerCommit, StartCommit,
     ExamAnswerCommit, SubmitCommit, AbandonCommit

\* No other commit reopens a row, or adds one to practice.
LEMMA CommitReopensNothing ==
  ASSUME FlightInvariant, NEW s \in Slots, Proceed(s), ~OpenCommit(s)
  PROVE  /\ \A a \in DOMAIN attempts :
              attempts'[a].state = "open" => attempts[a].state = "open"
         /\ \A a \in DOMAIN attempts' \ DOMAIN attempts : attempts'[a].exam # Practice
<1> DEFINE r == requests[s]
<1>1. \A a \in DOMAIN attempts : attempts[a] \in AttemptRow
  BY StoredRows
<1>2. CASE ExamAnswerRead(s) \/ SubmitRead(s)
  BY <1>2 DEF ExamAnswerRead, SubmitRead, vars
<1>3. CASE AnswerCommit(s)
  <2>1. AnswerOK(s)
    BY <1>3, PendingRequest DEF AnswerCommit, Pending
  <2>2. attempts[r.attempt] \in AttemptRow
    BY <1>1, <2>1 DEF AnswerOK
  <2>3. /\ DOMAIN attempts' = DOMAIN attempts
        /\ \A a \in DOMAIN attempts \ {r.attempt} : attempts'[a] = attempts[a]
    BY <1>3, AnswerCommitEffect
  <2>4. attempts'[r.attempt].state = "answered"
    BY <1>3, <2>2, AnswerCommitEffect DEF AttemptRow
  <2>. QED BY <2>3, <2>4
<1>4. CASE StartCommit(s)
  <2> PICK f, new, order : StartedLate(s, f, new, order)
    BY <1>4, StartCommitEffect
  <2>1. \A a \in new : attempts'[a].exam # Practice
    BY ConstantsAssumption DEF StartedLate, NewAttempt
  <2>2. \A a \in DOMAIN attempts : Abandoned(attempts[a]).state = "abandoned"
    BY <1>1, AbandonedRow
  <2>. QED BY <2>1, <2>2 DEF StartedLate
<1>5. CASE ExamAnswerCommit(s)
  <2>1. ExamAnswerOK(s)
    BY <1>5, PendingRequest DEF ExamAnswerCommit, Pending
  <2>2. attempts[r.attempt] \in AttemptRow
    BY <1>1, <2>1 DEF ExamAnswerOK
  <2>3. /\ DOMAIN attempts' = DOMAIN attempts
        /\ \A a \in DOMAIN attempts \ {r.attempt} : attempts'[a] = attempts[a]
    BY <1>5, ExamAnswerCommitEffect
  <2>4. attempts'[r.attempt].state = attempts[r.attempt].state
    BY <1>5, <2>2, ExamAnswerCommitEffect DEF AttemptRow
  <2>. QED BY <2>3, <2>4
<1>6. CASE SubmitCommit(s)
  <2>1. /\ DOMAIN r.rows = QuestionsOf(r.exam)
        /\ \A a \in DOMAIN r.rows : r.rows[a] \in AttemptRow
    BY <1>6, PendingRequest DEF SubmitCommit, Pending, SubmitOK
  <2>2. attempts' = [a \in DOMAIN attempts |->
                       IF a \in QuestionsOf(r.exam)
                       THEN LateGraded(r.owner.course, r.rows[a], attempts[a])
                       ELSE attempts[a]]
    BY <1>6, SubmitCommitEffect
  <2>3. \A a \in QuestionsOf(r.exam) :
          LateGraded(r.owner.course, r.rows[a], attempts[a]).state \in
            {attempts[a].state, "answered"}
    <3> SUFFICES ASSUME NEW a \in QuestionsOf(r.exam)
                 PROVE  LateGraded(r.owner.course, r.rows[a], attempts[a]).state \in
                          {attempts[a].state, "answered"}
      OBVIOUS
    <3>1. attempts[a] \in AttemptRow /\ r.rows[a] \in AttemptRow
      BY <1>1, <2>1 DEF QuestionsOf
    <3>2. LateGraded(r.owner.course, r.rows[a], attempts[a]).state =
            Column(r.rows[a].state, "answered", attempts[a].state)
      <4>1. ASSUME NEW c, NEW seen \in AttemptRow, NEW row \in AttemptRow
            PROVE  LateGraded(c, seen, row).state = Column(seen.state, "answered", row.state)
        BY LateGradedRow
      <4>. QED BY <3>1, <4>1
    <3>. QED BY <3>2 DEF Column
  <2>. QED BY <2>2, <2>3
<1>7. CASE AbandonCommit(s)
  <2>1. \A a \in DOMAIN attempts : Abandoned(attempts[a]).state = "abandoned"
    BY <1>1, AbandonedRow
  <2>. QED BY <1>7, <2>1, AbandonCommitEffect
<1>. QED
  BY <1>2, <1>3, <1>4, <1>5, <1>6, <1>7 DEF Proceed

\* The practice rows that are open after a commit.
LEMMA CommitLeavesOpen ==
  ASSUME FlightInvariant, NEW s \in Slots, Proceed(s), NEW o, NEW x
  PROVE  IF s \in Opening(o, x)
         THEN \E new : Superseded(o, x)' \subseteq
                         (Superseded(o, x) \ requests[s].found) \cup {new}
         ELSE Superseded(o, x)' \subseteq Superseded(o, x)
<1> DEFINE r == requests[s]
<1>1. \A a \in DOMAIN attempts : attempts[a] \in AttemptRow
  BY StoredRows
<1>2. CASE OpenCommit(s)
  <2>1. OpenOK(s) /\ r.op = "open"
    BY <1>2, PendingRequest DEF OpenCommit, Pending
  <2>2. PICK new \in FreshAttempts :
          /\ DOMAIN attempts' = DOMAIN attempts \cup {new}
          /\ attempts'[new] = NewAttempt(r.owner, r.ex, Practice)
          /\ \A a \in DOMAIN attempts :
               attempts'[a] = IF a \in StillOpen(r.found)
                              THEN Abandoned(attempts[a]) ELSE attempts[a]
    BY <1>2, OpenCommitEffect
  <2>3. \A a \in DOMAIN attempts : Abandoned(attempts[a]).state = "abandoned"
    BY <1>1, AbandonedRow
  <2>4. \A a \in DOMAIN attempts :
          attempts'[a].state = "open" =>
            /\ attempts'[a] = attempts[a]
            /\ a \notin r.found
    <3> SUFFICES ASSUME NEW a \in DOMAIN attempts, attempts'[a].state = "open"
                 PROVE  attempts'[a] = attempts[a] /\ a \notin r.found
      OBVIOUS
    <3>1. a \notin StillOpen(r.found) /\ attempts'[a] = attempts[a]
      BY <2>2, <2>3
    <3>. QED BY <3>1 DEF StillOpen
  <2>5. attempts'[new].owner = r.owner /\ attempts'[new].ex = r.ex
    BY <2>2 DEF NewAttempt
  <2>6. Superseded(o, x)' \subseteq (Superseded(o, x) \ r.found) \cup {new}
    BY <2>2, <2>4 DEF Superseded
  <2>7. s \notin Opening(o, x) => new \notin Superseded(o, x)'
    BY <2>1, <2>5 DEF Opening, Superseded
  <2>. QED BY <2>6, <2>7
<1>3. CASE ~OpenCommit(s)
  <2>1. s \notin Opening(o, x)
    BY <1>3, SlotsEnd
  <2>2. /\ \A a \in DOMAIN attempts :
             attempts'[a].state = "open" => attempts[a].state = "open"
        /\ \A a \in DOMAIN attempts' \ DOMAIN attempts : attempts'[a].exam # Practice
    BY <1>3, CommitReopensNothing
  <2>3. RowsStay
    BY ProceedRows
  <2>. QED BY <2>1, <2>2, <2>3 DEF Superseded, RowsStay
<1>. QED
  BY <1>2, <1>3

\* The sittings that are open after a commit.
LEMMA CommitLeavesSittings ==
  ASSUME FlightInvariant, NEW s \in Slots, Proceed(s), NEW o, NEW scope
  PROVE  IF s \in Starting(o, scope)
         THEN \E new : OpenSittings(o, scope)' \subseteq
                         (OpenSittings(o, scope) \ DOMAIN requests[s].seen) \cup {new}
         ELSE OpenSittings(o, scope)' \subseteq OpenSittings(o, scope)
<1> DEFINE r == requests[s]
<1>1. CASE StartCommit(s)
  <2>1. StartOK(s)
    BY <1>1, PendingRequest DEF StartCommit, Pending
  <2>2. PICK f, new, order : StartedLate(s, f, new, order)
    BY <1>1, StartCommitEffect
  <2>3. exams' = [e \in DOMAIN exams \cup {f} |->
                    IF e = f THEN NewExam(r.owner, r.scope, order)
                    ELSE IF e \in DOMAIN r.seen
                    THEN [r.seen[e] EXCEPT !.status = "abandoned"]
                    ELSE exams[e]]
    BY <2>2 DEF StartedLate
  <2>4. \A e \in DOMAIN r.seen : [r.seen[e] EXCEPT !.status = "abandoned"].status # "open"
    BY <2>1 DEF StartOK, SeenOpen, IsExamRow
  <2>5. NewExam(r.owner, r.scope, order).owner = r.owner
        /\ NewExam(r.owner, r.scope, order).scope = r.scope
    BY DEF NewExam
  <2>6. OpenSittings(o, scope)' \subseteq
          (OpenSittings(o, scope) \ DOMAIN r.seen) \cup {f}
    BY <2>3, <2>4 DEF OpenSittings
  <2>7. s \notin Starting(o, scope) => f \notin OpenSittings(o, scope)'
    BY <2>1, <2>3, <2>5 DEF StartOK, Starting, OpenSittings
  <2>. QED BY <2>6, <2>7
<1>2. CASE ~StartCommit(s)
  <2>1. s \notin Starting(o, scope)
    BY <1>2, SlotsEnd
  <2>2. CASE exams' = exams
    BY <2>1, <2>2 DEF OpenSittings
  <2>3. CASE SubmitCommit(s)
    <3> DEFINE result == [a \in DOMAIN r.rows |-> ResultEntry(r.owner.course, r.rows[a])]
               row == [r.seen EXCEPT !.status = "submitted", !.result = result]
    <3>1. SubmitOK(s)
      BY <2>3, PendingRequest DEF SubmitCommit, Pending
    <3>2. exams' = [e \in DOMAIN exams |-> IF e = r.exam THEN row ELSE exams[e]]
      BY <2>3, SubmitCommitEffect
    <3> HIDE DEF result
    <3>3. row.status # "open"
      BY <3>1 DEF SubmitOK, SeenOpen, IsExamRow
    <3> HIDE DEF row
    <3>. QED BY <2>1, <3>2, <3>3 DEF OpenSittings
  <2>4. CASE AbandonCommit(s)
    <3> DEFINE row == [r.seen EXCEPT !.status = "abandoned"]
    <3>1. AbandonOK(s)
      BY <2>4, PendingRequest DEF AbandonCommit, Pending
    <3>2. exams' = [e \in DOMAIN exams |-> IF e = r.exam THEN row ELSE exams[e]]
      BY <2>4, AbandonCommitEffect
    <3>3. row.status # "open"
      BY <3>1 DEF AbandonOK, SeenOpen, IsExamRow
    <3> HIDE DEF row
    <3>. QED BY <2>1, <3>2, <3>3 DEF OpenSittings
  <2>. QED BY <1>2, <2>2, <2>3, <2>4 DEF Proceed, OpenCommit, AnswerCommit, ExamAnswerRead,
                                         ExamAnswerCommit, SubmitRead, vars
<1>. QED
  BY <1>1, <1>2

LEMMA ProceedExcess ==
  ASSUME IsFiniteSet(Slots), ExcessInvariant, NEW s \in Slots, Proceed(s)
  PROVE  ExcessInvariant'
<1>1. FlightInvariant /\ FlightInvariant'
  BY NextFlight DEF ExcessInvariant, RNext
<1>2. /\ \A t \in Slots \ {s} : requests'[t] = requests[t]
      /\ requests'[s].op \notin {"open", "start"}
  <2>1. \A t \in Slots \ {s} : requests'[t] = requests[t]
    BY <1>1 DEF FlightInvariant, Serve, Proceed, OpenCommit, AnswerCommit, StartCommit,
       ExamAnswerRead, ExamAnswerCommit, SubmitRead, SubmitCommit, AbandonCommit
  <2>. QED BY <1>1, <2>1, SlotsEnd
<1>3. ASSUME NEW o \in Owner, NEW x \in Exercises
      PROVE  Bounded(Superseded(o, x)', Opening(o, x)', Found')
  <2>1. Bounded(Superseded(o, x), Opening(o, x), Found) /\ Opening(o, x) \in SUBSET Slots
    BY DEF ExcessInvariant, Opening
  <2>2. Opening(o, x)' \in SUBSET (Opening(o, x) \ {s})
    BY <1>2 DEF Opening
  <2>3. \A t \in Opening(o, x)' : Found'[t] = Found[t]
    BY <1>2, <2>2 DEF Found, Opening
  <2>4. CASE s \in Opening(o, x)
    <3>1. PICK new : Superseded(o, x)' \subseteq
                       (Superseded(o, x) \ requests[s].found) \cup {new}
      BY <1>1, <2>4, CommitLeavesOpen
    <3>2. Found[s] = requests[s].found
      BY DEF Found
    <3>3. Superseded(o, x)' \in SUBSET ((Superseded(o, x) \ Found[s]) \cup {new})
      BY <3>1, <3>2
    <3>. QED BY <2>1, <2>2, <2>3, <2>4, <3>3, BoundedCommits
  <2>5. CASE s \notin Opening(o, x)
    <3>1. Superseded(o, x)' \in SUBSET Superseded(o, x)
      BY <1>1, <2>5, CommitLeavesOpen
    <3>2. Opening(o, x)' \in SUBSET Opening(o, x)
      BY <2>2
    <3>. QED BY <2>1, <2>3, <3>1, <3>2, BoundedShrinks
  <2>. QED BY <2>4, <2>5
<1>4. ASSUME NEW o \in Owner, NEW scope \in Scope
      PROVE  Bounded(OpenSittings(o, scope)', Starting(o, scope)', FoundSittings')
  <2>1. /\ Bounded(OpenSittings(o, scope), Starting(o, scope), FoundSittings)
        /\ Starting(o, scope) \in SUBSET Slots
    BY DEF ExcessInvariant, Starting
  <2>2. Starting(o, scope)' \in SUBSET (Starting(o, scope) \ {s})
    BY <1>2 DEF Starting
  <2>3. \A t \in Starting(o, scope)' : FoundSittings'[t] = FoundSittings[t]
    BY <1>2, <2>2 DEF FoundSittings, Starting
  <2>4. CASE s \in Starting(o, scope)
    <3>1. PICK new : OpenSittings(o, scope)' \subseteq
                       (OpenSittings(o, scope) \ DOMAIN requests[s].seen) \cup {new}
      BY <1>1, <2>4, CommitLeavesSittings
    <3>2. FoundSittings[s] = DOMAIN requests[s].seen
      BY DEF FoundSittings
    <3>3. OpenSittings(o, scope)' \in
            SUBSET ((OpenSittings(o, scope) \ FoundSittings[s]) \cup {new})
      BY <3>1, <3>2
    <3>. QED BY <2>1, <2>2, <2>3, <2>4, <3>3, BoundedCommits
  <2>5. CASE s \notin Starting(o, scope)
    <3>1. OpenSittings(o, scope)' \in SUBSET OpenSittings(o, scope)
      BY <1>1, <2>5, CommitLeavesSittings
    <3>2. Starting(o, scope)' \in SUBSET Starting(o, scope)
      BY <2>2
    <3>. QED BY <2>1, <2>3, <3>1, <3>2, BoundedShrinks
  <2>. QED BY <2>4, <2>5
<1>. QED
  BY <1>1, <1>3, <1>4 DEF ExcessInvariant, Owner, Scope

\* A request that begins is one that is going to open, one that is going to start,
\* or neither; what it found is what is open.
LEMMA BeginsToOpen ==
  ASSUME FlightInvariant, NEW s \in Slots, NEW o \in Owner, Begin(s, o)
  PROVE  \E request :
           /\ Serve(s, request) /\ UNCHANGED vars /\ requests[s] = Idle
           /\ request.op = "open" => request.found = Superseded(request.owner, request.ex)
           /\ request.op = "start" =>
                DOMAIN request.seen = OpenSittings(request.owner, request.scope)
<1>1. ASSUME NEW x \in Exercises, OpenBegin(s, o, x)
      PROVE  \E r : /\ Serve(s, r) /\ UNCHANGED vars /\ requests[s] = Idle
                    /\ r.op = "open" /\ r.found = Superseded(r.owner, r.ex)
  BY <1>1 DEF OpenBegin, Admit
<1>2. ASSUME NEW scope \in Scope, StartBegin(s, o, scope)
      PROVE  \E r : /\ Serve(s, r) /\ UNCHANGED vars /\ requests[s] = Idle
                    /\ r.op = "start" /\ DOMAIN r.seen = OpenSittings(r.owner, r.scope)
  BY <1>2 DEF StartBegin, Admit
<1>3. ASSUME NEW a \in AttemptIds, NEW ans \in Answers, AnswerBegin(s, o, a, ans)
      PROVE  \E r : /\ Serve(s, r) /\ UNCHANGED vars /\ requests[s] = Idle
                    /\ r.op = "answer"
  BY <1>3 DEF AnswerBegin, Admit
<1>4. ASSUME NEW e \in ExamIds, NEW a \in AttemptIds, NEW ans \in Answers,
             ExamAnswerBegin(s, o, e, a, ans)
      PROVE  \E r : /\ Serve(s, r) /\ UNCHANGED vars /\ requests[s] = Idle
                    /\ r.op = "examAnswer"
  BY <1>4 DEF ExamAnswerBegin, Admit
<1>5. ASSUME NEW e \in ExamIds, SubmitBegin(s, o, e) \/ AbandonBegin(s, o, e)
      PROVE  \E r : /\ Serve(s, r) /\ UNCHANGED vars /\ requests[s] = Idle
                    /\ r.op \in {"submit", "abandon"}
  BY <1>5 DEF SubmitBegin, AbandonBegin, Admit
<1>6. \/ \E x \in Exercises : OpenBegin(s, o, x)
      \/ \E a \in AttemptIds, ans \in Answers : AnswerBegin(s, o, a, ans)
      \/ \E scope \in Scope : StartBegin(s, o, scope)
      \/ \E e \in ExamIds, a \in AttemptIds, ans \in Answers :
           ExamAnswerBegin(s, o, e, a, ans)
      \/ \E e \in ExamIds : SubmitBegin(s, o, e) \/ AbandonBegin(s, o, e)
  BY DEF Begin
<1>7. CASE \E x \in Exercises : OpenBegin(s, o, x)
  <2>1. PICK r : /\ Serve(s, r) /\ UNCHANGED vars /\ requests[s] = Idle
                 /\ r.op = "open" /\ r.found = Superseded(r.owner, r.ex)
    BY <1>1, <1>7
  <2>. QED BY <2>1
<1>8. CASE \E scope \in Scope : StartBegin(s, o, scope)
  <2>1. PICK r : /\ Serve(s, r) /\ UNCHANGED vars /\ requests[s] = Idle
                 /\ r.op = "start" /\ DOMAIN r.seen = OpenSittings(r.owner, r.scope)
    BY <1>2, <1>8
  <2>. QED BY <2>1
<1>9. CASE \/ \E a \in AttemptIds, ans \in Answers : AnswerBegin(s, o, a, ans)
           \/ \E e \in ExamIds, a \in AttemptIds, ans \in Answers :
                ExamAnswerBegin(s, o, e, a, ans)
           \/ \E e \in ExamIds : SubmitBegin(s, o, e) \/ AbandonBegin(s, o, e)
  <2>1. PICK r : /\ Serve(s, r) /\ UNCHANGED vars /\ requests[s] = Idle
                 /\ r.op \in {"answer", "examAnswer", "submit", "abandon"}
    BY <1>3, <1>4, <1>5, <1>9
  <2>. QED BY <2>1
<1>. QED
  BY <1>6, <1>7, <1>8, <1>9

LEMMA BeginExcess ==
  ASSUME IsFiniteSet(Slots), ExcessInvariant, NEW s \in Slots, NEW u \in Owner, Begin(s, u)
  PROVE  ExcessInvariant'
<1>1. FlightInvariant /\ FlightInvariant'
  BY NextFlight DEF ExcessInvariant, RNext
<1>2. PICK request :
        /\ Serve(s, request) /\ UNCHANGED vars /\ requests[s] = Idle
        /\ request.op = "open" => request.found = Superseded(request.owner, request.ex)
        /\ request.op = "start" =>
             DOMAIN request.seen = OpenSittings(request.owner, request.scope)
  BY <1>1, BeginsToOpen
<1>3. /\ requests'[s] = request
      /\ \A t \in Slots \ {s} : requests'[t] = requests[t]
  BY <1>1, <1>2 DEF FlightInvariant, Serve
<1>4. \A o, x, scope : s \notin Opening(o, x) /\ s \notin Starting(o, scope)
  BY <1>2 DEF Opening, Starting, Idle
<1>5. ASSUME NEW o \in Owner, NEW x \in Exercises
      PROVE  Bounded(Superseded(o, x)', Opening(o, x)', Found')
  <2>1. /\ Bounded(Superseded(o, x), Opening(o, x), Found) /\ Opening(o, x) \in SUBSET Slots
        /\ Superseded(o, x)' = Superseded(o, x)
    BY <1>2 DEF ExcessInvariant, Opening, Superseded, vars
  <2>2. \A t \in Opening(o, x) \ {s} : Found'[t] = Found[t]
    BY <1>3 DEF Found, Opening
  <2>3. CASE s \in Opening(o, x)'
    <3>1. Opening(o, x)' = Opening(o, x) \cup {s}
      BY <1>3, <1>4, <2>3 DEF Opening
    <3>2. Found'[s] = Superseded(o, x)
      BY <1>2, <1>3, <2>3 DEF Found, Opening
    <3>. QED BY <2>1, <2>2, <3>1, <3>2, BoundedBegins
  <2>4. CASE s \notin Opening(o, x)'
    <3>1. Opening(o, x)' \in SUBSET Opening(o, x)
      BY <1>3, <2>4 DEF Opening
    <3>2. \A t \in Opening(o, x)' : Found'[t] = Found[t]
      BY <2>2, <2>4, <3>1
    <3>. QED BY <2>1, <3>1, <3>2, BoundedShrinks
  <2>. QED BY <2>3, <2>4
<1>6. ASSUME NEW o \in Owner, NEW scope \in Scope
      PROVE  Bounded(OpenSittings(o, scope)', Starting(o, scope)', FoundSittings')
  <2>1. /\ Bounded(OpenSittings(o, scope), Starting(o, scope), FoundSittings)
        /\ Starting(o, scope) \in SUBSET Slots
        /\ OpenSittings(o, scope)' = OpenSittings(o, scope)
    BY <1>2 DEF ExcessInvariant, Starting, OpenSittings, vars
  <2>2. \A t \in Starting(o, scope) \ {s} : FoundSittings'[t] = FoundSittings[t]
    BY <1>3 DEF FoundSittings, Starting
  <2>3. CASE s \in Starting(o, scope)'
    <3>1. Starting(o, scope)' = Starting(o, scope) \cup {s}
      BY <1>3, <1>4, <2>3 DEF Starting
    <3>2. FoundSittings'[s] = OpenSittings(o, scope)
      BY <1>2, <1>3, <2>3 DEF FoundSittings, Starting
    <3>. QED BY <2>1, <2>2, <3>1, <3>2, BoundedBegins
  <2>4. CASE s \notin Starting(o, scope)'
    <3>1. Starting(o, scope)' \in SUBSET Starting(o, scope)
      BY <1>3, <2>4 DEF Starting
    <3>2. \A t \in Starting(o, scope)' : FoundSittings'[t] = FoundSittings[t]
      BY <2>2, <2>4, <3>1
    <3>. QED BY <2>1, <3>1, <3>2, BoundedShrinks
  <2>. QED BY <2>3, <2>4
<1>. QED
  BY <1>1, <1>5, <1>6 DEF ExcessInvariant, Owner, Scope

\* The requests are dropped, or nothing happens.
LEMMA DroppedExcess ==
  ASSUME IsFiniteSet(Slots), ExcessInvariant, Restart \/ UNCHANGED rvars
  PROVE  ExcessInvariant'
<1>1. FlightInvariant /\ FlightInvariant'
  BY NextFlight DEF ExcessInvariant, RNext
<1>2. /\ attempts' = attempts /\ exams' = exams
      /\ \A s \in Slots : requests'[s] = requests[s] \/ requests'[s] = Idle
  BY DEF Restart, rvars
<1>3. ASSUME NEW o \in Owner, NEW x \in Exercises
      PROVE  Bounded(Superseded(o, x)', Opening(o, x)', Found')
  <2>1. Bounded(Superseded(o, x), Opening(o, x), Found) /\ Opening(o, x) \in SUBSET Slots
    BY DEF ExcessInvariant, Opening
  <2>2. Superseded(o, x)' \in SUBSET Superseded(o, x)
    BY <1>2 DEF Superseded
  <2>3. /\ Opening(o, x)' \in SUBSET Opening(o, x)
        /\ \A t \in Opening(o, x)' : Found'[t] = Found[t]
    BY <1>2 DEF Opening, Found, Idle
  <2>. QED BY <2>1, <2>2, <2>3, BoundedShrinks
<1>4. ASSUME NEW o \in Owner, NEW scope \in Scope
      PROVE  Bounded(OpenSittings(o, scope)', Starting(o, scope)', FoundSittings')
  <2>1. /\ Bounded(OpenSittings(o, scope), Starting(o, scope), FoundSittings)
        /\ Starting(o, scope) \in SUBSET Slots
    BY DEF ExcessInvariant, Starting
  <2>2. OpenSittings(o, scope)' \in SUBSET OpenSittings(o, scope)
    BY <1>2 DEF OpenSittings
  <2>3. /\ Starting(o, scope)' \in SUBSET Starting(o, scope)
        /\ \A t \in Starting(o, scope)' : FoundSittings'[t] = FoundSittings[t]
    BY <1>2 DEF Starting, FoundSittings, Idle
  <2>. QED BY <2>1, <2>2, <2>3, BoundedShrinks
<1>. QED
  BY <1>1, <1>3, <1>4 DEF ExcessInvariant, Owner, Scope

LEMMA InitExcess == ASSUME IsFiniteSet(Slots), RInit PROVE ExcessInvariant
<1>1. FlightInvariant
  BY InitFlight
<1>2. /\ \A o, x : Superseded(o, x) = {} /\ Opening(o, x) = {}
      /\ \A o, scope : OpenSittings(o, scope) = {} /\ Starting(o, scope) = {}
  BY DEF RInit, Init, Superseded, Opening, OpenSittings, Starting, Idle
<1>3. \A found : Bounded({}, {}, found)
  <2> SUFFICES ASSUME NEW found, NEW some \in SUBSET {}
               PROVE  LET left == {} \ UNION {found[s] : s \in some}
                      IN  /\ IsFiniteSet(left)
                          /\ Cardinality(left) + Cardinality(some) <= Cardinality(Slots)
    BY DEF Bounded
  <2>1. some = {} /\ {} \ UNION {found[s] : s \in some} = {}
    OBVIOUS
  <2>2. IsFiniteSet({}) /\ Cardinality({}) = 0 /\ Cardinality(Slots) \in Nat
    BY FS_EmptySet, FS_CardinalityType
  <2>. QED BY <2>1, <2>2
<1>. QED
  BY <1>1, <1>2, <1>3 DEF ExcessInvariant

\* Whatever overlaps, what overlapping openings or starts leave open does not add
\* up: no more of it at once than the server works on requests at once
\* (attempts/service.py:68-76, exams/service.py:288-290).
THEOREM OpenExcessIsBounded == ASSUME IsFiniteSet(Slots) PROVE RSpec => []OpenExcessBounded
<1>1. RInit => ExcessInvariant
  BY InitExcess
<1>2. ExcessInvariant /\ [RNext]_rvars => ExcessInvariant'
  BY ProceedExcess, BeginExcess, DroppedExcess DEF RNext
<1>3. ExcessInvariant => OpenExcessBounded
  <2> SUFFICES ASSUME ExcessInvariant PROVE OpenExcessBounded
    OBVIOUS
  <2>1. ASSUME NEW o \in Owner, NEW x \in Exercises, NEW some \in SUBSET Opening(o, x)
        PROVE  Cardinality(Superseded(o, x) \ UNION {requests[s].found : s \in some})
                 + Cardinality(some) <= Cardinality(Slots)
    <3>1. UNION {requests[s].found : s \in some} = UNION {Found[s] : s \in some}
      BY DEF Found, Opening
    <3>. QED BY <3>1 DEF ExcessInvariant, Bounded
  <2>2. ASSUME NEW o \in Owner, NEW scope \in Scope, NEW some \in SUBSET Starting(o, scope)
        PROVE  Cardinality(OpenSittings(o, scope)
                             \ UNION {DOMAIN requests[s].seen : s \in some})
                 + Cardinality(some) <= Cardinality(Slots)
    <3>1. UNION {DOMAIN requests[s].seen : s \in some} = UNION {FoundSittings[s] : s \in some}
      BY DEF FoundSittings, Starting
    <3>. QED BY <3>1 DEF ExcessInvariant, Bounded
  <2>. QED BY <2>1, <2>2 DEF OpenExcessBounded
<1>. QED
  BY <1>1, <1>2, <1>3, PTL DEF RSpec

----------------------------------------------------------------------------
(* Requests of one learner in flight.                                      *)

\* Two requests of one learner in flight are two that may overlap.
Admitted ==
  \A s, t \in Slots :
    ( /\ s # t /\ requests[s].op # "idle" /\ requests[t].op # "idle"
      /\ requests[s].owner = requests[t].owner )
    => {requests[s].op, requests[t].op} \in Overlap

\* How a request enters its slot.
Began(s, o, request) ==
  /\ Serve(s, request) /\ UNCHANGED vars
  /\ request.owner = o /\ Admit(s, o, request.op)
  /\ request.op = "submit" => \E e \in ExamIds : SubmitBegin(s, o, e)

LEMMA BeginStep ==
  ASSUME NEW s \in Slots, NEW o \in Owner, Begin(s, o)
  PROVE  \E request : Began(s, o, request)
<1>1. ASSUME NEW x \in Exercises, OpenBegin(s, o, x)
      PROVE  \E r : Began(s, o, r)
  BY <1>1 DEF OpenBegin, Began
<1>2. ASSUME NEW a \in AttemptIds, NEW ans \in Answers, AnswerBegin(s, o, a, ans)
      PROVE  \E r : Began(s, o, r)
  BY <1>2 DEF AnswerBegin, Began
<1>3. ASSUME NEW scope \in Scope, StartBegin(s, o, scope)
      PROVE  \E r : Began(s, o, r)
  BY <1>3 DEF StartBegin, Began
<1>4. ASSUME NEW e \in ExamIds, NEW a \in AttemptIds, NEW ans \in Answers,
             ExamAnswerBegin(s, o, e, a, ans)
      PROVE  \E r : Began(s, o, r)
  BY <1>4 DEF ExamAnswerBegin, Began
<1>5. ASSUME NEW e \in ExamIds, SubmitBegin(s, o, e)
      PROVE  \E r : Began(s, o, r)
  BY <1>5 DEF SubmitBegin, Began
<1>6. ASSUME NEW e \in ExamIds, AbandonBegin(s, o, e)
      PROVE  \E r : Began(s, o, r)
  BY <1>6 DEF AbandonBegin, Began
<1>. QED
  BY <1>1, <1>2, <1>3, <1>4, <1>5, <1>6 DEF Begin

\* A step of one slot starts a request that is admitted, or keeps or ends its own.
LEMMA SlotStep ==
  ASSUME FlightInvariant, NEW s \in Slots, NEW o \in Owner, Begin(s, o) \/ Proceed(s)
  PROVE  \E request :
           /\ Serve(s, request)
           /\ \/ request.op = "idle"
              \/ request.op = requests[s].op /\ request.owner = requests[s].owner
              \/ request.owner = o /\ Admit(s, o, request.op)
<1>1. CASE Begin(s, o)
  BY <1>1, BeginStep DEF Began
<1>2. CASE ExamAnswerRead(s)
  <2> DEFINE given == attempts[requests[s].attempt].given
             request == [requests[s] EXCEPT !.at = "commit", !.seen = given]
  <2>1. ExamAnswerOK(s) /\ Serve(s, request)
    BY <1>2, PendingRequest DEF ExamAnswerRead, Pending
  <2> HIDE DEF given
  <2>2. request.op = requests[s].op /\ request.owner = requests[s].owner
    BY <2>1 DEF ExamAnswerOK
  <2>. QED BY <2>1, <2>2
<1>3. CASE SubmitRead(s)
  <2> DEFINE rows == [a \in QuestionsOf(requests[s].exam) |-> attempts[a]]
             request == [requests[s] EXCEPT !.at = "commit", !.rows = rows]
  <2>1. SubmitOK(s) /\ Serve(s, request)
    BY <1>3, PendingRequest DEF SubmitRead, Pending
  <2> HIDE DEF rows
  <2>2. request.op = requests[s].op /\ request.owner = requests[s].owner
    BY <2>1 DEF SubmitOK
  <2>. QED BY <2>1, <2>2
<1>4. CASE Serve(s, Idle)
  BY <1>4 DEF Idle
<1>. QED
  BY <1>1, <1>2, <1>3, <1>4 DEF Proceed, OpenCommit, AnswerCommit, StartCommit,
     ExamAnswerCommit, SubmitCommit, AbandonCommit

LEMMA NextAdmitted == ASSUME FlightInvariant, Admitted, [RNext]_rvars PROVE Admitted'
<1>1. ASSUME NEW s \in Slots, NEW o \in Owner, Begin(s, o) \/ Proceed(s)
      PROVE  Admitted'
  <2>1. PICK request :
          /\ Serve(s, request)
          /\ \/ request.op = "idle"
             \/ request.op = requests[s].op /\ request.owner = requests[s].owner
             \/ request.owner = o /\ Admit(s, o, request.op)
    BY <1>1, SlotStep
  <2>2. /\ requests'[s] = request
        /\ \A t \in Slots \ {s} : requests'[t] = requests[t]
    BY <2>1 DEF FlightInvariant, Serve
  <2>3. ASSUME NEW t \in Slots, t # s, request.op # "idle", requests[t].op # "idle",
               requests[t].owner = request.owner
        PROVE  {request.op, requests[t].op} \in Overlap
    BY <2>1, <2>3 DEF Admit, Admitted
  <2>4. \A a, b : {a, b} = {b, a}
    OBVIOUS
  <2>. QED BY <2>2, <2>3, <2>4 DEF Admitted
<1>2. CASE Restart
  BY <1>2 DEF Restart, Admitted, Idle
<1>3. CASE UNCHANGED rvars
  BY <1>3 DEF rvars, Admitted
<1>4. \A s \in Slots : Proceed(s) => \E o \in Owner : TRUE
  <2> SUFFICES ASSUME NEW s \in Slots, Proceed(s) PROVE \E o \in Owner : TRUE
    OBVIOUS
  <2>1. requests[s].op \in {"open", "answer", "start", "examAnswer", "submit", "abandon"}
    BY DEF Proceed, Pending, OpenCommit, AnswerCommit, StartCommit, ExamAnswerRead,
           ExamAnswerCommit, SubmitRead, SubmitCommit, AbandonCommit
  <2>. QED BY <2>1, PendingRequest DEF OpenOK, AnswerOK, StartOK, ExamAnswerOK, SubmitOK,
                                       AbandonOK
<1>. QED
  BY <1>1, <1>2, <1>3, <1>4 DEF RNext

----------------------------------------------------------------------------
(* While no two submissions of a learner overlap.                          *)

\* The questions of an exam that is open, or that is being submitted, are not
\* graded, and a submission read them before they were.
Ungraded(row) == row.verdict = "none" /\ row.state # "answered"

SubmitAlone(s) ==
  LET r == requests[s] IN
  r.op = "submit" =>
    /\ \A a \in QuestionsOf(r.exam) : Ungraded(attempts[a])
    /\ r.at = "commit" => \A a \in DOMAIN r.rows : Ungraded(r.rows[a])

OpenIsUngraded ==
  \A e \in DOMAIN exams :
    exams[e].status = "open" => \A a \in QuestionsOf(e) : Ungraded(attempts[a])

GradingInvariant ==
  /\ FlightInvariant
  /\ Admitted
  /\ SittingAgreement
  /\ OpenIsUngraded
  /\ \A s \in Slots : SubmitAlone(s)

LEMMA UngradedStays ==
  ASSUME NEW row \in AttemptRow, NEW after, Ungraded(row),
         SameButGiven(row, after) \/ after = Abandoned(row)
  PROVE  Ungraded(after)
  BY DEF AttemptRow, Ungraded, SameButGiven, Abandoned

LEMMA UntouchedStaysAgreed ==
  ASSUME FlightInvariant, RowsStay, NEW e \in DOMAIN exams, Agrees(e), Untouched(e)
  PROVE  Agrees(e)'
<1>1. QuestionsOf(e)' = QuestionsOf(e)
  BY QuestionsStay DEF FlightInvariant
<1>2. \A a \in QuestionsOf(e) :
        /\ attempts'[a].owner = attempts[a].owner
        /\ attempts'[a].state = attempts[a].state
        /\ attempts'[a].verdict = attempts[a].verdict
  BY StoredRows DEF Untouched, SameButGiven, AttemptRow, QuestionsOf
<1>. QED
  BY <1>1, <1>2 DEF Untouched, Agrees

LEMMA ClosedLateAgrees ==
  ASSUME FlightInvariant, RowsStay, NEW e \in DOMAIN exams, Agrees(e), ClosedLate(e)
  PROVE  Agrees(e)'
<1>1. QuestionsOf(e)' = QuestionsOf(e)
  BY QuestionsStay DEF FlightInvariant
<1>2. \A a \in QuestionsOf(e) :
        attempts'[a].owner = attempts[a].owner /\ attempts'[a].state = "abandoned"
  BY StoredRows, AbandonedRow DEF ClosedLate, QuestionsOf
<1>. QED
  BY <1>1, <1>2 DEF ClosedLate, Agrees

\* A submission in flight alone grades every question, on the answers it had read.
LEMMA SubmittedAloneAgrees ==
  ASSUME GradingInvariant, NEW s \in Slots, SubmitCommit(s), NEW e, e = requests[s].exam
  PROVE  /\ e \in DOMAIN exams
         /\ Agrees(e)'
         /\ exams'[e].status = "submitted"
<1> DEFINE r == requests[s]
           c == r.owner.course
           result == [a \in DOMAIN r.rows |-> ResultEntry(c, r.rows[a])]
           row == [r.seen EXCEPT !.status = "submitted", !.result = result]
<1>1. FlightInvariant /\ Agrees(e) /\ e \in DOMAIN exams
  BY PendingRequest DEF SubmitCommit, Pending, SubmitOK, GradingInvariant, SittingAgreement
<1>2. /\ IsExamRow(r.seen) /\ r.seen.owner = r.owner /\ exams[e].owner = r.owner
      /\ DOMAIN r.rows = QuestionsOf(e)
      /\ \A a \in QuestionsOf(e) : r.rows[a] \in AttemptRow /\ Ungraded(r.rows[a])
  BY <1>1, PendingRequest DEF SubmitCommit, Pending, SubmitOK, SeenOpen, GradingInvariant,
                              SubmitAlone
<1>3. /\ attempts' = [a \in DOMAIN attempts |->
                        IF a \in QuestionsOf(e)
                        THEN LateGraded(c, r.rows[a], attempts[a]) ELSE attempts[a]]
      /\ exams' = [f \in DOMAIN exams |-> IF f = e THEN row ELSE exams[f]]
  BY <1>1, SubmitCommitEffect
<1>4. /\ row.status = "submitted" /\ row.owner = r.owner /\ row.result = result
  <2> HIDE DEF result
  <2>. QED BY <1>2 DEF IsExamRow
<1>5. QuestionsOf(e)' = QuestionsOf(e)
  BY <1>1, SubmitCommitSound, QuestionsStay DEF TablesSound, FlightInvariant
<1>6. ASSUME NEW a \in QuestionsOf(e)
      PROVE  /\ attempts'[a].owner = r.owner
             /\ attempts'[a].state = "answered"
             /\ attempts'[a].verdict # "none"
             /\ result[a].correct = (attempts'[a].verdict = "correct")
  <2> DEFINE seen == r.rows[a]
             old == attempts[a]
             graded == LateGraded(c, seen, old)
  <2>1. /\ a \in DOMAIN attempts /\ old \in AttemptRow /\ old.owner = r.owner
        /\ seen \in AttemptRow /\ seen.verdict = "none" /\ seen.state # "answered"
        /\ attempts'[a] = graded
    BY <1>1, <1>2, <1>3, StoredRows DEF QuestionsOf, Agrees, Ungraded
  <2>2. result[a].correct = (ExamVerdict(c, seen) = "correct")
    BY <1>2 DEF ResultEntry
  <2> HIDE DEF seen, result, c
  <2>3. /\ graded.owner = old.owner
        /\ graded.verdict = Column(seen.verdict, ExamVerdict(c, seen), old.verdict)
        /\ graded.state = Column(seen.state, "answered", old.state)
    BY <2>1, LateGradedRow
  <2>4. ExamVerdict(c, seen) \in {"correct", "wrong"}
    BY DEF ExamVerdict, Verdict
  <2> HIDE DEF graded
  <2>. QED BY <2>1, <2>2, <2>3, <2>4 DEF Column
<1>7. DOMAIN result = QuestionsOf(e)
  BY <1>2
<1> HIDE DEF row, result
<1>8. /\ exams'[e].status = "submitted" /\ exams'[e].owner = r.owner
      /\ exams'[e].result = result
  BY <1>1, <1>3, <1>4
<1>. QED
  BY <1>1, <1>5, <1>6, <1>7, <1>8 DEF Agrees

LEMMA AddedFreshAgrees ==
  ASSUME NEW e \in DOMAIN exams', AddedFresh(e)
  PROVE  Agrees(e)'
  BY DEF AddedFresh, Agrees, QuestionsOf

LEMMA ProceedGrading ==
  ASSUME GradingInvariant, ~CrossLane, {"submit"} \notin Overlap, NEW s \in Slots, Proceed(s),
         FlightInvariant', RowsStay
  PROVE  SittingAgreement' /\ OpenIsUngraded' /\ \A t \in Slots : SubmitAlone(t)'
<1>1. FlightInvariant
  BY DEF GradingInvariant
<1>2. /\ \A e \in DOMAIN exams :
           \/ Untouched(e) \/ ClosedLate(e)
           \/ SubmitCommit(s) /\ requests[s].exam = e
      /\ \A e \in DOMAIN exams' \ DOMAIN exams : AddedFresh(e)
  BY <1>1, CommitScope
<1>3. SittingAgreement'
  <2> SUFFICES ASSUME NEW e \in DOMAIN exams' PROVE Agrees(e)'
    BY DEF SittingAgreement
  <2>1. CASE e \notin DOMAIN exams
    BY <1>2, <2>1, AddedFreshAgrees
  <2>2. CASE e \in DOMAIN exams
    <3>1. Agrees(e)
      BY <2>2 DEF GradingInvariant, SittingAgreement
    <3>. QED BY <1>1, <1>2, <2>2, <3>1, UntouchedStaysAgreed, ClosedLateAgrees,
                SubmittedAloneAgrees
  <2>. QED BY <2>1, <2>2
<1>4. ASSUME NEW e \in DOMAIN exams, Untouched(e) \/ ClosedLate(e),
             \A a \in QuestionsOf(e) : Ungraded(attempts[a])
      PROVE  \A a \in QuestionsOf(e)' : Ungraded(attempts'[a])
  <2>1. QuestionsOf(e)' = QuestionsOf(e)
    BY <1>1, QuestionsStay DEF FlightInvariant
  <2>2. ASSUME NEW a \in QuestionsOf(e)
        PROVE  Ungraded(attempts'[a])
    <3>1. attempts[a] \in AttemptRow /\ Ungraded(attempts[a])
      BY <1>1, <1>4, StoredRows DEF QuestionsOf
    <3>2. SameButGiven(attempts[a], attempts'[a]) \/ attempts'[a] = Abandoned(attempts[a])
      BY <1>4 DEF Untouched, ClosedLate
    <3>. QED BY <3>1, <3>2, UngradedStays
  <2>. QED BY <2>1, <2>2
<1>5. OpenIsUngraded'
  <2> SUFFICES ASSUME NEW e \in DOMAIN exams', exams'[e].status = "open"
               PROVE  \A a \in QuestionsOf(e)' : Ungraded(attempts'[a])
    BY DEF OpenIsUngraded, Ungraded
  <2>1. CASE e \notin DOMAIN exams
    BY <1>2, <2>1 DEF AddedFresh, QuestionsOf, Ungraded
  <2>2. CASE e \in DOMAIN exams
    <3>1. Untouched(e)
      BY <1>2, <2>2, SubmittedAloneAgrees DEF ClosedLate
    <3>2. \A a \in QuestionsOf(e) : Ungraded(attempts[a])
      BY <2>2, <3>1 DEF Untouched, GradingInvariant, OpenIsUngraded
    <3>. QED BY <1>4, <2>2, <3>1, <3>2
  <2>. QED BY <2>1, <2>2
<1>6. ASSUME NEW t \in Slots PROVE SubmitAlone(t)'
  <2>1. CASE t # s
    <3> DEFINE r == requests[t]
    <3>1. requests'[t] = r
      BY <1>1, <2>1, SlotStep DEF FlightInvariant, Serve, Proceed, OpenCommit, AnswerCommit,
         StartCommit, ExamAnswerRead, ExamAnswerCommit, SubmitRead, SubmitCommit, AbandonCommit
    <3> SUFFICES ASSUME r.op = "submit" PROVE SubmitAlone(t)'
      BY <3>1 DEF SubmitAlone
    <3>2. SubmitOK(t) /\ r.exam \in DOMAIN exams /\ exams[r.exam].owner = r.owner
      BY <1>1, PendingRequest DEF SubmitOK, SeenOpen
    <3>3. ~(SubmitCommit(s) /\ requests[s].exam = r.exam)
      <4> SUFFICES ASSUME SubmitCommit(s), requests[s].exam = r.exam PROVE FALSE
        OBVIOUS
      <4>1. requests[s].op = "submit" /\ requests[s].owner = r.owner
        BY <1>1, <3>2, PendingRequest DEF SubmitCommit, Pending, SubmitOK, SeenOpen
      <4>2. {"submit", "submit"} \in Overlap
        BY <2>1, <4>1 DEF GradingInvariant, Admitted
      <4>. QED BY <4>2
    <3>4. /\ \A a \in QuestionsOf(r.exam) : Ungraded(attempts[a])
          /\ r.at = "commit" => \A a \in DOMAIN r.rows : Ungraded(r.rows[a])
      BY DEF GradingInvariant, SubmitAlone
    <3>5. \A a \in QuestionsOf(r.exam)' : Ungraded(attempts'[a])
      <4>1. \A e \in {r.exam} : \A a \in QuestionsOf(e)' : Ungraded(attempts'[a])
        BY <1>2, <1>4, <3>2, <3>3, <3>4
      <4>. QED BY <3>1, <4>1 DEF QuestionsOf
    <3>. QED BY <3>1, <3>4, <3>5 DEF SubmitAlone, QuestionsOf, Ungraded
  <2>2. CASE t = s /\ SubmitRead(s)
    <3> DEFINE r == requests[s]
               rows == [a \in QuestionsOf(r.exam) |-> attempts[a]]
    <3>1. SubmitOK(s) /\ r.op = "submit" /\ UNCHANGED vars
            /\ requests'[s] = [r EXCEPT !.at = "commit", !.rows = rows]
      BY <1>1, <2>2, PendingRequest, ServedRequest DEF SubmitRead, Pending
    <3>2. \A a \in QuestionsOf(r.exam) : Ungraded(attempts[a]) /\ Ungraded(rows[a])
      BY <3>1 DEF GradingInvariant, SubmitAlone
    <3>3. DOMAIN rows = QuestionsOf(r.exam)
      OBVIOUS
    <3> HIDE DEF rows
    <3>4. requests'[s].exam = r.exam /\ requests'[s].rows = rows
      BY <3>1 DEF SubmitOK
    <3>. QED BY <2>2, <3>1, <3>2, <3>3, <3>4 DEF SubmitAlone, QuestionsOf, Ungraded, vars
  <2>3. CASE t = s /\ ~SubmitRead(s)
    <3>1. requests'[s].op # "submit"
      <4>1. CASE Serve(s, Idle)
        <5>1. requests'[s] = Idle
          BY <1>1, <4>1, ServedRequest
        <5>. QED BY <5>1 DEF Idle
      <4>2. CASE ExamAnswerRead(s)
        <5> DEFINE given == attempts[requests[s].attempt].given
        <5>1. /\ ExamAnswerOK(s)
              /\ requests'[s] = [requests[s] EXCEPT !.at = "commit", !.seen = given]
          BY <1>1, <4>2, PendingRequest, ServedRequest DEF ExamAnswerRead, Pending
        <5> HIDE DEF given
        <5>. QED BY <5>1 DEF ExamAnswerOK
      <4>. QED BY <2>3, <4>1, <4>2 DEF Proceed, OpenCommit, AnswerCommit, StartCommit,
                  ExamAnswerCommit, SubmitCommit, AbandonCommit
    <3>. QED BY <2>3, <3>1 DEF SubmitAlone
  <2>. QED BY <2>1, <2>2, <2>3
<1>. QED
  BY <1>3, <1>5, <1>6

LEMMA BeginGrading ==
  ASSUME GradingInvariant, NEW s \in Slots, NEW o \in Owner, Begin(s, o)
  PROVE  SittingAgreement' /\ OpenIsUngraded' /\ \A t \in Slots : SubmitAlone(t)'
<1>1. FlightInvariant /\ UNCHANGED vars
  BY DEF GradingInvariant, Begin, OpenBegin, AnswerBegin, StartBegin, ExamAnswerBegin,
         SubmitBegin, AbandonBegin
<1>2. SittingAgreement' /\ OpenIsUngraded'
  BY <1>1 DEF GradingInvariant, SittingAgreement, OpenIsUngraded, Agrees, Ungraded,
              QuestionsOf, vars
<1>3. ASSUME NEW t \in Slots, t # s PROVE SubmitAlone(t)'
  <2>1. requests'[t] = requests[t]
    BY <1>1, <1>3 DEF FlightInvariant, Serve, Begin, OpenBegin, AnswerBegin, StartBegin,
                      ExamAnswerBegin, SubmitBegin, AbandonBegin
  <2>. QED BY <1>1, <2>1 DEF GradingInvariant, SubmitAlone, QuestionsOf, Ungraded, vars
<1>4. SubmitAlone(s)'
  <2>1. ASSUME NEW e \in ExamIds, SubmitBegin(s, o, e)
        PROVE  SubmitAlone(s)'
    <3> DEFINE rows == [a \in {} |-> None]
    <3>1. /\ InProgress(o, e)
          /\ requests'[s] = [op |-> "submit", at |-> "read", owner |-> o, exam |-> e,
                             seen |-> exams[e], rows |-> rows]
      BY <1>1, <2>1, ServedRequest DEF SubmitBegin
    <3> HIDE DEF rows
    <3>2. \A a \in QuestionsOf(e) : Ungraded(attempts[a])
      BY <3>1 DEF GradingInvariant, OpenIsUngraded, InProgress
    <3>3. requests'[s].exam = e /\ requests'[s].at = "read"
      BY <3>1
    <3>. QED BY <1>1, <3>2, <3>3 DEF SubmitAlone, QuestionsOf, Ungraded, vars
  <2>2. CASE \A e \in ExamIds : ~SubmitBegin(s, o, e)
    <3>1. \E request : Serve(s, request) /\ request.op # "submit"
      BY <2>2, BeginStep DEF Began
    <3>2. requests'[s].op # "submit"
      BY <1>1, <3>1, ServedRequest
    <3>. QED BY <3>2 DEF SubmitAlone
  <2>. QED BY <2>1, <2>2
<1>. QED
  BY <1>2, <1>3, <1>4

LEMMA NextGrading ==
  ASSUME GradingInvariant, ~CrossLane, {"submit"} \notin Overlap, [RNext]_rvars
  PROVE  GradingInvariant'
<1>1. FlightInvariant' /\ Admitted'
  BY NextFlight, NextAdmitted DEF GradingInvariant
<1>2. ASSUME NEW s \in Slots, NEW o \in Owner, Begin(s, o) PROVE GradingInvariant'
  BY <1>1, <1>2, BeginGrading DEF GradingInvariant
<1>3. ASSUME NEW s \in Slots, Proceed(s) PROVE GradingInvariant'
  <2>1. RowsStay
    <3>1. FlightInvariant
      BY DEF GradingInvariant
    <3>2. CASE ExamAnswerRead(s) \/ SubmitRead(s)
      BY <3>2, NothingWritten DEF ExamAnswerRead, SubmitRead, vars
    <3>. QED BY <1>3, <3>1, <3>2, OpenCommitSound, AnswerCommitSound, StartCommitSound,
                ExamAnswerCommitSound, SubmitCommitSound, AbandonCommitSound
             DEF Proceed, TablesSound
  <2>. QED BY <1>1, <1>3, <2>1, ProceedGrading DEF GradingInvariant
<1>4. CASE Restart \/ UNCHANGED rvars
  <2>1. attempts' = attempts /\ exams' = exams
    BY <1>4 DEF Restart, rvars
  <2>2. SittingAgreement' /\ OpenIsUngraded'
    BY <2>1 DEF GradingInvariant, SittingAgreement, OpenIsUngraded, Agrees, Ungraded,
                QuestionsOf
  <2>3. ASSUME NEW t \in Slots PROVE SubmitAlone(t)'
    <3>1. requests'[t] = requests[t] \/ requests'[t] = Idle
      BY <1>4 DEF Restart, rvars
    <3>. QED BY <2>1, <3>1 DEF GradingInvariant, SubmitAlone, QuestionsOf, Ungraded, Idle
  <2>. QED BY <1>1, <2>2, <2>3 DEF GradingInvariant
<1>. QED
  BY <1>2, <1>3, <1>4 DEF RNext

LEMMA InitGrading == RInit => GradingInvariant
<1> SUFFICES ASSUME RInit PROVE GradingInvariant
  OBVIOUS
<1>1. FlightInvariant
  BY InitFlight
<1>2. DOMAIN exams = {} /\ requests = [s \in Slots |-> Idle]
  BY DEF RInit, Init
<1>3. Admitted /\ \A s \in Slots : SubmitAlone(s)
  BY <1>2 DEF Admitted, SubmitAlone, Idle
<1>. QED
  BY <1>1, <1>2, <1>3 DEF GradingInvariant, SittingAgreement, OpenIsUngraded

\* Every exam row and its questions tell one story as long as a learner has no two
\* submissions in flight at once, whatever else overlaps and however many requests
\* do (exams/service.py, start_exam, submit_exam and _abandon).
THEOREM LateSittingsAgree ==
  ASSUME ~CrossLane, {"submit"} \notin Overlap
  PROVE  RSpec => []SittingAgreement
<1>1. GradingInvariant /\ [RNext]_rvars => GradingInvariant'
  BY NextGrading
<1>2. GradingInvariant => SittingAgreement
  BY DEF GradingInvariant
<1>. QED
  BY <1>1, <1>2, InitGrading, PTL DEF RSpec

----------------------------------------------------------------------------
(* While only harmless requests overlap.                                   *)

\* The exam is as it was read, or has been abandoned since.
AsSeen(e, row) == exams[e] = row \/ exams[e] = [row EXCEPT !.status = "abandoned"]

OpenSerial(s) ==
  LET r == requests[s] IN
  r.op = "open" =>
    /\ r.ex \in Playable(r.owner.course)
    /\ r.found = Superseded(r.owner, r.ex)

AnswerSerial(s) ==
  LET r == requests[s] IN
  r.op = "answer" =>
    /\ attempts[r.attempt] = r.seen
    /\ r.seen.owner = r.owner /\ r.seen.exam = Practice /\ r.seen.state = "open"
    /\ r.seen.ex \in Playable(r.owner.course)
    /\ r.ans # Malformed

StartSerial(s) ==
  LET r == requests[s] IN
  r.op = "start" =>
    /\ ScopeModules(r.owner.course, r.scope) # {}
    /\ OpenSittings(r.owner, r.scope) \subseteq DOMAIN r.seen
    /\ \A e \in DOMAIN r.seen : r.seen[e].scope = r.scope /\ AsSeen(e, r.seen[e])

ExamAnswerSerial(s) ==
  LET r == requests[s] IN
  r.op = "examAnswer" => InProgress(r.owner, attempts[r.attempt].exam)

SubmitSerial(s) ==
  LET r == requests[s] IN
  r.op = "submit" =>
    /\ exams[r.exam] = r.seen
    /\ r.at = "commit" => r.rows = [a \in QuestionsOf(r.exam) |-> attempts[a]]

AbandonSerial(s) ==
  LET r == requests[s] IN
  r.op = "abandon" => AsSeen(r.exam, r.seen)

RequestSerial(s) ==
  /\ OpenSerial(s) /\ AnswerSerial(s)
  /\ StartSerial(s) /\ ExamAnswerSerial(s) /\ SubmitSerial(s) /\ AbandonSerial(s)

SerialInvariant ==
  /\ FlightInvariant
  /\ LaneInvariant
  /\ Admitted
  /\ \A s \in Slots : RequestSerial(s)

----------------------------------------------------------------------------
(* Each commit is one step of Lanes, or writes nothing.                    *)

LEMMA SerialRequest ==
  ASSUME SerialInvariant, NEW s \in Slots
  PROVE  /\ FlightInvariant /\ TypeOK /\ SittingAgreement /\ RequestSerial(s)
         /\ \A e \in DOMAIN exams : Agrees(e)
  BY DEF SerialInvariant, LaneInvariant, FlightInvariant, SittingAgreement

LEMMA OpenCommitIsOpen ==
  ASSUME SerialInvariant, NEW s \in Slots, OpenCommit(s)
  PROVE  OpenAttempt(requests[s].owner, requests[s].ex)
<1>1. requests[s].op = "open" /\ FlightInvariant /\ OpenSerial(s)
  BY SerialRequest DEF OpenCommit, Pending, RequestSerial
<1>2. StillOpen(requests[s].found) = Superseded(requests[s].owner, requests[s].ex)
  BY <1>1 DEF OpenSerial, StillOpen, Superseded
<1>3. requests[s].ex \in Playable(requests[s].owner.course)
  BY <1>1 DEF OpenSerial
<1>. QED
  BY <1>2, <1>3 DEF OpenCommit, OpenAttempt

LEMMA AnswerCommitIsAnswer ==
  ASSUME SerialInvariant, NEW s \in Slots, AnswerCommit(s)
  PROVE  SubmitAnswer(requests[s].owner, requests[s].attempt, requests[s].ans)
<1> DEFINE r == requests[s]
           verdict == Verdict(r.seen.ex, r.ans)
<1>1. requests[s].op = "answer" /\ FlightInvariant /\ AnswerSerial(s) /\ AnswerOK(s)
  BY SerialRequest, PendingRequest DEF AnswerCommit, Pending, RequestSerial
<1>2. /\ r.attempt \in DOMAIN attempts /\ r.ans \in Answers
      /\ r.seen.given = None /\ r.seen.verdict = "none"
      /\ attempts[r.attempt] = r.seen
  BY <1>1 DEF AnswerOK, AnswerSerial
<1>3. /\ Column(r.seen.given, r.ans, attempts[r.attempt].given) = r.ans
      /\ Column(r.seen.verdict, verdict, attempts[r.attempt].verdict) = verdict
  BY <1>2, ConstantsAssumption DEF Column, Verdict
<1>4. attempts' = [attempts EXCEPT
        ![r.attempt].given = Column(r.seen.given, r.ans, @),
        ![r.attempt].verdict = Column(r.seen.verdict, verdict, @),
        ![r.attempt].state = "answered"]
  BY DEF AnswerCommit
<1>5. attempts' = [attempts EXCEPT ![r.attempt].given = r.ans,
                                   ![r.attempt].verdict = Verdict(attempts[r.attempt].ex, r.ans),
                                   ![r.attempt].state = "answered"]
  BY <1>2, <1>3, <1>4
<1>6. exams' = exams /\ catalog' = catalog
  BY DEF AnswerCommit
<1>. QED
  BY <1>1, <1>2, <1>5, <1>6 DEF SubmitAnswer, AnswerSerial

\* What a start read as open and finds otherwise has been abandoned already, so
\* abandoning it again with its questions changes nothing.
LEMMA SeenSittings ==
  ASSUME SerialInvariant, NEW s \in Slots, requests[s].op = "start"
  PROVE  LET r == requests[s]
             closed == OpenSittings(r.owner, r.scope)
         IN  /\ closed \subseteq DOMAIN r.seen /\ DOMAIN r.seen \subseteq DOMAIN exams
             /\ \A e \in closed : exams[e] = r.seen[e]
             /\ \A e \in DOMAIN r.seen \ closed :
                  /\ exams[e] = [r.seen[e] EXCEPT !.status = "abandoned"]
                  /\ \A a \in QuestionsOf(e) : Abandoned(attempts[a]) = attempts[a]
<1> DEFINE r == requests[s]
           closed == OpenSittings(r.owner, r.scope)
<1>1. FlightInvariant /\ StartOK(s) /\ StartSerial(s) /\ \A e \in DOMAIN exams : Agrees(e)
  BY SerialRequest, PendingRequest DEF RequestSerial
<1>2. closed \subseteq DOMAIN r.seen /\ DOMAIN r.seen \subseteq DOMAIN exams
  BY <1>1 DEF StartOK, StartSerial, SeenOpen
<1>3. ASSUME NEW e \in DOMAIN r.seen
      PROVE  /\ r.seen[e].status = "open" /\ [r.seen[e] EXCEPT !.status = "abandoned"].status = "abandoned"
             /\ AsSeen(e, r.seen[e]) /\ r.seen[e].scope = r.scope /\ r.seen[e].owner = r.owner
  BY <1>1 DEF StartOK, StartSerial, SeenOpen, IsExamRow
<1>4. ASSUME NEW e \in closed PROVE exams[e] = r.seen[e]
  <2>1. exams[e].status = "open"
    BY DEF OpenSittings
  <2>. QED BY <1>2, <1>3, <2>1 DEF AsSeen
<1>5. ASSUME NEW e \in DOMAIN r.seen \ closed
      PROVE  /\ exams[e] = [r.seen[e] EXCEPT !.status = "abandoned"]
             /\ \A a \in QuestionsOf(e) : Abandoned(attempts[a]) = attempts[a]
  <2>1. e \in DOMAIN exams /\ e \notin closed
    BY <1>2
  <2>2. exams[e] # r.seen[e]
    BY <1>3, <2>1 DEF OpenSittings
  <2>3. exams[e] = [r.seen[e] EXCEPT !.status = "abandoned"] /\ exams[e].status = "abandoned"
    BY <1>3, <2>2 DEF AsSeen
  <2>4. ASSUME NEW a \in QuestionsOf(e) PROVE Abandoned(attempts[a]) = attempts[a]
    <3>1. attempts[a] \in AttemptRow
      BY <1>1, StoredRows DEF QuestionsOf
    <3>2. attempts[a].state = "abandoned"
      BY <1>1, <2>1, <2>3 DEF Agrees
    <3>. QED BY <3>1, <3>2 DEF Abandoned, AttemptRow
  <2>. QED BY <2>3, <2>4
<1>. QED
  BY <1>2, <1>4, <1>5

LEMMA StartCommitIsStart ==
  ASSUME SerialInvariant, NEW s \in Slots, StartCommit(s)
  PROVE  StartExam(requests[s].owner, requests[s].scope)
<1> DEFINE r == requests[s]
           o == r.owner
           scope == r.scope
           mods == ScopeModules(o.course, scope)
           closed == OpenSittings(o, scope)
           e == CHOOSE i \in ExamIds \ DOMAIN exams : TRUE
           ids == CHOOSE f \in FreshIds(mods) : TRUE
           new == {ids[i] : i \in mods}
<1>1. r.op = "start" /\ mods # {} /\ FlightInvariant
  BY SerialRequest DEF StartCommit, Pending, RequestSerial, StartSerial
<1>2. /\ closed \subseteq DOMAIN r.seen /\ DOMAIN r.seen \subseteq DOMAIN exams
      /\ \A f \in closed : exams[f] = r.seen[f]
      /\ \A f \in DOMAIN r.seen \ closed :
           /\ exams[f] = [r.seen[f] EXCEPT !.status = "abandoned"]
           /\ \A a \in QuestionsOf(f) : Abandoned(attempts[a]) = attempts[a]
  BY <1>1, SeenSittings
<1>3. e \notin DOMAIN exams /\ ExamIds \ DOMAIN exams # {} /\ FreshIds(mods) # {}
  BY DEF StartCommit
<1>4. new \cap DOMAIN attempts = {}
  <2>1. ids \in [mods -> FreshAttempts]
    BY <1>3 DEF FreshIds
  <2>2. new \subseteq FreshAttempts
    BY <2>1
  <2>. QED BY <2>2, FreshIsNew
<1>5. PICK pick \in [mods -> Exercises] :
        LET order == [x \in {pick[i] : i \in mods} |-> CHOOSE i \in mods : pick[i] = x]
        IN  /\ \A i \in mods : pick[i] \in catalog[o.course][i].bank
            /\ exams' = Write(exams,
                 [f \in DOMAIN r.seen \cup {e} |->
                    IF f = e THEN NewExam(o, scope, order)
                    ELSE [r.seen[f] EXCEPT !.status = "abandoned"]])
            /\ attempts' = Write(attempts,
                 [a \in {b \in DOMAIN attempts : attempts[b].exam \in DOMAIN r.seen} \cup new |->
                    IF a \in DOMAIN attempts THEN Abandoned(attempts[a])
                    ELSE NewAttempt(o, pick[CHOOSE i \in mods : ids[i] = a], e)])
  BY DEF StartCommit
<1> DEFINE order == [x \in {pick[i] : i \in mods} |-> CHOOSE i \in mods : pick[i] = x]
           added == NewExam(o, scope, order)
           row(a) == NewAttempt(o, pick[CHOOSE i \in mods : ids[i] = a], e)
<1>6. Write(exams, [f \in DOMAIN r.seen \cup {e} |->
                      IF f = e THEN added ELSE [r.seen[f] EXCEPT !.status = "abandoned"]])
        = Write(exams, [f \in closed \cup {e} |->
                      IF f = e THEN added ELSE [exams[f] EXCEPT !.status = "abandoned"]])
  <2> HIDE DEF added, e, closed, r
  <2>. QED BY <1>2, <1>3 DEF Write
<1>7. Write(attempts,
        [a \in {b \in DOMAIN attempts : attempts[b].exam \in DOMAIN r.seen} \cup new |->
           IF a \in DOMAIN attempts THEN Abandoned(attempts[a]) ELSE row(a)])
        = Write(attempts,
        [a \in {b \in DOMAIN attempts : attempts[b].exam \in closed} \cup new |->
           IF a \in DOMAIN attempts THEN Abandoned(attempts[a]) ELSE row(a)])
  <2> HIDE DEF row, new, closed, r
  <2>1. \A a \in DOMAIN attempts :
          attempts[a].exam \in DOMAIN r.seen \ closed => Abandoned(attempts[a]) = attempts[a]
    BY <1>2 DEF QuestionsOf
  <2>. QED BY <1>2, <1>4, <2>1 DEF Write
<1>8. catalog' = catalog
  BY DEF StartCommit
<1>. QED
  BY <1>1, <1>3, <1>5, <1>6, <1>7, <1>8 DEF StartExam

LEMMA ExamAnswerCommitIsAnswer ==
  ASSUME SerialInvariant, NEW s \in Slots, ExamAnswerCommit(s)
  PROVE  LET r == requests[s] IN
         UNCHANGED vars \/ AnswerQuestion(r.owner, attempts[r.attempt].exam, r.attempt, r.ans)
<1> DEFINE r == requests[s]
<1>1. FlightInvariant /\ ExamAnswerOK(s) /\ ExamAnswerSerial(s) /\ r.op = "examAnswer"
  BY SerialRequest, PendingRequest DEF ExamAnswerCommit, Pending, RequestSerial
<1>2. r.attempt \in DOMAIN attempts /\ InProgress(r.owner, attempts[r.attempt].exam)
  BY <1>1 DEF ExamAnswerOK, ExamAnswerSerial
<1>3. exams' = exams /\ catalog' = catalog
  BY DEF ExamAnswerCommit
<1>4. attempts' = [attempts EXCEPT ![r.attempt].given = Column(r.seen, r.ans, @)]
  BY DEF ExamAnswerCommit
<1>5. CASE r.ans = r.seen
  <2>1. attempts[r.attempt] \in AttemptRow /\ attempts = [a \in DOMAIN attempts |-> attempts[a]]
    BY <1>1, <1>2, StoredRows DEF FlightInvariant, TypeOK
  <2>2. attempts' = attempts
    BY <1>2, <1>4, <1>5, <2>1 DEF Column, AttemptRow
  <2>. QED BY <1>3, <2>2 DEF vars
<1>6. CASE r.ans # r.seen
  <2>1. attempts' = [attempts EXCEPT ![r.attempt].given = r.ans]
    BY <1>4, <1>6 DEF Column
  <2>. QED BY <1>2, <1>3, <2>1 DEF AnswerQuestion, QuestionsOf
<1>. QED
  BY <1>5, <1>6

LEMMA SubmitCommitIsSubmit ==
  ASSUME SerialInvariant, NEW s \in Slots, SubmitCommit(s)
  PROVE  SubmitExam(requests[s].owner, requests[s].exam)
<1> DEFINE r == requests[s]
           o == r.owner
           e == r.exam
           c == r.owner.course
           result == [a \in DOMAIN r.rows |-> ResultEntry(c, r.rows[a])]
<1>1. /\ FlightInvariant /\ SubmitOK(s) /\ SubmitSerial(s)
      /\ r.op = "submit" /\ r.at = "commit"
  BY SerialRequest, PendingRequest DEF SubmitCommit, Pending, RequestSerial
<1>2. /\ e \in DOMAIN exams /\ exams[e] = r.seen /\ InProgress(o, e)
      /\ r.rows = [a \in QuestionsOf(e) |-> attempts[a]]
  BY <1>1 DEF SubmitOK, SubmitSerial, SeenOpen, InProgress
<1>3. result = [a \in QuestionsOf(e) |-> ResultEntry(o.course, attempts[a])]
  BY <1>2
<1>4. exams' = [exams EXCEPT ![e].status = "submitted",
                             ![e].result = [a \in QuestionsOf(e) |-> ResultEntry(o.course, attempts[a])]]
  <2>1. exams' = [exams EXCEPT ![e] = [r.seen EXCEPT !.status = "submitted", !.result = result]]
    BY DEF SubmitCommit
  <2> HIDE DEF result
  <2>2. exams' = [exams EXCEPT ![e].status = "submitted", ![e].result = result]
    BY <1>2, <2>1
  <2>. QED BY <1>3, <2>2
<1>5. attempts' = Write(attempts, [a \in QuestionsOf(e) |-> Graded(o.course, attempts[a])])
  <2>1. attempts' = Write(attempts,
          [a \in DOMAIN r.rows |->
             [attempts[a] EXCEPT
                !.verdict = Column(r.rows[a].verdict, ExamVerdict(c, r.rows[a]), @),
                !.state = Column(r.rows[a].state, "answered", @)]])
    BY DEF SubmitCommit
  <2>2. ASSUME NEW a \in QuestionsOf(e)
        PROVE  [attempts[a] EXCEPT
                  !.verdict = Column(r.rows[a].verdict, ExamVerdict(c, r.rows[a]), @),
                  !.state = Column(r.rows[a].state, "answered", @)] = Graded(o.course, attempts[a])
    BY <1>2 DEF Graded, Column
  <2>3. DOMAIN r.rows = QuestionsOf(e)
    BY <1>2
  <2>. QED BY <2>1, <2>2, <2>3
<1>6. catalog' = catalog
  BY DEF SubmitCommit
<1>. QED
  BY <1>2, <1>4, <1>5, <1>6 DEF SubmitExam

LEMMA AbandonCommitIsAbandon ==
  ASSUME SerialInvariant, NEW s \in Slots, AbandonCommit(s)
  PROVE  UNCHANGED vars \/ AbandonExam(requests[s].owner, requests[s].exam)
<1> DEFINE r == requests[s]
           e == r.exam
<1>1. /\ FlightInvariant /\ AbandonOK(s) /\ AbandonSerial(s) /\ r.op = "abandon"
      /\ \A f \in DOMAIN exams : Agrees(f)
  BY SerialRequest, PendingRequest DEF AbandonCommit, Pending, RequestSerial
<1>2. /\ e \in DOMAIN exams /\ exams[e].owner = r.owner /\ r.seen.status = "open"
      /\ AsSeen(e, r.seen) /\ IsExamRow(r.seen)
  BY <1>1 DEF AbandonOK, AbandonSerial, SeenOpen
<1>3. CASE exams[e] = r.seen
  <2>1. InProgress(r.owner, e)
    BY <1>2, <1>3 DEF InProgress
  <2>2. exams' = [exams EXCEPT ![e].status = "abandoned"]
    BY <1>3 DEF AbandonCommit
  <2>3. attempts' = Write(attempts, [a \in QuestionsOf(e) |-> Abandoned(attempts[a])])
    BY DEF AbandonCommit, BulkAbandoned
  <2>4. catalog' = catalog
    BY DEF AbandonCommit
  <2>. QED BY <2>1, <2>2, <2>3, <2>4 DEF AbandonExam
<1>4. CASE exams[e] = [r.seen EXCEPT !.status = "abandoned"]
  <2>1. exams[e].status = "abandoned"
    BY <1>2, <1>4 DEF IsExamRow
  <2>2. ASSUME NEW a \in QuestionsOf(e) PROVE Abandoned(attempts[a]) = attempts[a]
    <3>1. attempts[a] \in AttemptRow /\ attempts[a].state = "abandoned"
      BY <1>1, <1>2, <2>1, StoredRows DEF QuestionsOf, Agrees
    <3>. QED BY <3>1 DEF Abandoned, AttemptRow
  <2>3. /\ attempts' = [a \in DOMAIN attempts |->
                          IF a \in QuestionsOf(e) THEN Abandoned(attempts[a]) ELSE attempts[a]]
        /\ exams' = [f \in DOMAIN exams |->
                       IF f = e THEN [r.seen EXCEPT !.status = "abandoned"] ELSE exams[f]]
    BY <1>1, AbandonCommitEffect
  <2>4. /\ attempts = [a \in DOMAIN attempts |-> attempts[a]]
        /\ exams = [f \in DOMAIN exams |-> exams[f]]
    BY <1>1 DEF FlightInvariant, TypeOK
  <2>5. attempts' = attempts
    BY <2>2, <2>3, <2>4
  <2>6. exams' = exams
    <3> DEFINE row == [r.seen EXCEPT !.status = "abandoned"]
    <3>1. exams[e] = row /\ exams' = [f \in DOMAIN exams |-> IF f = e THEN row ELSE exams[f]]
      BY <1>4, <2>3
    <3> HIDE DEF row
    <3>. QED BY <2>4, <3>1
  <2>7. catalog' = catalog
    BY DEF AbandonCommit
  <2>. QED BY <2>5, <2>6, <2>7 DEF vars
<1>. QED
  BY <1>2, <1>3, <1>4 DEF AsSeen

----------------------------------------------------------------------------
(* What a step of Lanes spares: other learners, and the other lane.        *)

\* p's practice rows, and p's exams with their questions, are left alone.
PracticeSpared(p) ==
  /\ \A a \in DOMAIN attempts :
       attempts[a].owner = p /\ attempts[a].exam = Practice => attempts'[a] = attempts[a]
  /\ \A a \in DOMAIN attempts' \ DOMAIN attempts :
       ~ (attempts'[a].owner = p /\ attempts'[a].exam = Practice)

SittingsSpared(p) ==
  /\ \A a \in DOMAIN attempts :
       attempts[a].owner = p /\ attempts[a].exam # Practice => attempts'[a] = attempts[a]
  /\ \A e \in DOMAIN exams : exams[e].owner = p => exams'[e] = exams[e]
  /\ \A e \in DOMAIN exams' \ DOMAIN exams : exams'[e].owner # p

LEMMA OpenAttemptSpares ==
  ASSUME LaneInvariant, NEW o \in Owner, NEW x \in Exercises, OpenAttempt(o, x), NEW p
  PROVE  SittingsSpared(p) /\ (p # o => PracticeSpared(p))
<1>1. PICK new \in FreshAttempts :
        /\ DOMAIN attempts' = DOMAIN attempts \cup {new}
        /\ attempts'[new] = NewAttempt(o, x, Practice)
        /\ \A a \in DOMAIN attempts :
             attempts'[a] = IF a \in Superseded(o, x) THEN Abandoned(attempts[a])
                            ELSE attempts[a]
  BY OpenAttemptEffect DEF LaneInvariant
<1>2. attempts'[new].owner = o
  BY <1>1, NewAttemptRow
<1>3. \A a \in Superseded(o, x) : attempts[a].owner = o /\ attempts[a].exam = Practice
  BY DEF Superseded
<1>4. exams' = exams
  BY DEF OpenAttempt
<1>. QED
  BY <1>1, <1>2, <1>3, <1>4 DEF PracticeSpared, SittingsSpared

LEMMA SubmitAnswerSpares ==
  ASSUME LaneInvariant, NEW o \in Owner, NEW a \in AttemptIds, NEW ans \in Answers,
         SubmitAnswer(o, a, ans), attempts[a].exam = Practice, NEW p
  PROVE  SittingsSpared(p) /\ (p # o => PracticeSpared(p))
<1>1. /\ attempts[a].owner = o /\ exams' = exams
      /\ attempts' = [b \in DOMAIN attempts |-> attempts'[b]]
      /\ \A b \in DOMAIN attempts \ {a} : attempts'[b] = attempts[b]
  BY SubmitAnswerEffect DEF LaneInvariant
<1>2. DOMAIN attempts' = DOMAIN attempts
  BY <1>1
<1>. QED
  BY <1>1, <1>2 DEF PracticeSpared, SittingsSpared

LEMMA UntouchedSpares ==
  ASSUME StepScope, PracticeUntouched, NEW p
  PROVE  PracticeSpared(p)
  BY DEF StepScope, RowKept, PracticeUntouched, PracticeSpared

LEMMA AnswerQuestionSpares ==
  ASSUME LaneInvariant, NEW o \in Owner, NEW e \in ExamIds, NEW a \in AttemptIds,
         NEW ans \in Answers, AnswerQuestion(o, e, a, ans), NEW p
  PROVE  PracticeSpared(p) /\ (p # o => SittingsSpared(p))
<1>1. PracticeSpared(p)
  BY AnswerQuestionScope, UntouchedSpares
<1>2. /\ a \in DOMAIN attempts /\ attempts[a].exam = e /\ e \in DOMAIN exams
      /\ \A b \in DOMAIN attempts \ {a} : attempts'[b] = attempts[b]
      /\ exams' = exams
  BY AnswerQuestionEffect DEF LaneInvariant
<1>3. attempts[a].owner = o
  BY <1>2 DEF AnswerQuestion, InProgress, QuestionsOf, LaneInvariant, SittingAgreement, Agrees
<1>. QED
  BY <1>1, <1>2, <1>3 DEF SittingsSpared

LEMMA ClosingSpares ==
  ASSUME LaneInvariant, NEW o \in Owner, NEW e \in ExamIds,
         SubmitExam(o, e) \/ AbandonExam(o, e), NEW p
  PROVE  PracticeSpared(p) /\ (p # o => SittingsSpared(p))
<1>1. PracticeSpared(p)
  BY ClosingScope, UntouchedSpares
<1>2. /\ e \in DOMAIN exams /\ exams[e].owner = o
      /\ DOMAIN exams' = DOMAIN exams
      /\ \A f \in DOMAIN exams \ {e} : exams'[f] = exams[f]
      /\ \A a \in DOMAIN attempts \ QuestionsOf(e) : attempts'[a] = attempts[a]
  <2>1. CASE SubmitExam(o, e)
    <3> DEFINE row == [exams[e] EXCEPT !.status = "submitted",
                         !.result = [a \in QuestionsOf(e) |-> ResultEntry(o.course, attempts[a])]]
    <3>1. /\ e \in DOMAIN exams /\ exams[e].owner = o
          /\ exams' = [f \in DOMAIN exams |-> IF f = e THEN row ELSE exams[f]]
          /\ attempts' = [a \in DOMAIN attempts |->
                            IF a \in QuestionsOf(e) THEN Graded(o.course, attempts[a])
                            ELSE attempts[a]]
      BY <2>1, SubmitExamEffect DEF LaneInvariant
    <3> HIDE DEF row
    <3>. QED BY <3>1
  <2>2. CASE AbandonExam(o, e)
    <3>1. /\ e \in DOMAIN exams /\ exams[e].owner = o
          /\ exams' = [f \in DOMAIN exams |->
                         IF f = e THEN [exams[e] EXCEPT !.status = "abandoned"] ELSE exams[f]]
          /\ attempts' = [a \in DOMAIN attempts |->
                            IF a \in QuestionsOf(e) THEN Abandoned(attempts[a]) ELSE attempts[a]]
      BY <2>2, AbandonExamEffect DEF LaneInvariant
    <3>. QED BY <3>1
  <2>. QED BY <2>1, <2>2
<1>3. \A a \in QuestionsOf(e) : attempts[a].owner = o
  BY <1>2 DEF LaneInvariant, SittingAgreement, Agrees
<1>. QED
  BY <1>1, <1>2, <1>3 DEF SittingsSpared

LEMMA StartExamSpares ==
  ASSUME LaneInvariant, NEW o \in Owner, NEW scope \in Scope, StartExam(o, scope), NEW p
  PROVE  PracticeSpared(p) /\ (p # o => SittingsSpared(p))
<1>1. PracticeSpared(p)
  BY StartExamScope, UntouchedSpares
<1>2. PICK e, new, order : Started(o, scope, e, new, order)
  BY StartExamEffect DEF LaneInvariant
<1>3. /\ e \notin DOMAIN exams
      /\ exams' = [f \in DOMAIN exams \cup {e} |->
                     IF f = e THEN NewExam(o, scope, order)
                     ELSE IF f \in OpenSittings(o, scope)
                     THEN [exams[f] EXCEPT !.status = "abandoned"]
                     ELSE exams[f]]
      /\ \A a \in DOMAIN attempts :
           attempts'[a] = IF attempts[a].exam \in OpenSittings(o, scope)
                          THEN Abandoned(attempts[a]) ELSE attempts[a]
  BY <1>2 DEF Started
<1>4. \A f \in OpenSittings(o, scope) :
        /\ f \in DOMAIN exams /\ exams[f].owner = o
        /\ \A a \in QuestionsOf(f) : attempts[a].owner = o
  BY DEF OpenSittings, LaneInvariant, SittingAgreement, Agrees
<1>5. exams'[e].owner = o
  BY <1>3 DEF NewExam
<1>6. \A a \in DOMAIN attempts : attempts[a].exam \in OpenSittings(o, scope) => attempts[a].owner = o
  BY <1>4 DEF QuestionsOf
<1>. QED
  BY <1>1, <1>3, <1>4, <1>5, <1>6 DEF SittingsSpared

\* Abandoning, and starting, never leave an exam of a learner other than it was but
\* abandoned; answering and abandoning add none.
LEMMA AbandonOnlyAbandons ==
  ASSUME LaneInvariant, NEW o \in Owner, NEW e \in ExamIds, AbandonExam(o, e)
  PROVE  /\ DOMAIN exams' = DOMAIN exams
         /\ \A f \in DOMAIN exams :
              exams'[f] = exams[f] \/ exams'[f] = [exams[f] EXCEPT !.status = "abandoned"]
<1>1. exams' = [f \in DOMAIN exams |->
                  IF f = e THEN [exams[e] EXCEPT !.status = "abandoned"] ELSE exams[f]]
  BY AbandonExamEffect DEF LaneInvariant
<1>. QED
  BY <1>1

LEMMA StartOnlyAbandons ==
  ASSUME LaneInvariant, NEW o \in Owner, NEW scope \in Scope, StartExam(o, scope)
  PROVE  \A f \in DOMAIN exams :
           /\ f \in DOMAIN exams'
           /\ exams'[f] = exams[f] \/ exams'[f] = [exams[f] EXCEPT !.status = "abandoned"]
<1>1. PICK e, new, order : Started(o, scope, e, new, order)
  BY StartExamEffect DEF LaneInvariant
<1>2. /\ e \notin DOMAIN exams
      /\ exams' = [f \in DOMAIN exams \cup {e} |->
                     IF f = e THEN NewExam(o, scope, order)
                     ELSE IF f \in OpenSittings(o, scope)
                     THEN [exams[f] EXCEPT !.status = "abandoned"]
                     ELSE exams[f]]
  BY <1>1 DEF Started
<1>. QED
  BY <1>2

----------------------------------------------------------------------------
(* What the other requests have read stays true.                           *)

LEMMA UnreadStays ==
  ASSUME UNCHANGED vars, NEW t \in Slots, RequestSerial(t), requests'[t] = requests[t]
  PROVE  RequestSerial(t)'
<1>1. OpenSerial(t)'
  BY DEF vars, RequestSerial, OpenSerial, Superseded, Playable
<1>2. AnswerSerial(t)'
  BY DEF vars, RequestSerial, AnswerSerial, Playable
<1>3. StartSerial(t)'
  BY DEF vars, RequestSerial, StartSerial, ScopeModules, OpenSittings, AsSeen
<1>4. ExamAnswerSerial(t)'
  BY DEF vars, RequestSerial, ExamAnswerSerial, InProgress
<1>5. SubmitSerial(t)'
  BY DEF vars, RequestSerial, SubmitSerial, QuestionsOf
<1>6. AbandonSerial(t)'
  BY DEF vars, RequestSerial, AbandonSerial, AsSeen
<1>. QED
  BY <1>1, <1>2, <1>3, <1>4, <1>5, <1>6 DEF RequestSerial

\* A request of the practice lane, while its learner's practice rows are spared.
LEMMA PracticeReadStays ==
  ASSUME SerialInvariant, RowsStay, catalog' = catalog, NEW t \in Slots,
         requests'[t] = requests[t], requests[t].op \in PracticeOps,
         PracticeSpared(requests[t].owner)
  PROVE  RequestSerial(t)'
<1> DEFINE r == requests[t]
<1>1. FlightInvariant /\ RequestSerial(t)
  BY SerialRequest
<1>2. CASE r.op = "open"
  <2>1. OpenSerial(t)
    BY <1>1 DEF RequestSerial
  <2>2. Superseded(r.owner, r.ex) = {a \in DOMAIN attempts' :
          /\ attempts'[a].owner = r.owner /\ attempts'[a].ex = r.ex
          /\ attempts'[a].state = "open" /\ attempts'[a].exam = Practice}
    BY DEF RowsStay, PracticeSpared, Superseded
  <2>3. OpenSerial(t)'
    BY <2>1, <2>2 DEF OpenSerial, Superseded, Playable
  <2>. QED BY <1>2, <2>3 DEF RequestSerial, AnswerSerial, StartSerial, ExamAnswerSerial,
                             SubmitSerial, AbandonSerial
<1>3. CASE r.op = "answer"
  <2>1. AnswerSerial(t) /\ AnswerOK(t)
    BY <1>1, <1>3, PendingRequest DEF RequestSerial
  <2>2. attempts'[r.attempt] = attempts[r.attempt]
    BY <1>3, <2>1 DEF AnswerOK, AnswerSerial, PracticeSpared
  <2>3. AnswerSerial(t)'
    BY <2>1, <2>2 DEF AnswerSerial, Playable
  <2>. QED BY <1>3, <2>3 DEF RequestSerial, OpenSerial, StartSerial, ExamAnswerSerial,
                             SubmitSerial, AbandonSerial
<1>. QED
  BY <1>2, <1>3 DEF PracticeOps

\* A request of the exam lane, while its learner's exams are spared.
LEMMA SittingReadStays ==
  ASSUME SerialInvariant, RowsStay, catalog' = catalog, NEW t \in Slots,
         requests'[t] = requests[t], requests[t].op \in ExamOps,
         SittingsSpared(requests[t].owner)
  PROVE  RequestSerial(t)'
<1> DEFINE r == requests[t]
<1>1. FlightInvariant /\ RequestSerial(t) /\ TypeOK
  BY SerialRequest
<1>2. CASE r.op = "start"
  <2>1. StartSerial(t) /\ StartOK(t)
    BY <1>1, <1>2, PendingRequest DEF RequestSerial
  <2>2. \A e \in DOMAIN r.seen : exams'[e] = exams[e]
    BY <2>1 DEF StartOK, SeenOpen, SittingsSpared
  <2>3. \A e \in DOMAIN exams' :
          exams'[e].owner = r.owner => e \in DOMAIN exams /\ exams'[e] = exams[e]
    BY DEF SittingsSpared, RowsStay
  <2>4. StartSerial(t)'
    BY <2>1, <2>2, <2>3 DEF StartSerial, AsSeen, OpenSittings, ScopeModules
  <2>. QED BY <1>2, <2>4 DEF RequestSerial, OpenSerial, AnswerSerial, ExamAnswerSerial,
                             SubmitSerial, AbandonSerial
<1>3. CASE r.op = "examAnswer"
  <2>1. ExamAnswerSerial(t) /\ ExamAnswerOK(t)
    BY <1>1, <1>3, PendingRequest DEF RequestSerial
  <2>2. attempts'[r.attempt].exam = attempts[r.attempt].exam
    BY <2>1 DEF ExamAnswerOK, RowsStay
  <2>3. ExamAnswerSerial(t)'
    BY <1>3, <2>1, <2>2 DEF ExamAnswerSerial, InProgress, SittingsSpared, RowsStay
  <2>. QED BY <1>3, <2>3 DEF RequestSerial, OpenSerial, AnswerSerial, StartSerial,
                             SubmitSerial, AbandonSerial
<1>4. CASE r.op = "submit"
  <2>1. SubmitSerial(t) /\ SubmitOK(t)
    BY <1>1, <1>4, PendingRequest DEF RequestSerial
  <2>2. r.exam \in DOMAIN exams /\ exams[r.exam].owner = r.owner
    BY <2>1 DEF SubmitOK, SeenOpen
  <2>3. exams'[r.exam] = exams[r.exam]
    BY <2>2 DEF SittingsSpared
  <2>4. ASSUME NEW a \in QuestionsOf(r.exam)
        PROVE  attempts'[a] = attempts[a]
    <3>1. /\ a \in DOMAIN attempts /\ attempts[a].exam # Practice
          /\ attempts[a].owner = r.owner
      BY <1>1, <2>2, StoredRows, SerialRequest DEF QuestionsOf, Agrees
    <3>. QED BY <3>1 DEF SittingsSpared
  <2>5. {a \in DOMAIN attempts' : attempts'[a].exam = r.exam} = QuestionsOf(r.exam)
    <3>1. r.exam # Practice
      BY <1>1, <2>2, StoredRows
    <3>. QED BY <2>2, <3>1 DEF RowsStay, QuestionsOf
  <2>6. SubmitSerial(t)'
    BY <2>1, <2>3, <2>4, <2>5 DEF SubmitSerial, QuestionsOf
  <2>. QED BY <1>4, <2>6 DEF RequestSerial, OpenSerial, AnswerSerial, StartSerial,
                             ExamAnswerSerial, AbandonSerial
<1>5. CASE r.op = "abandon"
  <2>1. AbandonSerial(t) /\ AbandonOK(t)
    BY <1>1, <1>5, PendingRequest DEF RequestSerial
  <2>2. exams'[r.exam] = exams[r.exam]
    BY <2>1 DEF AbandonOK, SeenOpen, SittingsSpared
  <2>3. AbandonSerial(t)'
    BY <2>1, <2>2 DEF AbandonSerial, AsSeen
  <2>. QED BY <1>5, <2>3 DEF RequestSerial, OpenSerial, AnswerSerial, StartSerial,
                             ExamAnswerSerial, SubmitSerial
<1>. QED
  BY <1>2, <1>3, <1>4, <1>5 DEF ExamOps, PracticeOps, Operations

\* Answers to one exam next to each other.
LEMMA AnswerReadStays ==
  ASSUME SerialInvariant, RowsStay, exams' = exams, NEW t \in Slots,
         requests'[t] = requests[t], requests[t].op = "examAnswer"
  PROVE  RequestSerial(t)'
<1>1. ExamAnswerSerial(t) /\ ExamAnswerOK(t)
  BY SerialRequest, PendingRequest DEF RequestSerial
<1>2. ExamAnswerSerial(t)'
  BY <1>1 DEF ExamAnswerSerial, ExamAnswerOK, InProgress, RowsStay
<1>. QED
  BY <1>2 DEF RequestSerial, OpenSerial, AnswerSerial, StartSerial, SubmitSerial,
              AbandonSerial

\* An exam is at worst abandoned.
AtWorstAbandoned ==
  \A e \in DOMAIN exams :
    /\ e \in DOMAIN exams'
    /\ exams'[e] = exams[e] \/ exams'[e] = [exams[e] EXCEPT !.status = "abandoned"]

LEMMA AsSeenStays ==
  ASSUME AtWorstAbandoned, NEW e, NEW row, NEW o, SeenOpen(e, row, o), AsSeen(e, row)
  PROVE  exams'[e] = row \/ exams'[e] = [row EXCEPT !.status = "abandoned"]
<1> DEFINE closed == [row EXCEPT !.status = "abandoned"]
<1>1. e \in DOMAIN exams /\ [closed EXCEPT !.status = "abandoned"] = closed
  BY DEF SeenOpen, IsExamRow
<1>2. exams[e] = row \/ exams[e] = closed
  BY DEF AsSeen
<1>. QED
  BY <1>1, <1>2 DEF AtWorstAbandoned

LEMMA AbandonReadStays ==
  ASSUME SerialInvariant, AtWorstAbandoned, NEW t \in Slots,
         requests'[t] = requests[t], requests[t].op = "abandon"
  PROVE  RequestSerial(t)'
<1> DEFINE r == requests[t]
<1>1. AbandonSerial(t) /\ AbandonOK(t)
  BY SerialRequest, PendingRequest DEF RequestSerial
<1>2. exams'[r.exam] = r.seen \/ exams'[r.exam] = [r.seen EXCEPT !.status = "abandoned"]
  BY <1>1, AsSeenStays DEF AbandonOK, AbandonSerial
<1>3. AbandonSerial(t)'
  BY <1>2 DEF AbandonSerial, AsSeen
<1>. QED
  BY <1>3 DEF RequestSerial, OpenSerial, AnswerSerial, StartSerial, ExamAnswerSerial,
              SubmitSerial

\* A start next to a request that abandons, but adds nothing.
LEMMA StartReadStays ==
  ASSUME SerialInvariant, AtWorstAbandoned, DOMAIN exams' = DOMAIN exams,
         catalog' = catalog, NEW t \in Slots,
         requests'[t] = requests[t], requests[t].op = "start"
  PROVE  RequestSerial(t)'
<1> DEFINE r == requests[t]
<1>1. StartSerial(t) /\ StartOK(t) /\ FlightInvariant
  BY SerialRequest, PendingRequest DEF RequestSerial
<1>2. ASSUME NEW e \in DOMAIN r.seen
      PROVE  /\ r.seen[e].scope = r.scope
             /\ exams'[e] = r.seen[e] \/ exams'[e] = [r.seen[e] EXCEPT !.status = "abandoned"]
  BY <1>1, AsSeenStays DEF StartOK, StartSerial
<1>3. ASSUME NEW e \in DOMAIN exams, exams'[e].status = "open"
      PROVE  exams'[e] = exams[e]
  <2>1. [exams[e] EXCEPT !.status = "abandoned"].status = "abandoned"
    BY <1>1, StoredRows DEF IsExamRow
  <2>. QED BY <1>3, <2>1 DEF AtWorstAbandoned
<1>4. StartSerial(t)'
  BY <1>1, <1>2, <1>3 DEF StartSerial, AsSeen, OpenSittings, ScopeModules
<1>. QED
  BY <1>4 DEF RequestSerial, OpenSerial, AnswerSerial, ExamAnswerSerial, SubmitSerial,
              AbandonSerial

----------------------------------------------------------------------------
(* Every step keeps the invariant while only harmless requests overlap.    *)

\* What a request that proceeds leaves alone.
Spares(s) ==
  LET r == requests[s] IN
  /\ r.op \in PracticeOps =>
       \A p : SittingsSpared(p) /\ (p # r.owner => PracticeSpared(p))
  /\ r.op \in ExamOps =>
       \A p : PracticeSpared(p) /\ (p # r.owner => SittingsSpared(p))
  /\ r.op = "examAnswer" => exams' = exams
  /\ r.op \in {"start", "abandon"} => AtWorstAbandoned
  /\ r.op = "abandon" => DOMAIN exams' = DOMAIN exams

LEMMA StutterSpares == ASSUME UNCHANGED vars, NEW s \in Slots PROVE Spares(s)
  BY DEF vars, Spares, SittingsSpared, PracticeSpared, AtWorstAbandoned

LEMMA KindsOfRequests ==
  /\ "open" \in PracticeOps /\ "answer" \in PracticeOps
  /\ "open" \notin ExamOps /\ "answer" \notin ExamOps
  /\ \A op \in {"start", "examAnswer", "submit", "abandon"} : op \in ExamOps /\ op \notin PracticeOps
  BY DEF PracticeOps, ExamOps, Operations

\* Each request that proceeds is a step of Lanes, or writes nothing.
LEMMA ProceedIsStep ==
  ASSUME SerialInvariant, ~CrossLane, NEW s \in Slots, Proceed(s)
  PROVE  [Next]_vars /\ Spares(s)
<1> DEFINE r == requests[s]
           o == r.owner
<1>1. LaneInvariant /\ FlightInvariant /\ RequestSerial(s)
  BY SerialRequest DEF SerialInvariant
<1>2. CASE OpenCommit(s)
  <2>1. r.op = "open" /\ OpenOK(s)
    BY <1>1, <1>2, PendingRequest DEF OpenCommit, Pending
  <2>2. o \in Owner /\ r.ex \in Exercises /\ OpenAttempt(o, r.ex)
    BY <1>2, <2>1, OpenCommitIsOpen DEF OpenOK
  <2>3. \A p : SittingsSpared(p) /\ (p # o => PracticeSpared(p))
    BY <1>1, <2>2, OpenAttemptSpares
  <2>. QED BY <2>1, <2>2, <2>3, KindsOfRequests DEF Spares, Next
<1>3. CASE AnswerCommit(s)
  <2>1. r.op = "answer" /\ AnswerOK(s)
    BY <1>1, <1>3, PendingRequest DEF AnswerCommit, Pending
  <2>2. /\ o \in Owner /\ r.attempt \in AttemptIds /\ r.ans \in Answers
        /\ attempts[r.attempt].exam = Practice /\ SubmitAnswer(o, r.attempt, r.ans)
    BY <1>1, <1>3, <2>1, AnswerCommitIsAnswer, StoredRows DEF AnswerOK
  <2>3. \A p : SittingsSpared(p) /\ (p # o => PracticeSpared(p))
    BY <1>1, <2>2, SubmitAnswerSpares
  <2>. QED BY <2>1, <2>2, <2>3, KindsOfRequests DEF Spares, Next
<1>4. CASE StartCommit(s)
  <2>1. r.op = "start" /\ StartOK(s)
    BY <1>1, <1>4, PendingRequest DEF StartCommit, Pending
  <2>2. o \in Owner /\ r.scope \in Scope /\ StartExam(o, r.scope)
    BY <1>4, <2>1, StartCommitIsStart DEF StartOK
  <2>3. \A p : PracticeSpared(p) /\ (p # o => SittingsSpared(p))
    BY <1>1, <2>2, StartExamSpares
  <2>4. AtWorstAbandoned
    BY <1>1, <2>2, StartOnlyAbandons DEF AtWorstAbandoned
  <2>. QED BY <2>1, <2>2, <2>3, <2>4, KindsOfRequests DEF Spares, Next
<1>5. CASE ExamAnswerCommit(s)
  <2>1. r.op = "examAnswer" /\ ExamAnswerOK(s) /\ exams' = exams
    BY <1>1, <1>5, PendingRequest DEF ExamAnswerCommit, Pending
  <2>2. /\ o \in Owner /\ r.attempt \in AttemptIds /\ r.ans \in Answers
        /\ attempts[r.attempt].exam \in ExamIds
    BY <1>1, <2>1, StoredRows DEF ExamAnswerOK
  <2>3. CASE UNCHANGED vars
    BY <2>3, StutterSpares
  <2>4. CASE AnswerQuestion(o, attempts[r.attempt].exam, r.attempt, r.ans)
    <3>1. \A p : PracticeSpared(p) /\ (p # o => SittingsSpared(p))
      BY <1>1, <2>2, <2>4, AnswerQuestionSpares
    <3>. QED BY <2>1, <2>2, <2>4, <3>1, KindsOfRequests DEF Spares, Next
  <2>. QED BY <1>5, <2>3, <2>4, ExamAnswerCommitIsAnswer
<1>6. CASE SubmitCommit(s)
  <2>1. r.op = "submit" /\ SubmitOK(s)
    BY <1>1, <1>6, PendingRequest DEF SubmitCommit, Pending
  <2>2. o \in Owner /\ r.exam \in ExamIds /\ SubmitExam(o, r.exam)
    BY <1>1, <1>6, <2>1, SubmitCommitIsSubmit, StoredRows DEF SubmitOK
  <2>3. \A p : PracticeSpared(p) /\ (p # o => SittingsSpared(p))
    BY <1>1, <2>2, ClosingSpares
  <2>. QED BY <2>1, <2>2, <2>3, KindsOfRequests DEF Spares, Next
<1>7. CASE AbandonCommit(s)
  <2>1. r.op = "abandon" /\ AbandonOK(s)
    BY <1>1, <1>7, PendingRequest DEF AbandonCommit, Pending
  <2>2. o \in Owner /\ r.exam \in ExamIds
    BY <1>1, <2>1, StoredRows DEF AbandonOK
  <2>3. CASE UNCHANGED vars
    BY <2>3, StutterSpares
  <2>4. CASE AbandonExam(o, r.exam)
    <3>1. \A p : PracticeSpared(p) /\ (p # o => SittingsSpared(p))
      BY <1>1, <2>2, <2>4, ClosingSpares
    <3>2. AtWorstAbandoned /\ DOMAIN exams' = DOMAIN exams
      BY <1>1, <2>2, <2>4, AbandonOnlyAbandons DEF AtWorstAbandoned
    <3>. QED BY <2>1, <2>2, <2>4, <3>1, <3>2, KindsOfRequests DEF Spares, Next
  <2>. QED BY <1>7, <2>3, <2>4, AbandonCommitIsAbandon
<1>8. CASE ExamAnswerRead(s) \/ SubmitRead(s)
  BY <1>8, StutterSpares DEF ExamAnswerRead, SubmitRead
<1>. QED
  BY <1>2, <1>3, <1>4, <1>5, <1>6, <1>7, <1>8 DEF Proceed

LEMMA SafePairs ==
  ASSUME NEW p \in Operations, NEW q \in Operations, {p, q} \in SafeOverlap
  PROVE  \/ p \in PracticeOps /\ q \in ExamOps
         \/ p \in ExamOps /\ q \in PracticeOps
         \/ p = "examAnswer" /\ q = "examAnswer"
         \/ p = "abandon" /\ q \in {"start", "abandon"}
         \/ p = "start" /\ q = "abandon"
  BY DEF SafeOverlap, Operations, PracticeOps, ExamOps

\* A request in flight is not disturbed by another that proceeds.
LEMMA OthersStay ==
  ASSUME SerialInvariant, Overlap \subseteq SafeOverlap, NEW s \in Slots, Proceed(s),
         Spares(s), NEW t \in Slots, t # s
  PROVE  RequestSerial(t)'
<1> DEFINE r == requests[s]
           q == requests[t]
<1>1. FlightInvariant /\ RowsStay /\ catalog' = catalog /\ requests'[t] = q
  BY SerialRequest, ProceedRows DEF Proceed, OpenCommit, AnswerCommit, StartCommit,
     ExamAnswerRead, ExamAnswerCommit, SubmitRead, SubmitCommit, AbandonCommit, Serve,
     FlightInvariant, vars
<1>2. r.op \in Operations
  BY DEF Proceed, Pending, OpenCommit, AnswerCommit, StartCommit, ExamAnswerRead,
         ExamAnswerCommit, SubmitRead, SubmitCommit, AbandonCommit, Operations
<1>3. CASE q = Idle
  BY <1>1, <1>3 DEF Idle, RequestSerial, OpenSerial, AnswerSerial, StartSerial,
                    ExamAnswerSerial, SubmitSerial, AbandonSerial
<1>4. CASE q # Idle
  <2>1. q.op \in Operations /\ q.op # "idle" /\ r.op # "idle"
    BY <1>1, <1>2, <1>4 DEF FlightInvariant, RequestOK, OpenOK, AnswerOK, StartOK,
                            ExamAnswerOK, SubmitOK, AbandonOK, Operations
  <2>2. q.op \in PracticeOps \/ q.op \in ExamOps
    BY <2>1 DEF ExamOps
  <2>3. r.op \in PracticeOps \/ r.op \in ExamOps
    BY <1>2 DEF ExamOps
  <2>4. CASE r.owner # q.owner
    BY <1>1, <2>2, <2>3, <2>4, PracticeReadStays, SittingReadStays DEF Spares
  <2>5. CASE r.owner = q.owner
    <3>1. \/ r.op \in PracticeOps /\ q.op \in ExamOps
          \/ r.op \in ExamOps /\ q.op \in PracticeOps
          \/ r.op = "examAnswer" /\ q.op = "examAnswer"
          \/ r.op = "abandon" /\ q.op \in {"start", "abandon"}
          \/ r.op = "start" /\ q.op = "abandon"
      BY <1>2, <2>1, <2>5, SafePairs DEF SerialInvariant, Admitted
    <3>. QED BY <1>1, <3>1, PracticeReadStays, SittingReadStays, AnswerReadStays,
                AbandonReadStays, StartReadStays DEF Spares
  <2>. QED BY <2>4, <2>5
<1>. QED
  BY <1>3, <1>4

LEMMA IdleSerial ==
  ASSUME NEW t \in Slots, requests'[t] = Idle
  PROVE  RequestSerial(t)'
  BY DEF Idle, RequestSerial, OpenSerial, AnswerSerial, StartSerial, ExamAnswerSerial,
         SubmitSerial, AbandonSerial

\* The request that proceeds is done, or has read what is stored.
LEMMA OwnStays ==
  ASSUME SerialInvariant, NEW s \in Slots, Proceed(s)
  PROVE  RequestSerial(s)'
<1>1. FlightInvariant /\ RequestSerial(s)
  BY SerialRequest
<1>2. CASE Serve(s, Idle)
  BY <1>1, <1>2, ServedRequest, IdleSerial
<1>3. CASE ExamAnswerRead(s)
  <2> DEFINE given == attempts[requests[s].attempt].given
             request == [requests[s] EXCEPT !.at = "commit", !.seen = given]
  <2>1. Serve(s, request) /\ UNCHANGED vars /\ ExamAnswerOK(s) /\ ExamAnswerSerial(s)
    BY <1>1, <1>3, PendingRequest DEF ExamAnswerRead, Pending, RequestSerial
  <2>2. requests'[s] = request
    BY <1>1, <2>1, ServedRequest
  <2> HIDE DEF given
  <2>3. /\ requests'[s].op = "examAnswer" /\ requests'[s].owner = requests[s].owner
        /\ requests'[s].attempt = requests[s].attempt
    BY <2>1, <2>2 DEF ExamAnswerOK
  <2>4. ExamAnswerSerial(s)'
    BY <2>1, <2>3 DEF ExamAnswerOK, ExamAnswerSerial, InProgress, vars
  <2>. QED BY <2>3, <2>4 DEF RequestSerial, OpenSerial, AnswerSerial, StartSerial,
                             SubmitSerial, AbandonSerial
<1>4. CASE SubmitRead(s)
  <2> DEFINE rows == [a \in QuestionsOf(requests[s].exam) |-> attempts[a]]
             request == [requests[s] EXCEPT !.at = "commit", !.rows = rows]
  <2>1. Serve(s, request) /\ UNCHANGED vars /\ SubmitOK(s) /\ SubmitSerial(s)
    BY <1>1, <1>4, PendingRequest DEF SubmitRead, Pending, RequestSerial
  <2>2. requests'[s] = request
    BY <1>1, <2>1, ServedRequest
  <2>3. request.op = "submit" /\ request.rows = rows
        /\ request.exam = requests[s].exam /\ request.seen = requests[s].seen
    <3> HIDE DEF rows
    <3>. QED BY <2>1 DEF SubmitOK
  <2>4. /\ requests'[s].op = "submit" /\ requests'[s].exam = requests[s].exam
        /\ requests'[s].seen = requests[s].seen
        /\ requests'[s].rows = [a \in QuestionsOf(requests[s].exam) |-> attempts[a]]
    BY <2>2, <2>3
  <2>5. SubmitSerial(s)'
    BY <2>1, <2>4 DEF SubmitOK, SubmitSerial, QuestionsOf, vars
  <2>. QED BY <2>4, <2>5 DEF RequestSerial, OpenSerial, AnswerSerial, StartSerial,
                             ExamAnswerSerial, AbandonSerial
<1>. QED
  BY <1>2, <1>3, <1>4 DEF Proceed, OpenCommit, AnswerCommit, StartCommit,
     ExamAnswerCommit, SubmitCommit, AbandonCommit

\* A request starts from what is stored.
LEMMA BeginSerial ==
  ASSUME SerialInvariant, ~CrossLane, NEW s \in Slots, NEW o \in Owner, Begin(s, o)
  PROVE  RequestSerial(s)'
<1>1. FlightInvariant
  BY SerialRequest
<1>2. ASSUME NEW x \in Exercises, OpenBegin(s, o, x) PROVE RequestSerial(s)'
  <2>1. /\ UNCHANGED vars /\ x \in Playable(o.course)
        /\ requests'[s] = [op |-> "open", at |-> "commit", owner |-> o, ex |-> x,
                           found |-> Superseded(o, x)]
    BY <1>1, <1>2, ServedRequest DEF OpenBegin
  <2>2. OpenSerial(s)'
    BY <2>1 DEF OpenSerial, Superseded, Playable, vars
  <2>. QED BY <2>1, <2>2 DEF RequestSerial, AnswerSerial, StartSerial, ExamAnswerSerial,
                             SubmitSerial, AbandonSerial
<1>3. ASSUME NEW a \in AttemptIds, NEW ans \in Answers, AnswerBegin(s, o, a, ans)
      PROVE  RequestSerial(s)'
  <2>1. /\ UNCHANGED vars /\ attempts[a].owner = o /\ attempts[a].exam = Practice
        /\ attempts[a].state = "open" /\ attempts[a].ex \in Playable(o.course)
        /\ ans # Malformed
        /\ requests'[s] = [op |-> "answer", at |-> "commit", owner |-> o, attempt |-> a,
                           ans |-> ans, seen |-> attempts[a]]
    BY <1>1, <1>3, ServedRequest DEF AnswerBegin
  <2>2. AnswerSerial(s)'
    BY <2>1 DEF AnswerSerial, Playable, vars
  <2>. QED BY <2>1, <2>2 DEF RequestSerial, OpenSerial, StartSerial, ExamAnswerSerial,
                             SubmitSerial, AbandonSerial
<1>4. ASSUME NEW scope \in Scope, StartBegin(s, o, scope) PROVE RequestSerial(s)'
  <2> DEFINE seen == [e \in OpenSittings(o, scope) |-> exams[e]]
  <2>1. /\ UNCHANGED vars /\ ScopeModules(o.course, scope) # {}
        /\ requests'[s] = [op |-> "start", at |-> "commit", owner |-> o, scope |-> scope,
                           seen |-> seen]
    BY <1>1, <1>4, ServedRequest DEF StartBegin
  <2>2. /\ DOMAIN seen = OpenSittings(o, scope)
        /\ \A e \in DOMAIN seen : seen[e] = exams[e] /\ seen[e].scope = scope
    BY DEF OpenSittings
  <2> HIDE DEF seen
  <2>3. StartSerial(s)'
    BY <2>1, <2>2 DEF StartSerial, AsSeen, OpenSittings, ScopeModules, vars
  <2>. QED BY <2>1, <2>3 DEF RequestSerial, OpenSerial, AnswerSerial, ExamAnswerSerial,
                             SubmitSerial, AbandonSerial
<1>5. ASSUME NEW e \in ExamIds, NEW a \in AttemptIds, NEW ans \in Answers,
             ExamAnswerBegin(s, o, e, a, ans)
      PROVE  RequestSerial(s)'
  <2>1. /\ UNCHANGED vars /\ InProgress(o, e) /\ attempts[a].exam = e
        /\ requests'[s] = [op |-> "examAnswer", at |-> "read", owner |-> o, attempt |-> a,
                           ans |-> ans, seen |-> None]
    BY <1>1, <1>5, ServedRequest DEF ExamAnswerBegin, QuestionsOf
  <2>2. ExamAnswerSerial(s)'
    BY <2>1 DEF ExamAnswerSerial, InProgress, vars
  <2>. QED BY <2>1, <2>2 DEF RequestSerial, OpenSerial, AnswerSerial, StartSerial,
                             SubmitSerial, AbandonSerial
<1>6. ASSUME NEW e \in ExamIds, SubmitBegin(s, o, e) PROVE RequestSerial(s)'
  <2> DEFINE rows == [a \in {} |-> None]
  <2>1. /\ UNCHANGED vars
        /\ requests'[s] = [op |-> "submit", at |-> "read", owner |-> o, exam |-> e,
                           seen |-> exams[e], rows |-> rows]
    BY <1>1, <1>6, ServedRequest DEF SubmitBegin
  <2> HIDE DEF rows
  <2>2. SubmitSerial(s)'
    BY <2>1 DEF SubmitSerial, vars
  <2>. QED BY <2>1, <2>2 DEF RequestSerial, OpenSerial, AnswerSerial, StartSerial,
                             ExamAnswerSerial, AbandonSerial
<1>7. ASSUME NEW e \in ExamIds, AbandonBegin(s, o, e) PROVE RequestSerial(s)'
  <2>1. /\ UNCHANGED vars
        /\ requests'[s] = [op |-> "abandon", at |-> "commit", owner |-> o, exam |-> e,
                           seen |-> exams[e]]
    BY <1>1, <1>7, ServedRequest DEF AbandonBegin
  <2>2. AbandonSerial(s)'
    BY <2>1 DEF AbandonSerial, AsSeen, vars
  <2>. QED BY <2>1, <2>2 DEF RequestSerial, OpenSerial, AnswerSerial, StartSerial,
                             ExamAnswerSerial, SubmitSerial
<1>. QED
  BY <1>2, <1>3, <1>4, <1>5, <1>6, <1>7 DEF Begin

\* Every step is a step of Lanes or writes nothing, and leaves the rest sound.
LEMMA NextSerial ==
  ASSUME SerialInvariant, ~CrossLane, Overlap \subseteq SafeOverlap, [RNext]_rvars
  PROVE  SerialInvariant' /\ [Next]_vars
<1>1. FlightInvariant' /\ Admitted' /\ FlightInvariant /\ LaneInvariant
  BY NextFlight, NextAdmitted DEF SerialInvariant
<1>2. ASSUME NEW s \in Slots, NEW o \in Owner, Begin(s, o)
      PROVE  [Next]_vars /\ \A t \in Slots : RequestSerial(t)'
  <2>1. PICK request : Began(s, o, request)
    BY <1>2, BeginStep
  <2>2. UNCHANGED vars /\ \A t \in Slots \ {s} : requests'[t] = requests[t]
    BY <1>1, <2>1 DEF Began, Serve, FlightInvariant
  <2>3. ASSUME NEW t \in Slots, t # s PROVE RequestSerial(t)'
    BY <2>2, <2>3, UnreadStays DEF SerialInvariant
  <2>. QED BY <1>2, <2>2, <2>3, BeginSerial
<1>3. ASSUME NEW s \in Slots, Proceed(s)
      PROVE  [Next]_vars /\ \A t \in Slots : RequestSerial(t)'
  BY <1>3, ProceedIsStep, OthersStay, OwnStays
<1>4. CASE Restart
  <2>1. [Next]_vars
    BY <1>4 DEF Restart, Next, Redeploy
  <2>2. \A t \in Slots : RequestSerial(t)'
    BY <1>4, IdleSerial DEF Restart
  <2>. QED BY <1>1, <2>1, <2>2, NextLaneInvariant DEF SerialInvariant
<1>5. CASE UNCHANGED rvars
  <2>1. UNCHANGED vars /\ \A t \in Slots : requests'[t] = requests[t]
    BY <1>5 DEF rvars, vars
  <2>2. \A t \in Slots : RequestSerial(t)'
    BY <2>1, UnreadStays DEF SerialInvariant
  <2>. QED BY <1>1, <2>1, <2>2, NextLaneInvariant DEF SerialInvariant
<1>. QED
  BY <1>1, <1>2, <1>3, <1>4, <1>5, NextLaneInvariant DEF RNext, SerialInvariant

LEMMA InitSerial == RInit => SerialInvariant /\ Init
<1> SUFFICES ASSUME RInit PROVE SerialInvariant /\ Init
  OBVIOUS
<1>1. FlightInvariant /\ LaneInvariant /\ Init
  BY InitFlight, InitLaneInvariant DEF RInit
<1>2. \A s \in Slots : requests[s] = Idle
  BY DEF RInit
<1>. QED
  BY <1>1, <1>2 DEF SerialInvariant, Admitted, RequestSerial, Idle, OpenSerial, AnswerSerial,
     StartSerial, ExamAnswerSerial, SubmitSerial, AbandonSerial

\* The handlers implement Lanes: however many requests are in flight, as long as
\* those of one learner overlap in the harmless ways only, each takes effect at one
\* instant, so all that is proved of Lanes holds of them.
THEOREM HandlersAreSerializable ==
  ASSUME ~CrossLane, Overlap \subseteq SafeOverlap
  PROVE  RSpec => Serializable
<1>1. SerialInvariant /\ [RNext]_rvars => SerialInvariant' /\ [Next]_vars
  BY NextSerial
<1>. QED
  BY <1>1, InitSerial, PTL DEF RSpec, Spec, Serializable

=============================================================================
