---------------------------- MODULE LaneRequests ----------------------------
(***************************************************************************)
(* The handlers of Lanes as they run: concurrent requests of one asyncio   *)
(* process, each with a database session of its own under READ COMMITTED.  *)
(* A handler awaits its reads one by one, decides on what it read, and     *)
(* commits; between two of its awaits any other request may commit.        *)
(*                                                                         *)
(* The writes of a transaction apply in one step, its commit: row locks    *)
(* only delay a writer, and PostgreSQL evaluates the WHERE of a bulk       *)
(* UPDATE again on a row another transaction changed meanwhile.  The ORM   *)
(* writes a column only when it differs from what the session read.        *)
(* Restarting the process drops every request in flight and may deploy.    *)
(***************************************************************************)
EXTENDS Lanes

CONSTANTS
  Slots,        \* bounds the requests in flight
  Overlap       \* the sets of operations one learner may have in flight together

Operations == {"open", "answer", "start", "examAnswer", "submit", "abandon"}

ASSUME OverlapAssumption ==
  \A pair \in Overlap : pair \subseteq Operations

VARIABLE requests  \* Slot -> the request it serves, with what it has read

rvars == <<attempts, exams, catalog, requests>>

Idle == [op |-> "idle"]

----------------------------------------------------------------------------
\* Requests of different learners always overlap.
Admit(s, o, op) ==
  /\ requests[s] = Idle
  /\ \A t \in Slots :
       requests[t].op # "idle" /\ requests[t].owner = o
         => {op, requests[t].op} \in Overlap

Serve(s, request) == requests' = [requests EXCEPT ![s] = request]

Pending(s, op, at) == requests[s].op = op /\ requests[s].at = at

\* The committed value of a column read as `seen` and set to `value`.
Column(seen, value, stored) == IF value = seen THEN stored ELSE value

----------------------------------------------------------------------------
(* Practice lane.                                                          *)

\* The UPDATE of the abandoned rule finds its rows in the snapshot it starts on.
OpenBegin(s, o, x) ==
  /\ Admit(s, o, "open")
  /\ x \in Playable(o.course)
  /\ Serve(s, [op |-> "open", at |-> "commit", owner |-> o, ex |-> x,
               found |-> Superseded(o, x)])
  /\ UNCHANGED vars

\* Fault: the WHERE is not evaluated again.
StillOpen_AsFound(found) == found

\* Fault: a row that had to be waited for is skipped.
StillOpen_Never(found) == {}

\* A found row is abandoned if it is still open when it can be locked.
StillOpen(found) == {a \in found : attempts[a].state = "open"}

OpenCommit(s) ==
  LET r == requests[s] IN
  /\ Pending(s, "open", "commit")
  /\ FreshAttempts # {}
  /\ LET new == CHOOSE a \in FreshAttempts : TRUE IN
     attempts' = Write(attempts,
       [a \in StillOpen(r.found) \cup {new} |->
          IF a = new THEN NewAttempt(r.owner, r.ex, Practice)
          ELSE Abandoned(attempts[a])])
  /\ Serve(s, Idle)
  /\ UNCHANGED <<exams, catalog>>

\* Loaded, found open, and graded before anything is written.
AnswerBegin(s, o, a, ans) ==
  /\ Admit(s, o, "answer")
  /\ a \in DOMAIN attempts
  /\ attempts[a].owner = o
  /\ CrossLane \/ attempts[a].exam = Practice
  /\ attempts[a].state = "open"
  /\ attempts[a].ex \in Playable(o.course)
  /\ ans # Malformed
  /\ Serve(s, [op |-> "answer", at |-> "commit", owner |-> o, attempt |-> a,
               ans |-> ans, seen |-> attempts[a]])
  /\ UNCHANGED vars

AnswerCommit(s) ==
  LET r == requests[s]
      verdict == Verdict(r.seen.ex, r.ans)
  IN
  /\ Pending(s, "answer", "commit")
  /\ attempts' = [attempts EXCEPT
       ![r.attempt].given = Column(r.seen.given, r.ans, @),
       ![r.attempt].verdict = Column(r.seen.verdict, verdict, @),
       ![r.attempt].state = "answered"]
  /\ Serve(s, Idle)
  /\ UNCHANGED <<exams, catalog>>

----------------------------------------------------------------------------
(* Exam lane.  Each handler starts from an exam it read as open; what it   *)
(* later writes to `rules` is that reading with new entries.               *)

StartBegin(s, o, scope) ==
  /\ Admit(s, o, "start")
  /\ ScopeModules(o.course, scope) # {}
  /\ Serve(s, [op |-> "start", at |-> "commit", owner |-> o, scope |-> scope,
               seen |-> [e \in OpenSittings(o, scope) |-> exams[e]]])
  /\ UNCHANGED vars

StartCommit(s) ==
  LET r == requests[s]
      mods == ScopeModules(r.owner.course, r.scope)
  IN
  /\ Pending(s, "start", "commit")
  /\ ExamIds \ DOMAIN exams # {}
  /\ FreshIds(mods) # {}
  /\ \E pick \in [mods -> Exercises] :
     LET e == CHOOSE i \in ExamIds \ DOMAIN exams : TRUE
         ids == CHOOSE f \in FreshIds(mods) : TRUE
         order == [x \in {pick[i] : i \in mods} |-> CHOOSE i \in mods : pick[i] = x]
     IN
     /\ \A i \in mods : pick[i] \in catalog[r.owner.course][i].bank
     /\ exams' = Write(exams,
          [f \in DOMAIN r.seen \cup {e} |->
             IF f = e THEN NewExam(r.owner, r.scope, order)
             ELSE [r.seen[f] EXCEPT !.status = "abandoned"]])
     /\ attempts' = Write(attempts,
          [a \in {b \in DOMAIN attempts : attempts[b].exam \in DOMAIN r.seen}
                   \cup {ids[i] : i \in mods} |->
             IF a \in DOMAIN attempts THEN Abandoned(attempts[a])
             ELSE NewAttempt(r.owner, pick[CHOOSE i \in mods : ids[i] = a], e)])
  /\ Serve(s, Idle)
  /\ UNCHANGED catalog

ExamAnswerBegin(s, o, e, a, ans) ==
  /\ Admit(s, o, "examAnswer")
  /\ InProgress(o, e)
  /\ a \in QuestionsOf(e)
  /\ Serve(s, [op |-> "examAnswer", at |-> "read", owner |-> o, attempt |-> a,
               ans |-> ans, seen |-> None])
  /\ UNCHANGED vars

ExamAnswerRead(s) ==
  /\ Pending(s, "examAnswer", "read")
  /\ Serve(s, [requests[s] EXCEPT !.at = "commit",
                                  !.seen = attempts[requests[s].attempt].given])
  /\ UNCHANGED vars

\* Fault: storing an answer puts the question back to open.
ExamAnswerCommit_Reopens(s) ==
  LET r == requests[s] IN
  /\ Pending(s, "examAnswer", "commit")
  /\ attempts' = [attempts EXCEPT ![r.attempt].given = Column(r.seen, r.ans, @),
                                  ![r.attempt].state = "open"]
  /\ Serve(s, Idle)
  /\ UNCHANGED <<exams, catalog>>

\* The exam is not read again: it may have been submitted meanwhile.
ExamAnswerCommit(s) ==
  LET r == requests[s] IN
  /\ Pending(s, "examAnswer", "commit")
  /\ attempts' = [attempts EXCEPT ![r.attempt].given = Column(r.seen, r.ans, @)]
  /\ Serve(s, Idle)
  /\ UNCHANGED <<exams, catalog>>

SubmitBegin(s, o, e) ==
  /\ Admit(s, o, "submit")
  /\ InProgress(o, e)
  /\ Serve(s, [op |-> "submit", at |-> "read", owner |-> o, exam |-> e,
               seen |-> exams[e], rows |-> [a \in {} |-> None]])
  /\ UNCHANGED vars

SubmitRead(s) ==
  LET r == requests[s] IN
  /\ Pending(s, "submit", "read")
  /\ Serve(s, [r EXCEPT !.at = "commit",
                        !.rows = [a \in QuestionsOf(r.exam) |-> attempts[a]]])
  /\ UNCHANGED vars

SubmitCommit(s) ==
  LET r == requests[s]
      c == r.owner.course
  IN
  /\ Pending(s, "submit", "commit")
  /\ attempts' = Write(attempts,
       [a \in DOMAIN r.rows |->
          [attempts[a] EXCEPT
             !.verdict = Column(r.rows[a].verdict, ExamVerdict(c, r.rows[a]), @),
             !.state = Column(r.rows[a].state, "answered", @)]])
  /\ exams' = [exams EXCEPT ![r.exam] =
       [r.seen EXCEPT !.status = "submitted",
                      !.result = [a \in DOMAIN r.rows |-> ResultEntry(c, r.rows[a])]]]
  /\ Serve(s, Idle)
  /\ UNCHANGED catalog

AbandonBegin(s, o, e) ==
  /\ Admit(s, o, "abandon")
  /\ InProgress(o, e)
  /\ Serve(s, [op |-> "abandon", at |-> "commit", owner |-> o, exam |-> e,
               seen |-> exams[e]])
  /\ UNCHANGED vars

\* Fault: the bulk UPDATE takes the open questions only.
BulkAbandoned_OpenOnly(e) == {a \in QuestionsOf(e) : attempts[a].state = "open"}

\* The bulk UPDATE takes every question of the exam, whatever its state.
BulkAbandoned(e) == QuestionsOf(e)

AbandonCommit(s) ==
  LET r == requests[s] IN
  /\ Pending(s, "abandon", "commit")
  /\ attempts' = Write(attempts, [a \in BulkAbandoned(r.exam) |-> Abandoned(attempts[a])])
  /\ exams' = [exams EXCEPT ![r.exam] = [r.seen EXCEPT !.status = "abandoned"]]
  /\ Serve(s, Idle)
  /\ UNCHANGED catalog

----------------------------------------------------------------------------
Restart ==
  /\ catalog' \in Deployments
  /\ requests' = [s \in Slots |-> Idle]
  /\ UNCHANGED <<attempts, exams>>

RInit == Init /\ requests = [s \in Slots |-> Idle]

Begin(s, o) ==
  \/ \E x \in Exercises : OpenBegin(s, o, x)
  \/ \E a \in AttemptIds, ans \in Answers : AnswerBegin(s, o, a, ans)
  \/ \E scope \in Scope : StartBegin(s, o, scope)
  \/ \E e \in ExamIds, a \in AttemptIds, ans \in Answers : ExamAnswerBegin(s, o, e, a, ans)
  \/ \E e \in ExamIds : SubmitBegin(s, o, e)
  \/ \E e \in ExamIds : AbandonBegin(s, o, e)

Proceed(s) ==
  \/ OpenCommit(s)
  \/ AnswerCommit(s)
  \/ StartCommit(s)
  \/ ExamAnswerRead(s)
  \/ ExamAnswerCommit(s)
  \/ SubmitRead(s)
  \/ SubmitCommit(s)
  \/ AbandonCommit(s)

RNext ==
  \/ \E s \in Slots, o \in Owner : Begin(s, o)
  \/ \E s \in Slots : Proceed(s)
  \/ Restart

RSpec == RInit /\ [][RNext]_rvars

----------------------------------------------------------------------------
(* Correctness.                                                            *)

\* The tables are typed, and a request remembers rows that exist.
RequestsOK ==
  /\ TypeOK
  /\ DOMAIN requests = Slots
  /\ \A s \in Slots :
       LET r == requests[s] IN
       r # Idle =>
         /\ r.op \in Operations
         /\ r.owner \in Owner
         /\ r.op \in {"submit", "abandon"} => r.exam \in DOMAIN exams
         /\ r.op \in {"answer", "examAnswer"} => r.attempt \in DOMAIN attempts
         /\ r.op = "open" => r.found \subseteq DOMAIN attempts
         /\ r.op = "start" => DOMAIN r.seen \subseteq DOMAIN exams

PracticeOps == {"open", "answer"}
ExamOps == Operations \ PracticeOps

\* The overlaps that do no harm: the two lanes next to each other, answers to
\* one exam next to each other, and abandoning next to starting or abandoning.
SafeOverlap ==
  {{p, q} : p \in PracticeOps, q \in ExamOps}
    \cup {{"examAnswer"}, {"abandon"}, {"start", "abandon"}}

\* As long as one learner's requests overlap only as SafeOverlap allows, every
\* request takes effect at one instant: the handlers implement Lanes.
Serializable == Spec

\* However practice requests overlap, a row never mixes two of them: it is
\* answered exactly when it holds an answer, and its verdict is the grade of
\* that very answer (attempts/service.py:128-131).
PracticeRowWhole ==
  \A a \in DOMAIN attempts :
    LET row == attempts[a] IN
    row.exam = Practice =>
      /\ (row.state = "answered") = (row.given # None)
      /\ row.verdict = IF row.given = None THEN "none" ELSE Verdict(row.ex, row.given)

\* A request that found exam e open and closes it when it commits.
Closing(s, e) ==
  \/ requests[s].op \in {"submit", "abandon"} /\ requests[s].exam = e
  \/ requests[s].op = "start" /\ e \in DOMAIN requests[s].seen

\* What a submitted exam stores, its result, verdicts and question numbers,
\* changes only when a request commits that found the exam still open: a second
\* submission, or an abandonment or a start, which erases the result
\* (exams/service.py:140-145).  No new one begins, so once those are gone the
\* grading stands for good.  Short of them an answer that was past its check
\* replaces what a question shows as given, and nothing else (:379-386).
GradingStands ==
  [][\A e \in DOMAIN exams : exams[e].status = "submitted" =>
       /\ \/ /\ exams'[e] = exams[e]
             /\ \A a \in QuestionsOf(e) :
                  attempts'[a] = [attempts[a] EXCEPT !.given = attempts'[a].given]
          \/ \E s \in Slots : Closing(s, e) /\ requests'[s] = Idle
       /\ \A s \in Slots : Closing(s, e)' => Closing(s, e)]_rvars

\* The requests in flight that open exercise x, or start a sitting of a scope.
Opening(o, x) ==
  {s \in Slots : requests[s].op = "open" /\ requests[s].owner = o /\ requests[s].ex = x}
Starting(o, scope) ==
  {s \in Slots : requests[s].op = "start" /\ requests[s].owner = o
                                          /\ requests[s].scope = scope}

\* Overlapping openings of one exercise, or starts of one scope, do not see each
\* other and leave several rows open, but this does not add up: whichever of
\* those in flight commit, a learner is left with no more open practice attempts
\* at the exercise, or open sittings of the scope, than the server works on
\* requests at once (attempts/service.py:68-76, exams/service.py:288-290).
OpenExcessBounded ==
  \A o \in Owner :
    /\ \A x \in Exercises : \A some \in SUBSET Opening(o, x) :
         Cardinality(Superseded(o, x) \ UNION {requests[s].found : s \in some})
           + Cardinality(some) <= Cardinality(Slots)
    /\ \A scope \in Scope : \A some \in SUBSET Starting(o, scope) :
         Cardinality(OpenSittings(o, scope) \ UNION {DOMAIN requests[s].seen : s \in some})
           + Cardinality(some) <= Cardinality(Slots)

=============================================================================
