------------------------------- MODULE Stats -------------------------------
(***************************************************************************)
(* The figures of the statistics page, computed from the attempts table    *)
(* whenever it is asked for: a learner's own (me_stats) and those of all   *)
(* learners together (global_stats).  Answers are counted, or exercises,   *)
(* or people, and the three must not be mixed up.                          *)
(*                                                                         *)
(* Reading progress is a count of completions (see Enrollment).  A ratio   *)
(* is kept as numerator and denominator.                                   *)
(***************************************************************************)
EXTENDS Lanes, FiniteSetsExt

CONSTANTS
  MinExercisesToRank,   \* MIN_EXERCISES_TO_RANK
  MinLearnersForGlobal  \* MIN_LEARNERS_FOR_GLOBAL

ASSUME StatsAssumption ==
  MinExercisesToRank \in Nat /\ MinLearnersForGlobal \in Nat

\* The users table and the content of a course are finite, and so is what is
\* counted.
ASSUME CountingAssumption ==
  IsFiniteSet(Users) /\ IsFiniteSet(Exercises)

----------------------------------------------------------------------------
\* Populations

\* Fault: exam answers are counted with practice answers.
Answered_AnyLane(c) ==
  {a \in DOMAIN attempts : attempts[a].owner.course = c
                             /\ attempts[a].state = "answered"}

\* Answered practice attempts of a course.
Answered(c) ==
  {a \in DOMAIN attempts : /\ attempts[a].owner.course = c
                           /\ attempts[a].state = "answered"
                           /\ attempts[a].exam = Practice}

AnswersOf(o, x) ==
  {a \in Answered(o.course) : attempts[a].owner = o /\ attempts[a].ex = x}

Correct(A) == {a \in A : attempts[a].verdict = "correct"}
FirstCorrect(A) == attempts[Min(A)].verdict = "correct"

\* _ExerciseRoll: one learner's answers to one exercise, oldest first.
Roll(A) ==
  LET passes == Correct(A)
  IN  [answered |-> Cardinality(A),
       correct  |-> Cardinality(passes),
       first    |-> Min(A) \in passes,
       success  |-> IF passes = {} THEN 0
                    ELSE Cardinality({a \in A : a <= Min(passes)})]

----------------------------------------------------------------------------
\* me_stats

Bank(c, i) == catalog[c][i].bank
SeenIn(o, i) == {x \in Bank(o.course, i) : AnswersOf(o, x) # {}}

\* A module's row, the exercises its wrong answers came from, and how many
\* answers each success took.
ModuleRow(o, i) ==
  LET seen  == SeenIn(o, i)
      roll  == [x \in seen |-> Roll(AnswersOf(o, x))]
      total == Cardinality(Bank(o.course, i))
  IN  [answered     |-> MapThenSumSet(LAMBDA x : roll[x].answered, seen),
       correct      |-> MapThenSumSet(LAMBDA x : roll[x].correct, seen),
       firstSeen    |-> Cardinality(seen),
       firstCorrect |-> Cardinality({x \in seen : roll[x].first}),
       passed       |-> {x \in seen : roll[x].correct > 0},
       toReview     |-> {x \in seen : roll[x].answered > roll[x].correct},
       success      |-> [x \in {y \in seen : roll[y].correct > 0} |->
                           roll[x].success],
       enough       |-> Cardinality(seen) >= Min({MinExercisesToRank, total})]

Wrong(row) == row.answered - row.correct

\* More wrong answers first, then the lower first-attempt accuracy; the sort
\* is stable, so manifest order decides the rest.
Before(rows, i, j) ==
  LET accuracy(k, n) == rows[k].firstCorrect * rows[n].firstSeen
  IN  \/ Wrong(rows[i]) > Wrong(rows[j])
      \/ /\ Wrong(rows[i]) = Wrong(rows[j])
         /\ \/ accuracy(i, j) < accuracy(j, i)
            \/ accuracy(i, j) = accuracy(j, i) /\ i < j

\* "Your costliest sections": five modules at most, with wrong answers, of
\* which enough exercises were answered, or all of a small one.
Costliest(rows) ==
  LET rankable == {i \in DOMAIN rows : Wrong(rows[i]) > 0 /\ rows[i].enough}
  IN  {i \in rankable : Cardinality({j \in rankable : Before(rows, j, i)}) < 5}

MyFigures(o) ==
  LET rows == [i \in DOMAIN catalog[o.course] |-> ModuleRow(o, i)]
  IN  [modules |-> rows, costliest |-> Costliest(rows)]

----------------------------------------------------------------------------
\* global_stats

\* Fault: every answer is an observation.
Observations_PerAnswer(c) ==
  {<<attempts[a].owner, attempts[a].ex, a>> : a \in Answered(c)}

\* Each learner's first answer to each exercise is one observation.
Observations(c) ==
  {t \in {o \in Owner : o.course = c} \X Exercises : AnswersOf(t[1], t[2]) # {}}
Observed(c, bank) == {t \in Observations(c) : t[2] \in bank}
People(obs) == {t[1] : t \in obs}

\* A row about others is only rendered above a number of people.
Renders(obs) == Cardinality(People(obs)) >= MinLearnersForGlobal

Panel(c, bank) ==
  LET obs == Observed(c, bank)
  IN  [learners     |-> Cardinality(People(obs)),
       firstSeen    |-> Cardinality(obs),
       firstCorrect |-> Cardinality({t \in obs : FirstCorrect(AnswersOf(t[1], t[2]))})]

ExercisePanels(c) == {x \in Playable(c) : Renders(Observed(c, {x}))}
ModulePanels(c) == {i \in DOMAIN catalog[c] : Renders(Observed(c, Bank(c, i)))}

----------------------------------------------------------------------------
\* Properties

\* The two computations agree: what the panel of a module says of everyone
\* adds up to what each learner is told of themselves, in every history of
\* answers, exams and deployments (service.py:151-157 and 237-258).
PanelsAgree ==
  \A c \in Courses : \A i \in DOMAIN catalog[c] :
    LET own == {o \in Owner : o.course = c}
        panel == Panel(c, Bank(c, i))
    IN  /\ panel.firstSeen = MapThenSumSet(LAMBDA o : ModuleRow(o, i).firstSeen, own)
        /\ panel.firstCorrect =
             MapThenSumSet(LAMBDA o : ModuleRow(o, i).firstCorrect, own)

\* The learners who answered x in practice.
Practised(c, x) ==
  {u \in Users : \E a \in DOMAIN attempts :
     /\ attempts[a].owner = [user |-> u, course |-> c]
     /\ attempts[a].ex = x
     /\ attempts[a].exam = Practice
     /\ attempts[a].state = "answered"}

\* No row about everyone is shown that rests on fewer people than the gate,
\* however many answers each of them gave and whatever they did in exams: who
\* knows their own answers cannot tell whose the others are (service.py:31-37).
PanelsArePrivate ==
  \A c \in Courses :
    /\ \A x \in ExercisePanels(c) :
         Cardinality(Practised(c, x)) >= MinLearnersForGlobal
    /\ \A i \in ModulePanels(c) :
         Cardinality(UNION {Practised(c, x) : x \in Bank(c, i)})
           >= MinLearnersForGlobal

============================================================================
