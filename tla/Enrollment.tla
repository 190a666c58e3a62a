---------------------------- MODULE Enrollment ----------------------------
(***************************************************************************)
(* Which courses a learner has active, the one selected, the language each *)
(* is read in, and the lessons marked complete, beside the process that    *)
(* serves the catalog and the tables all of this refers to (Skeleton).     *)
(*                                                                         *)
(* save_state reads the learner's rows, decides, and commits; two saves of *)
(* one learner interleave.  SQLAlchemy writes only the columns that differ *)
(* from what the session read.  A request that is refused writes nothing.  *)
(***************************************************************************)
EXTENDS Skeleton

CONSTANTS
  Users,
  TitleOrder,      \* [Courses -> Nat], the alphabetical order of the titles
  Lessons,         \* the entities that are lessons
  Languages,
  Offered,         \* [Courses -> SUBSET Languages], as the manifests declare
  ActiveChoices,   \* the sets of courses a save may ask to be active
  ReadingChoices,  \* what a save may say about reading languages
  None,            \* no course, no language
  Slots            \* bound on the saves in flight

ASSUME EnrollmentAssumption ==
  /\ TitleOrder \in [Courses -> Nat]
  /\ \A c, d \in Courses : TitleOrder[c] = TitleOrder[d] => c = d
  /\ Lessons \subseteq Entities
  /\ Offered \in [Courses -> SUBSET Languages]
  /\ None \notin Courses \cup Languages
  /\ ActiveChoices \subseteq SUBSET Courses
  /\ \A r \in ReadingChoices :
       DOMAIN r \subseteq Courses /\ \A c \in DOMAIN r : r[c] \in Languages

VARIABLES
  choices,      \* user_courses: learner -> course -> row
  completions,  \* lesson_completions
  saves,        \* what each slot serves, and the rows it read
  asked,        \* history: the courses each learner last asked to be active,
                \* kept while their saves do not overlap
  lone,         \* history: the slots whose save nothing has overlapped so far
  overlapped    \* history: the learners whose saves overlapped, and who have not
                \* made a lone one since

enrollmentVars == <<choices, completions, saves, asked, lone, overlapped>>
vars == <<deployed, skeleton, syncers, deploys, crashes,
          choices, completions, saves, asked, lone, overlapped>>

----------------------------------------------------------------------------
\* Rows and requests

Choice == [active : BOOLEAN, selected : BOOLEAN,
           reading : Languages \cup {None}]
NewChoice == [active |-> FALSE, selected |-> FALSE, reading |-> None]
Free == [user |-> None]

\* The course after the previous one among the active, by title, wrapping.
FirstOf(set) == CHOOSE c \in set : \A d \in set : TitleOrder[c] <= TitleOrder[d]
Fallback(active, previous) ==
  LET after == {c \in active : /\ previous \in Published
                               /\ TitleOrder[c] > TitleOrder[previous]}
  IN  IF active = {} THEN None
      ELSE IF after # {} THEN FirstOf(after) ELSE FirstOf(active)

\* Fault: the selection is taken as it was sent.
Effective_AsSent(active, selected) == selected

Effective(active, selected) ==
  IF selected \in active THEN selected ELSE Fallback(active, selected)

\* Fault: courses outside the catalog are deactivated as well.
Decided_All(r) ==
  [c \in DOMAIN r.seen \cup r.active \cup DOMAIN r.reading |->
     LET row == IF c \in DOMAIN r.seen THEN r.seen[c] ELSE NewChoice
     IN  [active   |-> c \in r.active,
          selected |-> c = r.effective,
          reading  |-> IF c \in DOMAIN r.reading THEN r.reading[c]
                                                 ELSE row.reading]]

\* What save_state makes of the rows it read.  A course outside the published
\* catalog keeps its active flag.
Decided(r) ==
  [c \in DOMAIN r.seen \cup r.active \cup DOMAIN r.reading |->
     LET row == IF c \in DOMAIN r.seen THEN r.seen[c] ELSE NewChoice
     IN  [active   |-> IF c \in Published THEN c \in r.active ELSE row.active,
          selected |-> c = r.effective,
          reading  |-> IF c \in DOMAIN r.reading THEN r.reading[c]
                                                 ELSE row.reading]]

\* A column is written when it differs from what the session read.
Column(new, read, stored) == IF new # read THEN new ELSE stored

Merged(r, stored) ==
  [c \in DOMAIN stored \cup DOMAIN Decided(r) |->
     IF c \notin DOMAIN Decided(r) THEN stored[c]
     ELSE IF c \notin DOMAIN r.seen THEN Decided(r)[c]
     ELSE LET new == Decided(r)[c]
              read == r.seen[c]
          IN  [active   |-> Column(new.active, read.active, stored[c].active),
               selected |-> Column(new.selected, read.selected,
                                   stored[c].selected),
               reading  |-> Column(new.reading, read.reading,
                                   stored[c].reading)]]

\* The constraints of user_courses: its primary key, and the partial unique
\* index on the selected rows of a learner.
Unique(rows) == Cardinality({c \in DOMAIN rows : rows[c].selected}) <= 1
Storable(r) ==
  /\ DOMAIN Decided(r) \cap DOMAIN choices[r.user] \subseteq DOMAIN r.seen
  /\ Unique(Merged(r, choices[r.user]))

----------------------------------------------------------------------------
\* Handlers

\* Whether a save of the learner is in flight; only the history asks.
Busy(u) == \E t \in Slots : saves[t].user = u

\* The courses stored as active.
Stored(u) == {c \in DOMAIN choices[u] : choices[u][c].active}

\* save_state up to its first flush: validate and read.  Sign-up is a save of
\* the courses ticked, with no selection.
SaveBegin(s, u, active, selected, reading) ==
  /\ Serving
  /\ saves[s] = Free
  /\ active \subseteq Published
  /\ DOMAIN reading \subseteq Published
  /\ \A c \in DOMAIN reading : reading[c] \in Offered[c]
  /\ saves' = [saves EXCEPT ![s] =
       [user |-> u, active |-> active, reading |-> reading,
        effective |-> Effective(active, selected), seen |-> choices[u]]]
  /\ IF Busy(u) THEN /\ lone' = {t \in lone : saves[t].user # u}
                     /\ overlapped' = overlapped \cup {u}
                     /\ asked' = [asked EXCEPT ![u] = {}]
                ELSE /\ lone' = lone \cup {s}
                     /\ UNCHANGED <<asked, overlapped>>
  /\ UNCHANGED <<choices, completions, skeletonVars>>

\* What the learner has said of each course by the commit of save r: of those
\* published now, what r says; of the others, what they said before.  What was
\* asked by saves that overlapped is what they left.
AskedBy(r) ==
  LET before == IF r.user \in overlapped THEN Stored(r.user) ELSE asked[r.user]
  IN  (before \ Published) \cup r.active

\* ... and its commit.
SaveCommit(s) ==
  LET r == saves[s]
  IN  /\ r # Free
      /\ Storable(r)
      /\ choices' = [choices EXCEPT ![r.user] = Merged(r, @)]
      /\ saves' = [saves EXCEPT ![s] = Free]
      /\ lone' = lone \ {s}
      /\ IF s \in lone THEN /\ asked' = [asked EXCEPT ![r.user] = AskedBy(r)]
                            /\ overlapped' = overlapped \ {r.user}
                       ELSE UNCHANGED <<asked, overlapped>>
      /\ UNCHANGED <<completions, skeletonVars>>

\* A commit that a constraint refuses writes nothing.
SaveRefused(s) ==
  /\ saves[s] # Free
  /\ ~Storable(saves[s])
  /\ saves' = [saves EXCEPT ![s] = Free]
  /\ lone' = lone \ {s}
  /\ UNCHANGED <<choices, completions, asked, overlapped, skeletonVars>>

\* complete_lesson and uncomplete_lesson: one statement each, idempotent.
Shown(c) == IF c \in Published THEN Lessons \cap DOMAIN Catalog[c].tree ELSE {}

Complete(u, c, l) ==
  /\ Serving
  /\ l \in Shown(c)
  /\ completions' = completions \cup {<<u, c, l>>}
  /\ UNCHANGED <<choices, saves, asked, lone, overlapped, skeletonVars>>

Uncomplete(u, c, l) ==
  /\ Serving
  /\ l \in Shown(c)
  /\ completions' = completions \ {<<u, c, l>>}
  /\ UNCHANGED <<choices, saves, asked, lone, overlapped, skeletonVars>>

\* What load_state answers: the active courses, and the one selected.
Active(u) == {c \in Published \cap DOMAIN choices[u] : choices[u][c].active}
Selected(u) ==
  LET stored == {c \in DOMAIN choices[u] : choices[u][c].selected} \cap Active(u)
  IN  IF stored # {} THEN FirstOf(stored)
      ELSE IF Active(u) # {} THEN FirstOf(Active(u)) ELSE None

\* The language a course is read in: the choice if the course has it, else
\* the account's, else the course's first.
Reading(u, c, account, first) ==
  LET chosen == IF c \in DOMAIN choices[u] THEN choices[u][c].reading ELSE None
  IN  IF chosen \in Offered[c] THEN chosen
      ELSE IF account \in Offered[c] THEN account ELSE first

----------------------------------------------------------------------------
\* Specification

Init ==
  /\ SkeletonInit
  /\ choices = [u \in Users |-> << >>]
  /\ completions = {}
  /\ saves = [s \in Slots |-> Free]
  /\ asked = [u \in Users |-> {}]
  /\ lone = {}
  /\ overlapped = {}

\* A server that stops drops the requests it was serving.
Lifecycle ==
  /\ SkeletonNext
  /\ saves' = IF Serving' THEN saves ELSE [s \in Slots |-> Free]
  /\ lone' = IF Serving' THEN lone ELSE {}
  /\ UNCHANGED <<choices, completions, asked, overlapped>>

Next ==
  \/ Lifecycle
  \/ \E s \in Slots, u \in Users, active \in ActiveChoices,
        selected \in Courses \cup {None}, reading \in ReadingChoices :
       SaveBegin(s, u, active, selected, reading)
  \/ \E s \in Slots : SaveCommit(s) \/ SaveRefused(s)
  \/ \E u \in Users, c \in Courses, l \in Lessons :
       Complete(u, c, l) \/ Uncomplete(u, c, l)

\* Docker restarts a server that is down, and start-up runs to its end; the
\* command is run by hand, but once begun it ends.
Fairness ==
  /\ WF_vars(Step(Server) /\ Lifecycle)
  /\ WF_vars(syncers[Cli].phase # "down" /\ Step(Cli) /\ Lifecycle)

Spec == Init /\ [][Next]_vars
FairSpec == Spec /\ Fairness

----------------------------------------------------------------------------
\* Properties

TypeOK ==
  /\ SkeletonTypeOK
  /\ DOMAIN choices = Users
  /\ \A u \in Users :
       /\ DOMAIN choices[u] \subseteq Courses
       /\ choices[u] \in [DOMAIN choices[u] -> Choice]
  /\ completions \subseteq Users \X Courses \X Lessons
  /\ DOMAIN saves = Slots
  /\ \A s \in Slots : saves[s] # Free =>
       /\ saves[s].user \in Users
       /\ saves[s].active \subseteq Courses
       /\ saves[s].effective \in saves[s].active \cup {None}
  /\ asked \in [Users -> SUBSET Courses]
  /\ lone \subseteq {s \in Slots : saves[s] # Free}
  /\ overlapped \subseteq Users

\* What is stored is what the learner last said of each course while it was
\* published: a course that is withdrawn and comes back is as they left it
\* (service.py:122-124).  Saves that overlap may mix two sets of courses, which
\* stands until the learner's next save that nothing overlaps.
LastWordStands == \A u \in Users \ overlapped : Stored(u) = asked[u]

\* The stored selection is an active course, even while the course is withdrawn
\* (service.py:109-111).  Saves that overlap may deactivate the course the other
\* one selects; the next save that nothing overlaps puts it right, whatever they
\* left.
SelectedIsActive ==
  \A u \in Users \ overlapped : \A c \in DOMAIN choices[u] :
    choices[u][c].selected => choices[u][c].active

\* No learner's row ever points at a skeleton row that does not exist, so the
\* foreign keys never refuse a request; and none loses the row it points at,
\* whatever is dropped from the content (content/models.py:96-103).
RowsAnchored ==
  /\ \A t \in completions : t[3] \in DOMAIN skeleton[t[2]]
  /\ \A u \in Users, c \in Courses :
       c \in DOMAIN choices[u] => Root \in DOMAIN skeleton[c]

\* Once the operator stops deploying, a sound bundle is served for good, after
\* finitely many crashes and in spite of commands that collide with the start-up
\* (main.py:53-60).
SoundIsServed == <>[](deployed.sound => Serving)

============================================================================
