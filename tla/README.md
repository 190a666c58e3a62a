# Curset in TLA+

Curset (`backend/src/tradeschool`) is a course platform: learners read lessons,
practise exercises, sit exams and report questions. The backend is one asyncio
FastAPI process over PostgreSQL. Every request has a database session of its
own, under READ COMMITTED, with `expire_on_commit=False`; nothing locks a row
while a handler thinks, except report delivery. Between two `await`s of a
handler any other request may commit. That is where the hard behaviour of the
program is, and what these modules are about.

## The system

Paths are relative to `backend/src/tradeschool` unless they start with
`frontend`.

| component | state it keeps | operations that change it | talks to |
| --- | --- | --- | --- |
| attempts | table `attempts`: owner, course, exercise key, answer, verdict, state, exam | `open_attempt`, `submit_answer` | content registry (what is playable), exercises (grading) |
| exams | table `exam_sessions`: scope, status, frozen question order, result; and its rows of `attempts` | `start_exam`, `answer_question`, `submit_exam`, `abandon_exam` | attempts table, registry, grading |
| reports | table `question_reports`: day, `emailed_at`; the retry task | `file_report`, `deliver_pending` | attempts (what may be reported), mail server |
| auth | tables `user`, `accesstoken`, `email_token` | register, login, logout, change address, confirm address, ask for and confirm a reset | mail server (daemon thread), enrollment |
| enrollment | tables `user_courses` (active, selected, reading language) and `lesson_completions` | `save_state`, `enroll_at_signup`, marking a lesson | registry (published courses), skeleton tables (foreign keys) |
| content registry | the catalog, in memory, fixed for the life of the process | `load_catalog` at start-up | everything |
| content sync | skeleton tables (`courses` ... `exercises`) | `reconcile_catalog`, by the starting server and by a command | registry |
| stats | none | none: reads `attempts` | attempts, registry |
| exercises, charts | none: an exercise is a function of its configuration and its seed | none | attempts, exams, reports, print export |
| frontend | what a page has on screen, the answer composed so far | posts requests, several at once | every route |

What makes each correct:

- *attempts*: one open practice attempt for each exercise (the abandoned rule);
  an answered row holds one answer and its own grade; the answer counted as a
  learner's first stays the first.
- *exams*: one open sitting for each scope; an exam and its questions tell one
  story; what is submitted is final; reviews do not change, even when content is
  renumbered; an exam never touches practice, nor practice an exam.
- *reports*: every stored report reaches the team, no more often than lost
  replies and crashes explain; at most one for each attempt; the daily limit.
- *auth*: only the newest link of a purpose works; a verified address was
  proved by its holder; a reset ends every session.
- *enrollment*: at most one selected course, an active one; a course that is
  withdrawn and comes back is as its learner left it.
- *content registry*: a course that is served can be read in each of its
  languages, and its display ids and permanent keys lead to each other.
- *content sync*: while requests are served, the tables mirror the catalog; rows
  are never deleted, so learners' rows keep what they point at.
- *stats*: two panels computed in different ways agree, and nothing is shown that
  rests on fewer than three people.
- *exercises*: of the answers a page allows exactly one is right, the one the
  content means, and nothing on the page tells which.
- *charts*: what is drawn has one value for each candle, and each mark is on a
  bar of its own that is shown.

The hazards, each at its line, are the `hazards` of `PROJECT.json`; those without
a property say why.

## Modules

| module | what it is |
| --- | --- |
| `Lanes` | practice and exams as the services promise them: every request takes effect at one instant |
| `LaneRequests` | the same handlers as they run: reads and commits apart, any number of requests in flight, restarts |
| `Stats` | the statistics pages, as operators over the tables of `Lanes` |
| `Outbox` | what a stored report is promised |
| `Reports` | filing with its limits, delivery, the retry task, lost replies, crashes, midnight |
| `MailedLinks` | accounts, sessions and the links mailed to them, with reads and commits apart, and restarts |
| `Skeleton` | deployments, the start-up of the server, the sync command, crashes, and the skeleton tables |
| `Enrollment` | `Skeleton` with the learners: active and selected courses, completions |
| `Quiz`, `Calculation` | quiz and calculation exercises: valid configurations, draws, payloads, grades |
| `Patterns`, `Charts` | the pattern injectors; chart exercises and lesson figures built on them |
| `Content` | what `load_registry` accepts, the indexes it builds, what can be read |
| `Answers` | composing an answer in the page; the answer that the print export prints |
| `Exercises` | the way from content files to a graded answer, a printed one or a figure, over the six modules above |
| `LanesProofs` | theorems about `Lanes` |
| `LaneRequestsProofs` | theorems about `LaneRequests`, and that it implements `Lanes` |
| `StatsProofs` | theorems about `Stats` |
| `ReportsProofs` | theorems about `Reports`, and that it implements `Outbox` |
| `MailedLinksProofs` | theorems about `MailedLinks` |
| `EnrollmentProofs` | theorems about `Skeleton` and `Enrollment` |
| `ExercisesProofs` | theorems about what `Exercises` loads and draws |
| `AnswersProofs` | theorems about its answers: one is right, and the page does not tell which |
| `MCLanes`, `MCLaneRequests`, `MCReports`, `MCMailedLinks`, `MCEnrollment`, `MCExercises` | instances for TLC |

`LaneRequests` is compared with `Lanes` by `INSTANCE`, `Reports` with `Outbox`;
`Stats` extends `Lanes` and `Enrollment` extends `Skeleton`. `Quiz` to `Answers`
have no state of their own: `Exercises` composes them.

Operators whose name has an underscore (`Superseded_Never`) are faults: what a
plausible mistake would make of the operator they are named after. No
specification uses them; `PROJECT.json` pairs each with the property it breaks.

### Lanes

`attempts` and `exams` are the two tables, functions from the ids handed out so
far to rows; `catalog` is the loaded registry, a sequence of modules for each
course, each with its block and its playable exercises. There is one action for
each handler:

| action | handler |
| --- | --- |
| `OpenAttempt` | `attempts/service.py` `open_attempt`: retire `Superseded`, insert |
| `SubmitAnswer` | `submit_answer` |
| `StartExam` | `exams/service.py` `start_exam`: abandon `OpenSittings`, insert the exam and one question for each module, freeze the order |
| `AnswerQuestion` | `answer_question` |
| `SubmitExam` | `submit_exam`: grade, record the result |
| `AbandonExam` | `abandon_exam` |
| `Redeploy` | `main.py` `lifespan`: the process starts on another catalog |

A refusal (404, 409, 400) writes nothing and is an action that is not enabled.
`finished_at` and `answered_at` are left out: they are set exactly when the
status leaves "open" and the state becomes "answered". Seeds are left out: an
exercise has one right answer, `Key`. Malformed answers are kept, because the
practice route refuses them and the exam route stores them. A manifest's order
is the module's position. Row ids are handed out in increasing order, which is
also the order of `created_at` when requests take effect one at a time.

`CrossLane` says whether a client may post an exam question to the practice
route. The code allows it; the web client does not do it. The theorems about `Lanes` hold for both values; `lanes` and `lane_cross` take the weaker client, the runs of
`LaneRequests` the web client.

### LaneRequests

`requests` holds what each slot serves and what it has read. A handler is a
`Begin` step (the reads its decision rests on), sometimes a `Read` step, and a
`Commit` step with all writes of the transaction. Three facts about the platform
are modelled, each from how the code uses it:

- row locks delay a writer but do not abort it, so the writes of a transaction
  may apply in one step (handlers write a few rows of one owner);
- PostgreSQL evaluates the `WHERE` of an `UPDATE` again on a row that another
  transaction changed (`StillOpen`); the bulk `UPDATE` of `_abandon` asks for the
  exam only (`BulkAbandoned`);
- SQLAlchemy writes only the columns that differ from what the session read
  (`Column`), but `rules` is replaced as a whole.

`Overlap` is the set of pairs of operations that one learner may have in flight
together. Requests of different learners always overlap. `Restart` drops every
request and may deploy another catalog.

### Reports and Outbox

`tasks` holds what each request, and the retry loop, is doing: `check`,
`insert`, then a delivery run (`scan`, `next`, `mailing`, `record`), which both
the request's background task and the loop execute. `Locked` is `FOR UPDATE SKIP
LOCKED`: the row is held from the moment a run takes it to its commit. The mail
server is `copies`, the number of times it took each report. `LoseReply` is a
connection that breaks after the server took the message: `deliver` returns
False. `Fail` is one task's exception, `Restart` the death of the process;
`slips` counts the three, and `MaxSlips` bounds them. `created_at` is the day the
request's transaction began; the count uses the day of the check, so a request
that straddles midnight is counted on one day and stored on the other.

### MailedLinks

`users`, `links` and `sessions` are the tables `user`, `email_token` and
`accesstoken`. `requests` is as in `LaneRequests`: each slot serves one request
and remembers what it has read. A request goes through these steps, each of which
ends where the handler awaits the database:

| request | steps |
| --- | --- |
| sign-up | `SignUpBegin`, `Create`, then as a change of address |
| change of address | `ChangeBegin`, `CheckAddress`, `WriteAddress`, then as a resend |
| resend | `ResendBegin`, `Cooldown`, `Replace`, `Issue` |
| ask for a reset | `RequestResetBegin`, `Cooldown`, `Replace`, `Issue` |
| confirm an address | `ConfirmBegin`, `ConfirmCheck`, `Verify` |
| reset the password | `ResetBegin`, `SetPassword`, `Revoke` |
| login, logout | `LoginBegin`, `OpenSession`; `Logout` |

- `Column` is SQLAlchemy's again: `user.is_verified = False` writes nothing on a
  row that was read as unverified.
- `Issue` deletes the rows its `DELETE` found (`Replaced`), not one inserted since.
- `Verify` and `Revoke` update a link by its id. If it was deleted meanwhile, the
  flush matches no row, raises, and the transaction writes nothing.
- `Indexed` is the partial unique index; a commit it refuses writes nothing.
- A password is named by the link that set it (0 at sign-up), which is what lets
  an invariant say that a session is older than a reset.
- `proved` is a history variable: who opened a verification link, and to which
  address.
- Time is the `age` of a link: new (within the cooldown), old, expired. `GrowOld`
  may happen at any moment.
- A mail is never late or lost on its own: a stored link is one that somebody may
  open, or not.

The accounts' courses, locale and session expiry are left out; they touch none of
these rows' columns, and an expired session is one that is no longer used.

### Stats

`MyFigures` is `me_stats` (rolls of answers, module rows, the costliest module);
`ExercisePanels`, `ModulePanels` and `Panel` are `global_stats`. They are computed
from whatever the tables hold, so `lanes` evaluates them in every state it
reaches. Reading progress is a count of completions, and ratios stay pairs.

### Skeleton

| action | code |
| --- | --- |
| `Load` | `load_catalog` as the server or the command starts: a refused bundle stops it |
| `ReadCourse` | the course's transaction reads which rows exist |
| `CommitCourse` | the upsert of its tables, from the course down to its exercises, and its commit |
| `Collide` | two processes insert the same rows: the second is refused and its process ends |
| `Finish` | the courses that are gone are withdrawn, in a commit of their own; the server serves |
| `Crash`, `Deploy` | a process dies anywhere; the operator ships another image |

`skeleton` holds the five tables of a course as one function from keys to rows,
`Root` being the row of the course. A row that the bundle does not name is
deactivated, its parent and position left as they were.

### Enrollment

`SaveBegin` is `save_state` up to its decision, from the rows it read. `SaveCommit`
is its commit, in which SQLAlchemy writes only the columns that differ from what
was read (`Column`) and which the primary key or the partial unique index may
refuse (`SaveRefused`, `Storable`). Two overlapping saves may therefore mix: each
writes its own changes, and the courses active afterwards may be those of neither.
The mixture stands until the learner's next save that nothing overlaps, which
rebuilds the whole set from what it read: `lone` is the history of such saves,
`overlapped` the learners who have made none since an overlap, and `LastWordStands`
and `SelectedIsActive` speak of all the others. The settings page disables its
switches while a save is pending, but the language switch of the header and a
second tab do not wait. Enrolment at
sign-up is one of the calls of `save_state`. `Complete` and `Uncomplete` mark a
lesson; `Selected` and `Reading` are the answers of `load_state`, which no property
speaks of. A server that stops drops the saves in flight.

### The exercise modules

`Exercises` has one learner in front of one page. `Load` validates the shipped
course; `Open` takes a playable exercise and any seed; `Click` is one use of a
control; `Submit` grades from the configuration and the seed, never from what was
shown; `Retry` draws a chart again, the choice of before still selected; `Export`
is the printed answer; `ShowFigure` a panel of a lesson; `OpenFails` a chart that
could not be planted within its attempts.

- A seed is what it makes `random.Random` draw, and every draw is explored: the
  variant, each shuffle, each sampled parameter, the label. The seed of a chart
  stands for the label and the chart that is built from it.
- Numbers of calculations are exact fractions, quantized where the code quantizes;
  the mistakes that distractors are built from are those of `formulas.py`.
- Charts have no prices. An injector is the bars it draws at (integer positions, as
  the code computes them from `n`), the panes and lines it adds, its marks, and the
  bars whose wicks it keeps inside a level. A bar that a search over prices picks is
  the set of bars searched; every member is a possible outcome.
- `Content` is the manifest, the glossary, the figures, and texts as sets of
  languages and words; `ValidCourse` is what the loader refuses.

## What is checked

| run | instance | states | shows |
| --- | --- | --- | --- |
| `lanes` | 2 learners, 1 course of 2 blocks, 2 exercises, 2 catalogs, 3 attempts, 2 exams | 0.4M | all the promises of `Lanes`, and what the statistics pages show of its tables |
| `lane_serial` | 2 learners, 2 slots, 1 exercise, harmless overlaps only | 0.7M | `LaneRequests` implements `Lanes` |
| `lane_overlap` | 1 learner, 2 slots, 1 exercise, every overlap | 2.0M | what survives any two overlapping requests, and how much they may leave open |
| `reports` | 1 slot and the loop, 3 attempts, limit 1, one midnight, 2 slips, a rejected report | 0.1M | delivery, safety and liveness; the daily limit across midnight |
| `mailed_links` | 2 accounts, 2 addresses, 2 links, 2 slots, harmless overlaps | 1.2M | a verified address was proved, one link works, a reset ends the sessions, only the holder resets |
| `enrollment` | 2 courses, 4 bundles, 1 learner, 2 slots, 2 redeployments, 1 crash | 0.5M | the tables mirror what is served, choices survive and overlaps heal, a sound image is served in the end |
| `exercises` | 33 courses, one of them complete | 17k | one right answer, not given away, drawn where it belongs; what is loaded is readable |
| `lane_cross`, `lane_late_answer`, `reports_limit`, `links_unproved`, `links_signed_out` | as above | | five disagreements, below |

**Bounds.**

- Three attempts are enough for an exam of two questions beside a practice attempt
  of the same exercise, or for three practice attempts of one exercise; two exams
  are enough for a sitting that closes another, and for a global one beside a
  block one. The second catalog swaps the modules, moves one exercise to another
  module and block, and drops the other.
- Two slots suffice for every pair of handlers to interleave at each of their
  steps, and what `lane_serial` and `lane_overlap` check is proved for any number
  of them, with one exception: `SittingAgreement` needs that no two submissions of
  one learner overlap. With two slots it holds even then; with a third, an answer
  committed between the readings of the two submissions leaves a result that one
  of them computed and verdicts of the other.
- In `lanes`, no practice answer is wrong, so the first attempts that `PanelsAgree`
  compares are right ones; that the two pages agree on wrong ones too is
  `FiguresAgree`. With a wrong answer among `Answers` the run grows to 2.0M
  states, with the same result.
- In `reports`, two slips allow a lost reply followed by a crash. One request is
  served at a time, so `DailyExcessBounded` is checked of midnight; that requests
  which overlap exceed the limit is shown by `reports_limit`, by how much at most
  by the proof. With two slots its bound is five, which three attempts cannot reach.
- In `enrollment`, the bundles drop a lesson, move another into a new module,
  withdraw a course, bring both back, the course as a draft, or are refused; two
  redeployments let a key that was dropped come back, and the crash may fall
  between any two commits. A learner's saves may overlap any number of times, ask
  for either course or for both, and select either or none; the reading language a
  save carries is not varied.
- `MCExercises` assumes `Charted`, `Uncrowded`, `Filling`, `Measurable` and `Unmixed`
  of its courses, which the theorems about exercises are proved from, so TLC evaluates them
  on the lengths, injectors, label sets and formulas of the repository's course.
- `exercises` needs no bound on its seeds but the ranges of its parameters:
  `FullCourse` has the injectors, lengths and label sets of the repository's
  course and every formula with a few values for each parameter. One configuration
  rounds to no decimals, so that every mistake lands on the right value and wrong
  ones are made by slips of 5 %; `SlipBound` stops them at 30, more than any
  instance needs. The other courses are a small one varied in one place each, most
  of them in a way that the loader refuses.
- In `mailed_links`, two links are a verification link and the reset that it makes
  possible, or a link and the one that replaces it, or one for each account; a
  reset cut short is repeated with the same link. Longer histories were checked
  with fewer accounts or addresses: one account and 4 links (0.9M states), two
  accounts, one address and 3 links (3.5M states), with the same result.

**Which overlaps are harmless.** `SafeOverlap` in `LaneRequests` is what
`lane_serial` checks and `HandlersAreSerializable` assumes: practice requests next to exam requests, answers to one
exam next to each other, abandoning next to starting or abandoning. Each overlap
that is left out breaks serializability: two openings of one exercise leave two
open rows; two submissions of one attempt answer it twice; two starts of one
scope leave two open sittings; a submission next to an abandonment resolves the
exam twice, and the later commit decides; an answer next to a submission is stored
in a graded exam. `lane_overlap` then checks what holds in spite of two of them.
An exam and its questions still tell one story, whichever outcome wins. An
abandonment that commits after the submission does erase its result
(`exams/service.py:140-145`); `GradingStands` says that only requests which found
the exam open can change what a submission stored, that none begins after it, and
that a late answer changes nothing but what a question shows as given. Openings and
starts that overlap leave several rows open, but do not add up: `OpenExcessBounded`
bounds them by the requests served at once.

`SafeOverlap` in `MCMailedLinks` concerns one account's own requests; those of
different accounts always overlap. It leaves out: two requests that store a link
of one purpose (both links work); confirming an address while it changes, and a
reset next to a login (the two disagreements below); and a reset next to a request
for another reset link, which deletes the link in use: the new password is
committed, then the request fails and the sessions live on until the newer link
is used.

**Fairness.** `Lanes`, `LaneRequests`, `MailedLinks` and `Exercises` have no
liveness to promise: learners may stop. In `Reports`, a task that can go on does (asyncio schedules every
ready task; `deliver` has a socket timeout of 10 seconds), hence `WF` for each
request's work and for the loop, whose sleep is finite and which survives any
exception (`main.py:76-81`). `SF` of `Accept(Loop, a)` is the assumption about
the outside: a server that is offered a report again and again, and does not
reject it, takes it at last. Nothing is assumed of lost replies, failures and
restarts except that they are finitely many (`MaxSlips`), and nothing at all of
new reports. In `Enrollment`, `WF` of the server's steps is the restart policy of
its container (a server that is down is started again, and a start-up runs to its
end); the command is run by hand, and runs to its end once it has begun.
Deployments and crashes are finitely many (`MaxDeploys`, `MaxCrashes`).

**Disagreements with the code's own words.**

- `lane_cross`: `reports/service.py:46` says that attempts of an exam in progress
  "only become ANSWERED when it is submitted". `submit_answer` does not look at
  `exam_session_id`, so posting an exam question to the practice route answers,
  grades and reveals it, and makes it reportable.
- `lane_late_answer`: `backend/tests/test_exams.py:157` says a review is
  byte-stable. An answer that passed its status check lands after the submission
  and changes the review. `ExamRunner.tsx` posts each change of an answer without
  waiting for it, so submitting right after a click is enough.
- `reports_limit`: the README's "ten per user per day" is a count followed by an
  insert; overlapping requests exceed it. `DailyExcessBounded` bounds by how much.
- `links_unproved`: README.md:861 says that changing the address leaves it
  unverified. A confirmation that compared the link's address before the change
  commits `is_verified` after it, and the change itself does not write that
  column: the new address ends up verified, and may then reset the password.
- `links_signed_out`: README.md:868 says that using a reset link signs the account
  out everywhere. A login that checked the old password before the reset writes
  its session after it.

**Observed without a run.** `trend_channel.py:216-227` and
`converging_lines.py:204-216` search a touch on candles whose wicks are drawn again
when the page shows them, because these injectors leave `candles_full` unset; the
marked bar is still one that is searched, which is all that is modelled.
`QuizExercise.tsx:162` reports an order only when an item is moved, so an exam
question whose items are left as shown counts as unanswered.

## What is proved

Each theorem holds for every value of the constants under the named assumption of
its module.

**Lanes** (`ConstantsAssumption`; with or without `CrossLane`).

- `LanesTypeCorrect`: `TypeOK`. Each action has an *effect lemma*
  (`OpenAttemptEffect`, `StartExamEffect`, ...) that says what it does to the
  tables, free of `CHOOSE`, `LET` and `Write`; the later proofs only use these.
- `OpenPracticeIsUnique`, `OpenSittingIsUnique`, `SittingsAgree`:
  `OneOpenPractice`, `OneOpenSitting` and `SittingAgreement`. They are proved as
  one inductive invariant, `LaneInvariant`, with `TypeOK`. The agreement is needed
  as a whole: that an open exam has no abandoned question and no result is what
  makes the submission of it agree, and that questions belong to their exam's
  learner is what keeps practice requests away from them.
- `ResolvedStays`, `LanesStayApart`, `GradedIsStored`, `ReviewStays`, `FirstStands`:
  every other property of `Lanes` that `lanes` checks. The proof sums up
  every action in one formula, `StepScope`: a row that is written was unresolved, a
  practice row that is written is not open any more, a row that is added is open
  and of practice or of a new exam, and only open exams are written. A closed exam,
  its questions and so its review stand still (`ResolvedExam`). `FirstStands` needs
  one more invariant, `OpenIsNewest`: an unanswered practice attempt has the
  greatest id its learner has at the exercise, so a later answer is never to an
  earlier attempt.

**Reports** (`ReportsAssumption`).

- `ReportsTypeCorrect`: `TypeOK`.
- `CopiesBounded`: `NoNeedlessCopy`. It is not inductive: a run that starts on a
  report already taken may add a copy. `DeliveryInvariant` adds that one task at
  most holds a report, and only while it is pending (`RowsLocked`); that a copy
  which no mark accounts for, present or about to be written, is a slip
  (`CopiesAccounted`); and that what is marked was mailed and what is mailed was
  stored (`MarksHonest`), which the refinement needs.
- `ReportsImplementOutbox`: `Spec => Promise!Spec`, the safety part of
  `ReportsReachTheTeam`: a report is stored once, marked only after the server
  took it, and never dropped.
- `ExcessBounded`: `DailyExcessBounded`, for finitely many slots. `LimitInvariant`
  counts, for each learner and day, the reports stored with the requests that
  passed the check (on the day, fewer than the limit plus one for each slot), and
  after midnight also those begun on that day and still to be checked, now against
  a day of their own (one more for each slot).

**MailedLinks** (`LinksAssumption`; which requests of one account may overlap is a
constant, and each theorem assumes which may not).

- `LinksTypeCorrect`: `TypeOK`, with any overlap.
- `VerifiedIsProved`, `ResetIsByHolder`: no sign-up or change of address next to a
  confirmation (`ConfirmAlone`). `AddressInvariant` relates what a confirmation has
  read to the row it will write.
- `NewestLinkOnly`: no two requests that store a link of one purpose (`StoreAlone`,
  `OneLinkInvariant`).
- `ResetSignsOut`: no login and no request for a reset link next to a reset, and no
  two such requests (`ResetAlone`).
  `SessionInvariant` follows a reset between its two commits, where a crash may fall.

`SafeOverlap`, which the run uses, meets all of these.

**Skeleton and Enrollment** (`SkeletonAssumption`, `EnrollmentAssumption`).

- `SkeletonSafe`: `ServedIsMirrored` and `ActiveTree` of `Skeleton` alone. The
  invariant adds `HalfWayIsMirrored`: what a run has behind it mirrors the bundle,
  although another process writes the same tables.
- `EnrollmentTypeCorrect`, `ServedTablesMirror`, `ActiveTreesHold`,
  `SettledCoursesStay`, `LastWordIsKept`, `SelectionIsActive`,
  `LearnerRowsAnchored`: every property of `enrollment` but liveness.
  `EnrollmentInvariant` joins the skeleton's invariant with `SavesInFlight` (what a
  save has decided is about published courses), `LoneSaves` (a save that nothing
  overlaps has read what is stored, and is the only kind in flight of a learner
  outside `overlapped`) and the properties themselves. A save that read what is
  stored stores what it decided (`MergedAlone`), and what is decided depends on
  what was stored only for withdrawn courses and reading languages
  (`DecidedActive`): so it puts right whatever an overlap left.

**LaneRequests** (`ConstantsAssumption`; any number of slots; `Overlap` is a
constant, and each theorem assumes what it must not contain).

- `RequestsSound`, `PracticeRowsWhole`: `RequestsOK` and `PracticeRowWhole`, with any
  overlap and any client. `FlightInvariant` says for each kind of request what it
  remembers: the row that an answer read was unanswered and held no verdict, an exam
  that was read was open and had no result. The rows themselves may have moved on.
- `GradingStaysPut`: `GradingStands`, from clients that keep to the lanes. A commit
  that writes an exam's stored grading is one of a request that read the exam as
  open (`CommitScope`), and no request that begins finds a submitted exam open
  (`NoClosingBegins`).
- `OpenExcessIsBounded`: `OpenExcessBounded`, for finitely many slots, with any
  overlap and any client. The property is inductive because it speaks of every
  subset of the requests in flight: the rows that none of them has found, with one
  more for each of them, are at most the slots. A commit takes its request out of
  the subset and adds at most its one row, which no other has found.
- `LateSittingsAgree`: `SittingAgreement`, if no two submissions of one learner
  overlap. `GradingInvariant` follows a submission from its reading to its commit:
  the verdicts it is about to write are those its result counts, and no other
  request changes which rows it grades.
- `HandlersAreSerializable`: `RSpec => Serializable`, that is `Lanes!Spec`, if
  requests of one learner overlap only as in `SafeOverlap`. A handler takes effect at
  its last commit; the readings before it stutter. `SerialInvariant` says that what
  a request read still is what it would read now: nothing that may overlap it
  changes the rows its decision rests on. So each commit computes what the one step
  of `Lanes` computes, and the refinement mapping is the identity.

**Stats** (`ConstantsAssumption`, `CountingAssumption`).

- `FiguresStayPrivate`: `PanelsArePrivate`; `FiguresAgree`: `PanelsAgree`. Both follow
  from `TypeOK` alone, whatever history led to the tables. The sums over learners are
  folds, so recursive functions. Induction over them is a least counterexample: of
  the parts of a set where a fold goes wrong, one has the fewest elements
  (`LeastSubset`), and taking one element out of it is one step of the fold.

**Exercises** (`BundlesAssumption`: what parsing the files guarantees).

- `LoadingIsSound`: `LoadedIsSound`. Flattening the blocks, modules and lessons of a
  manifest is a fold again; its range is proved by a least counterexample among the
  lengths of a list (`LeastNumber`).
- `PanesStayAligned`: `PanesAligned`, for charts of two candles or more (`Charted`).
  `PageInvariant` says that the page is the payload of a configuration, or figure,
  of the course under a seed it can draw; `BuildIsShaped` goes through the twenty
  injectors.
- `MarksStayLegible`: `MarksLegible`, for charts with room for the windows their
  injector searches (`Roomy`). For each injector a lemma says that its marks are
  apart, inside the part that is shown, and off the bars whose wicks are kept
  inside their level (`Marked`). The room matters: the repository's charts have
  it, and a fakeout of 136 candles, whose last two windows meet, would not.

**Answers** (`BundlesAssumption`, `SlipAssumption`; what the theorems assume besides
is below).

- `OneAnswerIsRight`: `OneRightAnswer`. `RightIs` says of a configuration, a seed and
  a value that grading any answer reveals one key, accepts that value alone, and that
  the value is on offer and printable. A lemma for each kind of exercise finds that
  value. A quiz inverts its shuffles (`InverseShuffle`), which needs that they are
  permutations of a finite list. A calculation collects its four options one by one,
  so `Spread` (values apart, the right one first, then mistakes and slips) is
  carried along the fold, by a least counterexample again. `AnswersInvariant` adds to
  `PageInvariant` what the clicks have made of the draft: nothing yet, or an answer
  in the field of its exercise.
- `NothingIsGivenAway`: `NothingGivenAway`. For each answer on offer a second seed is
  constructed which makes it the right one and shows the same page: two slots of a
  calculation swapped; the right sides of a matching shuffled by that very answer;
  the other label drawn on the same chart (`HidingIsDrawnAlike`, for the eight
  injectors whose pattern resolves after the chart ends).
- `DiagnosesAreTrue`: `DiagnosesHold`, the mistake that explains a wrong option does
  lead to the number it shows. `MistakesTell` goes through the eleven formulas: what
  the code computes for a mistake is what the formula computes from the misread
  parameters (`MisledBy`), half the fee for a fee on one fill, the other side for a
  wrong sign. The two are different expressions, so this rests on an arithmetic of
  fractions in lowest terms: that Euclid's algorithm ends and what it returns divides
  and scales (`GcdEquation`, `GcdDivides`, `GcdScales`, by least counterexamples),
  hence that equal fractions have one form (`FracEqual`), hence the laws of sums,
  products, quotients and signs. Of a slip, and of a mistake that no
  parameters make (those of a venue premium, the win rate used for the losses, a
  leverage not above one), it says only that it does not show the right number.

What they assume of a course is what its author promises; the loader does not check
it, and the repository's course keeps it:

| hypothesis | says |
| --- | --- |
| `Fresh` | what stands for "no mistake", "no answer" and "refused" is no other value |
| `Promised` | `Filling`: the mistakes and `SlipBound` slips suffice for four options (the code goes on slipping until they do); `Uncrowded`: charts have room for their marks |
| `Unmixed` | no exercise asks of a line and of a channel at once: the chart draws one line or two, and a label of the other family would be ruled out by what is seen |
| `Measurable` | what is sampled for a formula are numbers, and its leverage or stop distance is positive |

**Only model-checked.** Liveness (`ReportsReachTheTeam` beyond its safety part,
`SoundIsServed`) is out of the prover's reach.

## Not modelled

- The prices of charts: candles, wicks, indicators and pattern shapes are
  floating-point functions of a seed, and so is whether a pattern can be planted
  (`OpenFails` may happen whenever the code could raise).
- An attempt generated again after its configuration was redeployed; sittings
  stored before the question order was frozen.
- Texts: prompts, titles, worked solutions, mails, number formats, reading times.
- The print layout, database migrations, the export, measuring and golden-file
  scripts, which run offline; configuration, rate limiting and the command line,
  of which `reset-password` sets a password without a link (`cli.py:63`), so that
  `ResetOnlyByHolder` is about the requests of the site; of the command line only
  the content sync is modelled.
- Marks that an injector draws only when it finds a bar (the break of
  structure of an origin zone, a revisited imbalance) are always present, and the window of the
  break ends at the retest, where the code searches on to the end of its window.
- The frontend beyond the controls of an exercise and the requests it overlaps.

## Plan

What is left, in order: an abstract promise for `MailedLinks` (an address is
verified, and a password reset, by its holder) and that the module implements it;
redeployments inside `Exercises`, for attempts that outlive their configuration.
