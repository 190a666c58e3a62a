------------------------------ MODULE Reports ------------------------------
(***************************************************************************)
(* "Report this question": a report is stored first and mailed second, by  *)
(* the background task of the request that stored it or by the loop that   *)
(* retries every quarter of an hour.                                       *)
(*                                                                         *)
(* A filing request reads, checks and inserts in separate awaits.  A       *)
(* delivery run lists the pending reports and takes them one at a time,    *)
(* each in a transaction that keeps its row locked while the mail is sent. *)
(* The text of a report, its order among the pending ones and the counter  *)
(* email_attempts decide nothing and are left out.                         *)
(***************************************************************************)
EXTENDS Naturals, FiniteSets

CONSTANTS
  Users,
  Attempts,
  Author,       \* Author[a] is the learner attempt a belongs to
  Reportable,   \* the answered attempts on multiple-choice exercises
  DailyLimit,   \* DAILY_LIMIT
  MailEnabled,  \* is there a mail server and an address to report to?
  Rejected,     \* the reports the mail server never takes
  Slots,        \* bounds the requests being served
  Loop,         \* the retry loop
  LastDay,      \* bounds the days
  MaxSlips      \* bounds what goes wrong

ASSUME ReportsAssumption ==
  /\ Author \in [Attempts -> Users]
  /\ Reportable \subseteq Attempts
  /\ DailyLimit \in Nat \ {0}
  /\ MailEnabled \in BOOLEAN
  /\ Loop \notin Slots
  /\ LastDay \in Nat
  /\ MaxSlips \in Nat

VARIABLES
  reports,      \* the question_reports table: attempt -> row
  tasks,        \* what each request and the retry loop is doing
  copies,       \* how often the mail server took each report
  day,
  slips         \* lost replies and failures so far

vars == <<reports, tasks, copies, day, slips>>

Tasks == Slots \cup {Loop}

Idle == [at |-> "idle"]

Row == [day : Nat, emailed : BOOLEAN]

Task ==
  {Idle}
    \cup [at : {"check", "insert"}, attempt : Attempts, day : Nat]
    \cup [at : {"scan"}]
    \cup [at : {"next"}, todo : SUBSET Attempts]
    \cup [at : {"mailing"}, todo : SUBSET Attempts, report : Attempts]
    \cup [at : {"record"}, todo : SUBSET Attempts, report : Attempts, accepted : BOOLEAN]

Become(t, task) == tasks' = [tasks EXCEPT ![t] = task]

\* Fault: a left join also lists the attempts nobody reported.
Pending_Unfiled == {a \in Attempts : a \notin DOMAIN reports \/ ~reports[a].emailed}

Pending == {a \in DOMAIN reports : ~reports[a].emailed}

----------------------------------------------------------------------------
(* Filing.                                                                 *)

\* created_at is the instant the transaction began.
Begin(s, a) ==
  /\ tasks[s] = Idle
  /\ a \in Reportable
  /\ Become(s, [at |-> "check", attempt |-> a, day |-> day])
  /\ UNCHANGED <<reports, copies, day, slips>>

FiledOn(u, d) == {a \in DOMAIN reports : Author[a] = u /\ reports[a].day = d}

FiledToday(u) == {a \in DOMAIN reports : Author[a] = u /\ reports[a].day >= day}

\* Fault: the limit is compared with one report too many.
WithinLimits_OffByOne(a) ==
  /\ a \notin DOMAIN reports
  /\ Cardinality(FiledToday(Author[a])) <= DailyLimit

WithinLimits(a) ==
  /\ a \notin DOMAIN reports
  /\ Cardinality(FiledToday(Author[a])) < DailyLimit

Check(s) ==
  /\ tasks[s].at = "check"
  /\ Become(s, IF WithinLimits(tasks[s].attempt)
               THEN [tasks[s] EXCEPT !.at = "insert"] ELSE Idle)
  /\ UNCHANGED <<reports, copies, day, slips>>

\* attempt_id is unique: the insert fails if another request was faster.
Insert(s) ==
  LET a == tasks[s].attempt IN
  /\ tasks[s].at = "insert"
  /\ IF a \in DOMAIN reports
     THEN Become(s, Idle) /\ UNCHANGED reports
     ELSE /\ reports' = [b \in DOMAIN reports \cup {a} |->
                           IF b = a THEN [day |-> tasks[s].day, emailed |-> FALSE]
                           ELSE reports[b]]
          /\ Become(s, [at |-> "scan"])
  /\ UNCHANGED <<copies, day, slips>>

----------------------------------------------------------------------------
(* Delivery: a run of deliver_pending.                                     *)

\* The loop has slept long enough.
Wake ==
  /\ tasks[Loop] = Idle
  /\ Become(Loop, [at |-> "scan"])
  /\ UNCHANGED <<reports, copies, day, slips>>

Scan(t) ==
  /\ tasks[t].at = "scan"
  /\ Become(t, IF MailEnabled THEN [at |-> "next", todo |-> Pending] ELSE Idle)
  /\ UNCHANGED <<reports, copies, day, slips>>

Locked(a) == \E t \in Tasks : tasks[t].at \in {"mailing", "record"} /\ tasks[t].report = a

\* Fault: the row is taken without asking whether another run holds it.
Available_NoLock(a) == a \in Pending

\* What the locking SELECT returns.
Available(a) == a \in Pending /\ ~Locked(a)

Take(t) ==
  /\ tasks[t].at = "next"
  /\ \E a \in tasks[t].todo :
       Become(t, IF Available(a)
                 THEN [at |-> "mailing", todo |-> tasks[t].todo \ {a}, report |-> a]
                 ELSE [tasks[t] EXCEPT !.todo = @ \ {a}])
  /\ UNCHANGED <<reports, copies, day, slips>>

Finish(t) ==
  /\ tasks[t].at = "next"
  /\ tasks[t].todo = {}
  /\ Become(t, Idle)
  /\ UNCHANGED <<reports, copies, day, slips>>

Replied(t, accepted) ==
  Become(t, [at |-> "record", todo |-> tasks[t].todo, report |-> tasks[t].report,
             accepted |-> accepted])

\* The server takes the mail and the sender learns of it.
Accept(t, a) ==
  /\ tasks[t].at = "mailing"
  /\ tasks[t].report = a
  /\ a \notin Rejected
  /\ copies' = [copies EXCEPT ![a] = @ + 1]
  /\ Replied(t, TRUE)
  /\ UNCHANGED <<reports, day, slips>>

Refuse(t) ==
  /\ tasks[t].at = "mailing"
  /\ Replied(t, FALSE)
  /\ UNCHANGED <<reports, copies, day, slips>>

\* The server takes the mail but the connection breaks before it says so.
LoseReply(t) ==
  /\ tasks[t].at = "mailing"
  /\ tasks[t].report \notin Rejected
  /\ slips < MaxSlips
  /\ slips' = slips + 1
  /\ copies' = [copies EXCEPT ![tasks[t].report] = @ + 1]
  /\ Replied(t, FALSE)
  /\ UNCHANGED <<reports, day>>

\* Fault: a run marks what it has tried to send.
Record_Always(t) ==
  /\ tasks[t].at = "record"
  /\ reports' = [reports EXCEPT ![tasks[t].report].emailed = TRUE]
  /\ Become(t, [at |-> "next", todo |-> tasks[t].todo])
  /\ UNCHANGED <<copies, day, slips>>

\* The commit releases the row.
Record(t) ==
  /\ tasks[t].at = "record"
  /\ reports' = IF tasks[t].accepted
                THEN [reports EXCEPT ![tasks[t].report].emailed = TRUE] ELSE reports
  /\ Become(t, [at |-> "next", todo |-> tasks[t].todo])
  /\ UNCHANGED <<copies, day, slips>>

----------------------------------------------------------------------------
(* What the code does not control.                                         *)

\* One task fails: its transaction rolls back and the loop sleeps again.
Fail(t) ==
  /\ tasks[t] # Idle
  /\ slips < MaxSlips
  /\ slips' = slips + 1
  /\ Become(t, Idle)
  /\ UNCHANGED <<reports, copies, day>>

\* The process dies and starts again, with a retry first thing.
Restart ==
  /\ slips < MaxSlips
  /\ slips' = slips + 1
  /\ tasks' = [t \in Tasks |-> IF t = Loop THEN [at |-> "scan"] ELSE Idle]
  /\ UNCHANGED <<reports, copies, day>>

Midnight ==
  /\ day < LastDay
  /\ day' = day + 1
  /\ UNCHANGED <<reports, tasks, copies, slips>>

Init ==
  /\ reports = [a \in {} |-> Idle]
  /\ tasks = [t \in Tasks |-> IF t = Loop THEN [at |-> "scan"] ELSE Idle]
  /\ copies = [a \in Attempts |-> 0]
  /\ day = 0
  /\ slips = 0

Deliver(t) ==
  \/ Scan(t) \/ Take(t) \/ Finish(t)
  \/ (\E a \in Attempts : Accept(t, a)) \/ Refuse(t)
  \/ Record(t)

Work(s) == Check(s) \/ Insert(s) \/ Deliver(s)

Next ==
  \/ \E s \in Slots : (\E a \in Attempts : Begin(s, a)) \/ Work(s)
  \/ Wake \/ Deliver(Loop)
  \/ \E t \in Tasks : LoseReply(t) \/ Fail(t)
  \/ Restart \/ Midnight

Spec == Init /\ [][Next]_vars

\* Every task goes on, the loop wakes up, and a report the server does not
\* reject is taken if the loop offers it again and again.
Fairness ==
  /\ \A s \in Slots : WF_vars(Work(s))
  /\ WF_vars(Wake \/ Deliver(Loop))
  /\ \A a \in Attempts : SF_vars(Accept(Loop, a))

FairSpec == Spec /\ Fairness

----------------------------------------------------------------------------
(* Correctness.                                                            *)

\* Every task holds what its step needs, and delivery only names stored rows.
TypeOK ==
  /\ DOMAIN reports \subseteq Attempts
  /\ reports \in [DOMAIN reports -> Row]
  /\ tasks \in [Tasks -> Task]
  /\ copies \in [Attempts -> Nat]
  /\ day \in 0..LastDay
  /\ slips \in 0..MaxSlips
  /\ \A t \in Tasks :
       tasks[t].at \in {"mailing", "record"} => tasks[t].report \in DOMAIN reports

\* However many runs overlap, the team gets a report once, and once more at
\* most for each reply, task or process lost on the way
\* (reports/service.py:135).
NoNeedlessCopy == \A a \in Attempts : copies[a] <= 1 + slips

\* A learner's requests can pass the limit together only if they overlap, or
\* begin before midnight and are checked after it: the excess is bounded by
\* the requests served at once, never by the number of tries
\* (reports/service.py:54-67).
DailyExcessBounded ==
  \A u \in Users, d \in 0..LastDay :
    Cardinality(FiledOn(u, d)) < DailyLimit + 2 * Cardinality(Slots)

\* "Limits: one report per attempt, ten per user per day" (README.md:847).
DailyLimitKept ==
  \A u \in Users, d \in 0..LastDay : Cardinality(FiledOn(u, d)) <= DailyLimit

\* How far each report has come, as Outbox sees it.
Stage ==
  [a \in Attempts |->
     IF a \notin DOMAIN reports THEN "unfiled"
     ELSE IF reports[a].emailed THEN "mailed"
     ELSE IF copies[a] > 0 THEN "received" ELSE "pending"]

Promise == INSTANCE Outbox WITH stage <- Stage

\* A report is stored once, marked as mailed only after the server took it,
\* and a report the server does not reject is retried until it is mailed
\* ("a pending report is retried, never dropped", reports/models.py:43).
ReportsReachTheTeam == Promise!LiveSpec

=============================================================================
