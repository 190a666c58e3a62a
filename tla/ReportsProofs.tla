--------------------------- MODULE ReportsProofs ---------------------------
(* Reports are mailed as Outbox promises and, but for what goes wrong,     *)
(* once; and how far overlapping requests can exceed the daily limit: for  *)
(* any number of learners, requests, reports, days and failures.           *)
EXTENDS Reports, FiniteSetTheorems, TLAPS

Busy(t) == tasks[t].at \in {"mailing", "record"}

\* A report the server has just been seen to take, not yet marked.
Taken(a) ==
  \E t \in Tasks : tasks[t].at = "record" /\ tasks[t].report = a /\ tasks[t].accepted

\* A row is mailed by one task at a time, while it is pending.
RowsLocked ==
  /\ \A t \in Tasks : Busy(t) => tasks[t].report \in Pending
  /\ \A t, u \in Tasks : Busy(t) /\ Busy(u) /\ tasks[t].report = tasks[u].report => t = u

\* A copy nobody marked, or is about to mark, is one that slipped.
CopiesAccounted ==
  \A a \in Attempts :
    copies[a] <= slips
      \/ (copies[a] <= 1 + slips /\ (Taken(a) \/ a \in DOMAIN reports \ Pending))

\* What is mailed was stored, and what is marked was mailed.
MarksHonest ==
  /\ \A a \in Attempts : copies[a] > 0 => a \in DOMAIN reports
  /\ \A a \in DOMAIN reports : reports[a].emailed => copies[a] > 0
  /\ \A t \in Tasks : tasks[t].at = "record" /\ tasks[t].accepted => copies[tasks[t].report] > 0

DeliveryInvariant == TypeOK /\ RowsLocked /\ CopiesAccounted /\ MarksHonest

----------------------------------------------------------------------------
(* Tasks.                                                                  *)

LEMMA TaskFields ==
  ASSUME TypeOK, NEW t \in Tasks
  PROVE  /\ tasks[t].at \in {"check", "insert"} =>
              tasks[t].attempt \in Attempts /\ tasks[t].day \in Nat
         /\ tasks[t].at = "next" => tasks[t].todo \in SUBSET Attempts
         /\ Busy(t) => /\ tasks[t].todo \in SUBSET Attempts
                       /\ tasks[t].report \in Attempts
                       /\ tasks[t].report \in DOMAIN reports
         /\ tasks[t].at = "record" => tasks[t].accepted \in BOOLEAN
<1>1. tasks[t] \in Task
  BY DEF TypeOK
<1>2. Busy(t) => tasks[t].report \in DOMAIN reports
  BY DEF TypeOK, Busy
<1>. QED
  BY <1>1, <1>2 DEF Task, Idle, Busy

LEMMA BecomeEffect ==
  ASSUME TypeOK, NEW t \in Tasks, NEW x, Become(t, x)
  PROVE  /\ tasks'[t] = x
         /\ \A u \in Tasks \ {t} : tasks'[u] = tasks[u]
         /\ tasks' = [u \in Tasks |-> tasks'[u]]
  BY DEF TypeOK, Become

LEMMA NewTasks ==
  /\ Idle \in Task
  /\ \A a \in Attempts, d \in Nat :
       [at |-> "check", attempt |-> a, day |-> d] \in Task
         /\ [at |-> "insert", attempt |-> a, day |-> d] \in Task
  /\ [at |-> "scan"] \in Task
  /\ \A S \in SUBSET Attempts : [at |-> "next", todo |-> S] \in Task
  /\ \A S \in SUBSET Attempts, a \in Attempts :
       [at |-> "mailing", todo |-> S, report |-> a] \in Task
  /\ \A S \in SUBSET Attempts, a \in Attempts, b \in BOOLEAN :
       [at |-> "record", todo |-> S, report |-> a, accepted |-> b] \in Task
  BY DEF Task, Idle

LEMMA IdleIsNotBusy == Idle.at = "idle"
  BY DEF Idle

----------------------------------------------------------------------------
(* Steps that no row notices.                                              *)

\* A task that mails nothing before or after its step, and stores nothing.
LEMMA QuietStep ==
  ASSUME DeliveryInvariant, NEW t \in Tasks, NEW x \in Task, Become(t, x),
         ~Busy(t), x.at \notin {"mailing", "record"},
         UNCHANGED <<reports, copies, slips>>, day' \in 0..LastDay
  PROVE  DeliveryInvariant'
<1>1. /\ tasks'[t] = x
      /\ \A u \in Tasks \ {t} : tasks'[u] = tasks[u]
      /\ tasks' = [u \in Tasks |-> tasks'[u]]
  BY BecomeEffect DEF DeliveryInvariant
<1>2. /\ ~Busy(t)'
      /\ \A u \in Tasks : Busy(u)' => Busy(u) /\ tasks'[u] = tasks[u]
  BY <1>1 DEF Busy
<1>3. TypeOK'
  <2>1. tasks' \in [Tasks -> Task]
    BY <1>1 DEF DeliveryInvariant, TypeOK
  <2>2. \A u \in Tasks :
          tasks'[u].at \in {"mailing", "record"} => tasks'[u].report \in DOMAIN reports
    BY <1>2 DEF DeliveryInvariant, TypeOK, Busy
  <2>. QED BY <2>1, <2>2 DEF DeliveryInvariant, TypeOK
<1>4. RowsLocked'
  BY <1>2 DEF DeliveryInvariant, RowsLocked, Pending
<1>5. \A a \in Attempts : Taken(a) => Taken(a)'
  BY <1>1 DEF Taken, Busy
<1>6. CopiesAccounted'
  BY <1>5 DEF DeliveryInvariant, CopiesAccounted, Pending
<1>7. MarksHonest'
  BY <1>2 DEF DeliveryInvariant, MarksHonest, Busy
<1>. QED
  BY <1>3, <1>4, <1>6, <1>7 DEF DeliveryInvariant

\* Tasks that stop, whatever they were doing, at the price of one slip.
LEMMA DroppingStep ==
  ASSUME DeliveryInvariant, tasks' \in [Tasks -> Task],
         \A u \in Tasks : tasks'[u] = tasks[u] \/ ~Busy(u)',
         slips < MaxSlips, slips' = slips + 1, UNCHANGED <<reports, copies, day>>
  PROVE  DeliveryInvariant'
<1>1. \A u \in Tasks : Busy(u)' => Busy(u) /\ tasks'[u] = tasks[u]
  BY DEF Busy
<1>2. TypeOK'
  <2>1. \A u \in Tasks :
          tasks'[u].at \in {"mailing", "record"} => tasks'[u].report \in DOMAIN reports
    BY <1>1 DEF DeliveryInvariant, TypeOK, Busy
  <2>2. slips' \in 0..MaxSlips
    BY ReportsAssumption DEF DeliveryInvariant, TypeOK
  <2>. QED BY <2>1, <2>2 DEF DeliveryInvariant, TypeOK
<1>3. RowsLocked'
  BY <1>1 DEF DeliveryInvariant, RowsLocked, Pending
<1>4. CopiesAccounted'
  <2>1. \A a \in Attempts : copies[a] \in Nat /\ slips \in Nat
    BY DEF DeliveryInvariant, TypeOK
  <2>2. \A a \in Attempts : copies[a] <= slips'
    BY <2>1 DEF DeliveryInvariant, CopiesAccounted
  <2>. QED BY <2>2 DEF CopiesAccounted
<1>5. MarksHonest'
  BY <1>1 DEF DeliveryInvariant, MarksHonest, Busy
<1>. QED
  BY <1>2, <1>3, <1>4, <1>5 DEF DeliveryInvariant

----------------------------------------------------------------------------
(* Steps that store, lock, mail or mark a report.                          *)

LEMMA InsertStep ==
  ASSUME DeliveryInvariant, NEW s \in Slots, Insert(s)
  PROVE  DeliveryInvariant'
<1> DEFINE a == tasks[s].attempt
<1>1. s \in Tasks /\ tasks[s].at = "insert" /\ ~Busy(s)
  BY DEF Insert, Tasks, Busy
<1>2. a \in Attempts /\ tasks[s].day \in Nat
  BY <1>1, TaskFields DEF DeliveryInvariant
<1>3. UNCHANGED <<copies, day, slips>>
  BY DEF Insert
<1>4. CASE a \in DOMAIN reports
  <2>1. Become(s, Idle) /\ reports' = reports
    BY <1>4 DEF Insert
  <2>. QED BY <1>1, <1>3, <2>1, NewTasks, IdleIsNotBusy, QuietStep DEF DeliveryInvariant, TypeOK
<1>5. CASE a \notin DOMAIN reports
  <2> DEFINE row == [day |-> tasks[s].day, emailed |-> FALSE]
  <2>1. /\ reports' = [b \in DOMAIN reports \cup {a} |-> IF b = a THEN row ELSE reports[b]]
        /\ Become(s, [at |-> "scan"])
    BY <1>5 DEF Insert
  <2>2. /\ tasks'[s] = [at |-> "scan"]
        /\ \A u \in Tasks \ {s} : tasks'[u] = tasks[u]
        /\ tasks' = [u \in Tasks |-> tasks'[u]]
    BY <1>1, <2>1, BecomeEffect DEF DeliveryInvariant
  <2>3. row \in Row /\ ~row.emailed
    BY <1>2 DEF Row
  <2> HIDE DEF row, a
  <2>4. /\ DOMAIN reports' = DOMAIN reports \cup {a}
        /\ reports'[a] = row
        /\ \A b \in DOMAIN reports : reports'[b] = reports[b]
        /\ reports' = [b \in DOMAIN reports' |-> reports'[b]]
    BY <1>5, <2>1
  <2>5. Pending' = Pending \cup {a}
    BY <2>3, <2>4 DEF Pending
  <2>6. \A u \in Tasks : Busy(u)' => Busy(u) /\ tasks'[u] = tasks[u]
    BY <2>2 DEF Busy
  <2>7. TypeOK'
    <3>1. tasks' \in [Tasks -> Task]
      BY <2>2, NewTasks DEF DeliveryInvariant, TypeOK
    <3>2. reports' \in [DOMAIN reports' -> Row] /\ DOMAIN reports' \subseteq Attempts
      BY <1>2, <2>3, <2>4 DEF DeliveryInvariant, TypeOK
    <3>3. \A u \in Tasks :
            tasks'[u].at \in {"mailing", "record"} => tasks'[u].report \in DOMAIN reports'
      BY <2>4, <2>6 DEF DeliveryInvariant, TypeOK, Busy
    <3>. QED BY <1>3, <3>1, <3>2, <3>3 DEF DeliveryInvariant, TypeOK
  <2>8. RowsLocked'
    BY <2>5, <2>6 DEF DeliveryInvariant, RowsLocked
  <2>9. CopiesAccounted'
    <3>1. \A b \in Attempts : Taken(b) => Taken(b)'
      BY <1>1, <2>2 DEF Taken
    <3>2. \A b \in DOMAIN reports \ Pending : b \in DOMAIN reports' \ Pending'
      BY <1>5, <2>4, <2>5
    <3>. QED BY <1>3, <3>1, <3>2 DEF DeliveryInvariant, CopiesAccounted
  <2>10. MarksHonest'
    BY <1>3, <2>3, <2>4, <2>6 DEF DeliveryInvariant, MarksHonest, Busy
  <2>. QED BY <2>7, <2>8, <2>9, <2>10 DEF DeliveryInvariant
<1>. QED
  BY <1>4, <1>5

LEMMA TakeStep ==
  ASSUME DeliveryInvariant, NEW t \in Tasks, Take(t)
  PROVE  DeliveryInvariant'
<1>1. /\ tasks[t].at = "next" /\ ~Busy(t)
      /\ UNCHANGED <<reports, copies, day, slips>>
      /\ tasks[t].todo \in SUBSET Attempts
      /\ day \in 0..LastDay
  BY TaskFields DEF Take, Busy, DeliveryInvariant, TypeOK
<1>2. PICK a \in tasks[t].todo :
        Become(t, IF Available(a)
                  THEN [at |-> "mailing", todo |-> tasks[t].todo \ {a}, report |-> a]
                  ELSE [tasks[t] EXCEPT !.todo = @ \ {a}])
  BY DEF Take
<1>3. CASE ~Available(a)
  <2> DEFINE x == [tasks[t] EXCEPT !.todo = @ \ {a}]
  <2>1. x \in Task /\ x.at = "next"
    BY <1>1 DEF DeliveryInvariant, TypeOK, Task, Idle
  <2>2. Become(t, x)
    BY <1>2, <1>3
  <2> HIDE DEF x
  <2>. QED BY <1>1, <2>1, <2>2, QuietStep
<1>4. CASE Available(a)
  <2> DEFINE x == [at |-> "mailing", todo |-> tasks[t].todo \ {a}, report |-> a]
  <2>1. /\ tasks'[t] = x
        /\ \A u \in Tasks \ {t} : tasks'[u] = tasks[u]
        /\ tasks' = [u \in Tasks |-> tasks'[u]]
    BY <1>2, <1>4, BecomeEffect DEF DeliveryInvariant
  <2>2. x \in Task /\ x.at = "mailing" /\ x.report = a
    BY <1>1, NewTasks
  <2> HIDE DEF x
  <2>3. a \in Pending /\ \A u \in Tasks : Busy(u) => tasks[u].report # a
    BY <1>4 DEF Available, Locked, Busy
  <2>4. \A u \in Tasks \ {t} : Busy(u)' <=> Busy(u)
    BY <2>1 DEF Busy
  <2>5. Pending' = Pending
    BY <1>1 DEF Pending
  <2>6. TypeOK'
    <3>1. tasks' \in [Tasks -> Task]
      BY <2>1, <2>2 DEF DeliveryInvariant, TypeOK
    <3>2. \A u \in Tasks :
            tasks'[u].at \in {"mailing", "record"} => tasks'[u].report \in DOMAIN reports
      BY <2>1, <2>2, <2>3 DEF DeliveryInvariant, TypeOK, Pending
    <3>. QED BY <1>1, <3>1, <3>2 DEF DeliveryInvariant, TypeOK
  <2>7. RowsLocked'
    BY <2>1, <2>2, <2>3, <2>4, <2>5 DEF DeliveryInvariant, RowsLocked
  <2>8. CopiesAccounted'
    <3>1. \A b \in Attempts : Taken(b) => Taken(b)'
      BY <1>1, <2>1 DEF Taken
    <3>. QED BY <1>1, <2>5, <3>1 DEF DeliveryInvariant, CopiesAccounted
  <2>9. MarksHonest'
    BY <1>1, <2>1, <2>2 DEF DeliveryInvariant, MarksHonest
  <2>. QED BY <2>6, <2>7, <2>8, <2>9 DEF DeliveryInvariant
<1>. QED
  BY <1>3, <1>4

\* What the sender learns, with or without a copy going out.
LEMMA ReplyStep ==
  ASSUME DeliveryInvariant, NEW t \in Tasks, tasks[t].at = "mailing",
         NEW accepted \in BOOLEAN, Replied(t, accepted),
         NEW n \in {0, 1}, NEW k \in {0, 1},
         copies' = [copies EXCEPT ![tasks[t].report] = @ + n],
         slips' = slips + k, slips' <= MaxSlips,
         accepted => n = 1, n = 1 => accepted \/ k = 1,
         UNCHANGED <<reports, day>>
  PROVE  DeliveryInvariant'
<1> DEFINE a == tasks[t].report
           x == [at |-> "record", todo |-> tasks[t].todo, report |-> a, accepted |-> accepted]
<1>1. /\ tasks'[t] = x
      /\ \A u \in Tasks \ {t} : tasks'[u] = tasks[u]
      /\ tasks' = [u \in Tasks |-> tasks'[u]]
  BY BecomeEffect DEF DeliveryInvariant, Replied
<1>2. /\ Busy(t) /\ a \in Attempts /\ a \in Pending
      /\ tasks[t].todo \in SUBSET Attempts
  BY TaskFields DEF DeliveryInvariant, RowsLocked, Busy
<1>3. x \in Task /\ x.at = "record" /\ x.report = a /\ x.accepted = accepted
  BY <1>2, NewTasks
<1> HIDE DEF x
<1>4. \A u \in Tasks : (Busy(u)' <=> Busy(u)) /\ (Busy(u) => tasks'[u].report = tasks[u].report)
  BY <1>1, <1>2, <1>3 DEF Busy
<1>5. Pending' = Pending
  BY DEF Pending
<1>6. /\ copies \in [Attempts -> Nat] /\ slips \in Nat
      /\ copies' \in [Attempts -> Nat] /\ slips' \in Nat
      /\ copies'[a] = copies[a] + n
      /\ \A b \in Attempts \ {a} : copies'[b] = copies[b]
  BY <1>2 DEF DeliveryInvariant, TypeOK
<1>7. TypeOK'
  <2>1. tasks' \in [Tasks -> Task]
    BY <1>1, <1>3 DEF DeliveryInvariant, TypeOK
  <2>2. \A u \in Tasks :
          tasks'[u].at \in {"mailing", "record"} => tasks'[u].report \in DOMAIN reports
    BY <1>4 DEF DeliveryInvariant, TypeOK, Busy
  <2>3. slips' \in 0..MaxSlips
    BY <1>6, ReportsAssumption
  <2>. QED BY <1>6, <2>1, <2>2, <2>3 DEF DeliveryInvariant, TypeOK
<1>8. RowsLocked'
  BY <1>4, <1>5 DEF DeliveryInvariant, RowsLocked
<1>9. CopiesAccounted'
  <2> SUFFICES ASSUME NEW b \in Attempts
               PROVE  copies'[b] <= slips'
                        \/ (copies'[b] <= 1 + slips' /\ (Taken(b)' \/ b \in DOMAIN reports \ Pending))
    BY <1>5 DEF CopiesAccounted
  <2>1. CASE b # a
    <3>1. Taken(b) => Taken(b)'
      BY <1>1, <2>1 DEF Taken
    <3>. QED BY <1>6, <2>1, <3>1 DEF DeliveryInvariant, CopiesAccounted
  <2>2. CASE b = a
    <3>1. ~Taken(a)
      BY <1>2 DEF Taken, DeliveryInvariant, RowsLocked, Busy
    <3>2. copies[a] <= slips
      BY <1>2, <3>1 DEF DeliveryInvariant, CopiesAccounted
    <3>3. copies[a] \in Nat
      BY <1>2, <1>6
    <3>4. CASE n = 0 \/ k = 1
      BY <1>6, <2>2, <3>2, <3>3, <3>4
    <3>5. CASE n = 1 /\ k = 0
      <4>1. accepted = TRUE
        BY <3>5
      <4>2. /\ tasks'[t].at = "record" /\ tasks'[t].report = b
            /\ tasks'[t].accepted
        BY <1>1, <1>3, <2>2, <4>1
      <4>3. Taken(b)'
        BY <4>2 DEF Taken
      <4>4. copies'[b] <= 1 + slips'
        BY <1>6, <2>2, <3>2, <3>3, <3>5
      <4>. QED BY <4>3, <4>4
    <3>. QED BY <3>4, <3>5
  <2>. QED BY <2>1, <2>2
<1>10. MarksHonest'
  <2>1. \A b \in Attempts : copies'[b] >= copies[b]
    BY <1>6
  <2>2. \A b \in Attempts : copies'[b] > 0 => b \in DOMAIN reports
    BY <1>2, <1>6 DEF DeliveryInvariant, MarksHonest, Pending
  <2>3. \A b \in DOMAIN reports : reports[b].emailed => copies'[b] > 0
    BY <1>6, <2>1 DEF DeliveryInvariant, MarksHonest, TypeOK
  <2>4. ASSUME NEW u \in Tasks, tasks'[u].at = "record", tasks'[u].accepted
        PROVE  copies'[tasks'[u].report] > 0
    <3>1. CASE u = t
      BY <1>1, <1>3, <1>6, <2>4, <3>1
    <3>2. CASE u # t
      <4>1. Busy(u) /\ tasks'[u] = tasks[u] /\ tasks[u].report \in Attempts
        BY <1>1, <2>4, <3>2, TaskFields DEF Busy, DeliveryInvariant
      <4>2. copies[tasks[u].report] > 0
        BY <2>4, <4>1 DEF DeliveryInvariant, MarksHonest
      <4>. QED BY <1>6, <2>1, <4>1, <4>2
    <3>. QED BY <3>1, <3>2
  <2>. QED BY <2>2, <2>3, <2>4 DEF MarksHonest
<1>. QED
  BY <1>7, <1>8, <1>9, <1>10 DEF DeliveryInvariant

LEMMA RecordStep ==
  ASSUME DeliveryInvariant, NEW t \in Tasks, Record(t)
  PROVE  DeliveryInvariant'
<1> DEFINE a == tasks[t].report
           x == [at |-> "next", todo |-> tasks[t].todo]
<1>1. /\ tasks'[t] = x
      /\ \A u \in Tasks \ {t} : tasks'[u] = tasks[u]
      /\ tasks' = [u \in Tasks |-> tasks'[u]]
  BY BecomeEffect DEF DeliveryInvariant, Record
<1>2. /\ Busy(t) /\ a \in Attempts /\ a \in Pending /\ a \in DOMAIN reports
      /\ tasks[t].todo \in SUBSET Attempts /\ tasks[t].accepted \in BOOLEAN
  BY TaskFields DEF DeliveryInvariant, RowsLocked, Busy, Record
<1>3. x \in Task /\ x.at = "next"
  BY <1>2, NewTasks
<1> HIDE DEF x
<1>4. \A u \in Tasks : Busy(u)' => u # t /\ Busy(u) /\ tasks'[u] = tasks[u]
  BY <1>1, <1>3 DEF Busy
<1>5. /\ reports' = [b \in DOMAIN reports |->
                       IF b = a /\ tasks[t].accepted
                       THEN [reports[b] EXCEPT !.emailed = TRUE] ELSE reports[b]]
      /\ UNCHANGED <<copies, day, slips>>
  <2>1. CASE tasks[t].accepted
    BY <1>2, <2>1 DEF Record, DeliveryInvariant, TypeOK
  <2>2. CASE ~tasks[t].accepted
    BY <1>2, <2>2 DEF Record, DeliveryInvariant, TypeOK
  <2>. QED BY <1>2, <2>1, <2>2
<1>6. \A b \in DOMAIN reports :
        /\ reports[b] \in Row
        /\ [reports[b] EXCEPT !.emailed = TRUE] \in Row
        /\ [reports[b] EXCEPT !.emailed = TRUE].emailed
  BY DEF DeliveryInvariant, TypeOK, Row
<1>7. /\ DOMAIN reports' = DOMAIN reports
      /\ reports' \in [DOMAIN reports -> Row]
      /\ \A b \in DOMAIN reports : b # a => reports'[b] = reports[b]
      /\ reports'[a].emailed <=> tasks[t].accepted
  BY <1>2, <1>5, <1>6 DEF Pending
<1>8. Pending' = IF tasks[t].accepted THEN Pending \ {a} ELSE Pending
  BY <1>2, <1>7 DEF Pending
<1>9. TypeOK'
  <2>1. tasks' \in [Tasks -> Task]
    BY <1>1, <1>3 DEF DeliveryInvariant, TypeOK
  <2>2. \A u \in Tasks :
          tasks'[u].at \in {"mailing", "record"} => tasks'[u].report \in DOMAIN reports
    BY <1>4 DEF DeliveryInvariant, TypeOK, Busy
  <2>. QED BY <1>5, <1>7, <2>1, <2>2 DEF DeliveryInvariant, TypeOK
<1>10. RowsLocked'
  BY <1>2, <1>4, <1>8 DEF DeliveryInvariant, RowsLocked
<1>11. CopiesAccounted'
  <2> SUFFICES ASSUME NEW b \in Attempts
               PROVE  copies[b] <= slips
                        \/ (copies[b] <= 1 + slips /\ (Taken(b)' \/ b \in DOMAIN reports \ Pending'))
    BY <1>5, <1>7 DEF CopiesAccounted
  <2>1. CASE b = a /\ tasks[t].accepted
    BY <1>2, <1>8, <2>1 DEF DeliveryInvariant, CopiesAccounted
  <2>2. CASE ~(b = a /\ tasks[t].accepted)
    <3>1. Taken(b) => Taken(b)'
      BY <1>1, <2>2 DEF Taken
    <3>2. b \in DOMAIN reports \ Pending => b \in DOMAIN reports \ Pending'
      BY <1>8
    <3>. QED BY <3>1, <3>2 DEF DeliveryInvariant, CopiesAccounted
  <2>. QED BY <2>1, <2>2
<1>12. MarksHonest'
  <2>1. tasks[t].accepted => copies[a] > 0
    BY DEF DeliveryInvariant, MarksHonest, Record
  <2>. QED BY <1>4, <1>5, <1>7, <2>1 DEF DeliveryInvariant, MarksHonest, Busy
<1>. QED
  BY <1>9, <1>10, <1>11, <1>12 DEF DeliveryInvariant

----------------------------------------------------------------------------
(* The invariant.                                                          *)

LEMMA InitDeliveryInvariant == Init => DeliveryInvariant
<1> SUFFICES ASSUME Init PROVE DeliveryInvariant
  OBVIOUS
<1>1. \A t \in Tasks : tasks[t] \in Task /\ tasks[t].at \in {"scan", "idle"}
  BY NewTasks, IdleIsNotBusy DEF Init
<1>2. DOMAIN reports = {}
  BY DEF Init
<1>3. TypeOK
  BY <1>1, <1>2, ReportsAssumption DEF Init, TypeOK
<1>4. \A a \in Attempts : copies[a] = 0
  BY DEF Init
<1>. QED
  BY <1>1, <1>2, <1>3, <1>4
     DEF DeliveryInvariant, RowsLocked, CopiesAccounted, MarksHonest, Busy, Init

LEMMA NextDeliveryInvariant == DeliveryInvariant /\ [Next]_vars => DeliveryInvariant'
<1> SUFFICES ASSUME DeliveryInvariant, [Next]_vars PROVE DeliveryInvariant'
  OBVIOUS
<1>1. Loop \in Tasks /\ \A s \in Slots : s \in Tasks
  BY DEF Tasks
<1>2. day \in 0..LastDay /\ day \in Nat
  BY ReportsAssumption DEF DeliveryInvariant, TypeOK
<1>3. ASSUME NEW s \in Slots, NEW a \in Attempts, Begin(s, a) PROVE DeliveryInvariant'
  <2>1. ~Busy(s) /\ UNCHANGED <<reports, copies, day, slips>>
    BY <1>3, IdleIsNotBusy DEF Begin, Busy
  <2>2. Become(s, [at |-> "check", attempt |-> a, day |-> day])
    BY <1>3 DEF Begin
  <2>. QED BY <1>1, <1>2, <2>1, <2>2, NewTasks, QuietStep
<1>4. ASSUME NEW s \in Slots, Check(s) PROVE DeliveryInvariant'
  <2> DEFINE x == IF WithinLimits(tasks[s].attempt)
                  THEN [tasks[s] EXCEPT !.at = "insert"] ELSE Idle
  <2>1. ~Busy(s) /\ UNCHANGED <<reports, copies, day, slips>> /\ Become(s, x)
    BY <1>4 DEF Check, Busy
  <2>2. tasks[s] \in Task /\ tasks[s].at = "check"
    BY <1>1, <1>4 DEF Check, DeliveryInvariant, TypeOK
  <2>3. /\ [tasks[s] EXCEPT !.at = "insert"] \in Task
        /\ [tasks[s] EXCEPT !.at = "insert"].at = "insert"
    BY <2>2 DEF Task, Idle
  <2>4. x \in Task /\ x.at \notin {"mailing", "record"}
    BY <2>3, NewTasks, IdleIsNotBusy
  <2> HIDE DEF x
  <2>. QED BY <1>1, <1>2, <2>1, <2>4, QuietStep
<1>5. ASSUME Wake PROVE DeliveryInvariant'
  <2>1. ~Busy(Loop) /\ UNCHANGED <<reports, copies, day, slips>> /\ Become(Loop, [at |-> "scan"])
    BY <1>5, IdleIsNotBusy DEF Wake, Busy
  <2>. QED BY <1>1, <1>2, <2>1, NewTasks, QuietStep
<1>6. ASSUME NEW t \in Tasks, Scan(t) PROVE DeliveryInvariant'
  <2> DEFINE x == IF MailEnabled THEN [at |-> "next", todo |-> Pending] ELSE Idle
  <2>1. ~Busy(t) /\ UNCHANGED <<reports, copies, day, slips>> /\ Become(t, x)
    BY <1>6 DEF Scan, Busy
  <2>2. Pending \in SUBSET Attempts
    BY DEF Pending, DeliveryInvariant, TypeOK
  <2>3. x \in Task /\ x.at \notin {"mailing", "record"}
    BY <2>2, NewTasks, IdleIsNotBusy
  <2> HIDE DEF x
  <2>. QED BY <1>2, <2>1, <2>3, QuietStep
<1>7. ASSUME NEW t \in Tasks, Finish(t) PROVE DeliveryInvariant'
  <2>1. ~Busy(t) /\ UNCHANGED <<reports, copies, day, slips>> /\ Become(t, Idle)
    BY <1>7 DEF Finish, Busy
  <2>. QED BY <1>2, <2>1, NewTasks, IdleIsNotBusy, QuietStep
<1>8. ASSUME NEW t \in Tasks, NEW a \in Attempts, Accept(t, a) PROVE DeliveryInvariant'
  <2>1. slips \in Nat /\ slips' = slips + 0 /\ slips' <= MaxSlips
    BY <1>8, ReportsAssumption DEF Accept, DeliveryInvariant, TypeOK
  <2>2. /\ tasks[t].at = "mailing" /\ Replied(t, TRUE)
        /\ copies' = [copies EXCEPT ![tasks[t].report] = @ + 1]
        /\ UNCHANGED <<reports, day>>
    BY <1>8 DEF Accept
  <2>. QED BY <2>1, <2>2, ReplyStep
<1>9. ASSUME NEW t \in Tasks, Refuse(t) PROVE DeliveryInvariant'
  <2>1. slips \in Nat /\ slips' = slips + 0 /\ slips' <= MaxSlips
    BY <1>9, ReportsAssumption DEF Refuse, DeliveryInvariant, TypeOK
  <2>2. copies' = [copies EXCEPT ![tasks[t].report] = @ + 0]
    BY <1>9 DEF Refuse, DeliveryInvariant, TypeOK
  <2>3. tasks[t].at = "mailing" /\ Replied(t, FALSE) /\ UNCHANGED <<reports, day>>
    BY <1>9 DEF Refuse
  <2>. QED BY <2>1, <2>2, <2>3, ReplyStep
<1>10. ASSUME NEW t \in Tasks, LoseReply(t) PROVE DeliveryInvariant'
  <2>1. slips \in Nat /\ slips' = slips + 1 /\ slips' <= MaxSlips
    BY <1>10, ReportsAssumption DEF LoseReply, DeliveryInvariant, TypeOK
  <2>2. /\ tasks[t].at = "mailing" /\ Replied(t, FALSE)
        /\ copies' = [copies EXCEPT ![tasks[t].report] = @ + 1]
        /\ UNCHANGED <<reports, day>>
    BY <1>10 DEF LoseReply
  <2>. QED BY <2>1, <2>2, ReplyStep
<1>11. ASSUME NEW t \in Tasks, Fail(t) PROVE DeliveryInvariant'
  <2>1. /\ tasks'[t] = Idle /\ \A u \in Tasks \ {t} : tasks'[u] = tasks[u]
        /\ tasks' = [u \in Tasks |-> tasks'[u]]
    BY <1>11, BecomeEffect DEF Fail, DeliveryInvariant
  <2>2. tasks' \in [Tasks -> Task]
    BY <2>1, NewTasks DEF DeliveryInvariant, TypeOK
  <2>3. \A u \in Tasks : tasks'[u] = tasks[u] \/ ~Busy(u)'
    BY <2>1, IdleIsNotBusy DEF Busy
  <2>. QED BY <1>11, <2>2, <2>3, DroppingStep DEF Fail
<1>12. ASSUME Restart PROVE DeliveryInvariant'
  <2>1. tasks' \in [Tasks -> Task] /\ \A u \in Tasks : ~Busy(u)'
    BY <1>12, NewTasks, IdleIsNotBusy DEF Restart, Busy
  <2>. QED BY <1>12, <2>1, DroppingStep DEF Restart
<1>13. CASE Midnight \/ UNCHANGED vars
  <2>1. UNCHANGED <<reports, tasks, copies, slips>> /\ day' \in 0..LastDay
    BY <1>2, <1>13, ReportsAssumption DEF Midnight, vars
  <2>2. TypeOK'
    BY <2>1 DEF DeliveryInvariant, TypeOK
  <2>3. RowsLocked' /\ CopiesAccounted' /\ MarksHonest'
    BY <2>1 DEF DeliveryInvariant, RowsLocked, CopiesAccounted, MarksHonest, Busy, Taken, Pending
  <2>. QED BY <2>2, <2>3 DEF DeliveryInvariant
<1>14. ASSUME NEW t \in Tasks, Deliver(t) PROVE DeliveryInvariant'
  BY <1>6, <1>7, <1>8, <1>9, <1>14, TakeStep, RecordStep DEF Deliver
<1>. QED
  BY <1>1, <1>3, <1>4, <1>5, <1>10, <1>11, <1>12, <1>13, <1>14, InsertStep DEF Next, Work

LEMMA DeliveryInvariantHolds == Spec => []DeliveryInvariant
  BY InitDeliveryInvariant, NextDeliveryInvariant, PTL DEF Spec

\* Every task always holds what its next step needs.
THEOREM ReportsTypeCorrect == Spec => []TypeOK
<1>1. DeliveryInvariant => TypeOK
  BY DEF DeliveryInvariant
<1>. QED
  BY <1>1, DeliveryInvariantHolds, PTL

\* Overlapping runs never mail a report twice: each further copy is paid for
\* by a lost reply, a failed task or a restart.
THEOREM CopiesBounded == Spec => []NoNeedlessCopy
<1>1. DeliveryInvariant => NoNeedlessCopy
  BY DEF DeliveryInvariant, NoNeedlessCopy, CopiesAccounted, TypeOK
<1>. QED
  BY <1>1, DeliveryInvariantHolds, PTL

----------------------------------------------------------------------------
(* Reports implements the safety part of Outbox.                           *)

StageOf(a) ==
  IF a \notin DOMAIN reports THEN "unfiled"
  ELSE IF reports[a].emailed THEN "mailed"
  ELSE IF copies[a] > 0 THEN "received" ELSE "pending"

\* A step that moves one report from a stage to the next is a step of Outbox.
LEMMA OneReportMoves ==
  ASSUME NEW a \in Attempts,
         \A b \in Attempts \ {a} : StageOf(b)' = StageOf(b),
         \/ StageOf(a)' = StageOf(a)
         \/ StageOf(a) = "unfiled" /\ StageOf(a)' = "pending"
         \/ StageOf(a) = "pending" /\ StageOf(a)' = "received" /\ a \notin Rejected
         \/ StageOf(a) = "received" /\ StageOf(a)' = "mailed"
  PROVE  [Promise!Next]_Stage
<1>1. Stage = [b \in Attempts |-> StageOf(b)] /\ Stage' = [b \in Attempts |-> StageOf(b)']
  BY DEF Stage, StageOf
<1>2. Stage' = [Stage EXCEPT ![a] = StageOf(a)']
  BY <1>1
<1>3. Stage[a] = StageOf(a)
  BY <1>1
<1>4. CASE StageOf(a)' = StageOf(a)
  BY <1>1, <1>4
<1>5. CASE StageOf(a) = "unfiled" /\ StageOf(a)' = "pending"
  BY <1>2, <1>3, <1>5 DEF Promise!Next, Promise!File
<1>6. CASE StageOf(a) = "pending" /\ StageOf(a)' = "received" /\ a \notin Rejected
  BY <1>2, <1>3, <1>6 DEF Promise!Next, Promise!Receive
<1>7. CASE StageOf(a) = "received" /\ StageOf(a)' = "mailed"
  BY <1>2, <1>3, <1>7 DEF Promise!Next, Promise!Mark
<1>. QED
  BY <1>4, <1>5, <1>6, <1>7

LEMMA InitStage == Init => Promise!Init
  BY DEF Init, Promise!Init, Stage

LEMMA NextStage == DeliveryInvariant /\ [Next]_vars => [Promise!Next]_Stage
<1> SUFFICES ASSUME DeliveryInvariant, [Next]_vars PROVE [Promise!Next]_Stage
  OBVIOUS
<1>1. Loop \in Tasks /\ \A s \in Slots : s \in Tasks
  BY DEF Tasks
<1>2. copies \in [Attempts -> Nat]
  BY DEF DeliveryInvariant, TypeOK
<1>3. CASE UNCHANGED <<reports, copies>>
  BY <1>3 DEF Stage
<1>4. ASSUME NEW s \in Slots, Insert(s), reports' # reports PROVE [Promise!Next]_Stage
  <2> PICK a \in Attempts : a = tasks[s].attempt
    BY <1>1, <1>4, TaskFields DEF Insert, DeliveryInvariant
  <2>1. /\ a \notin DOMAIN reports
        /\ reports' = [b \in DOMAIN reports \cup {a} |->
                         IF b = a THEN [day |-> tasks[s].day, emailed |-> FALSE]
                         ELSE reports[b]]
        /\ copies' = copies
    BY <1>4 DEF Insert
  <2>2. copies[a] = 0
    BY <1>2, <2>1 DEF DeliveryInvariant, MarksHonest
  <2>3. StageOf(a) = "unfiled" /\ StageOf(a)' = "pending"
    BY <2>1, <2>2 DEF StageOf
  <2>4. \A b \in Attempts \ {a} : StageOf(b)' = StageOf(b)
    BY <2>1 DEF StageOf
  <2>. QED BY <2>1, <2>3, <2>4, OneReportMoves
<1>5. ASSUME NEW t \in Tasks, tasks[t].at = "mailing", tasks[t].report \notin Rejected,
             copies' = [copies EXCEPT ![tasks[t].report] = @ + 1], reports' = reports
      PROVE  [Promise!Next]_Stage
  <2> PICK a \in Attempts : a = tasks[t].report
    BY <1>5, TaskFields DEF DeliveryInvariant, Busy
  <2>1. a \in Pending
    BY <1>5 DEF DeliveryInvariant, RowsLocked, Busy
  <2>2. /\ copies'[a] > 0
        /\ \A b \in Attempts \ {a} : copies'[b] = copies[b]
    BY <1>2, <1>5, <2>1
  <2>3. StageOf(a) \in {"pending", "received"} /\ StageOf(a)' = "received"
    BY <1>5, <2>1, <2>2 DEF StageOf, Pending
  <2>4. \A b \in Attempts \ {a} : StageOf(b)' = StageOf(b)
    BY <1>5, <2>2 DEF StageOf
  <2>5. a \notin Rejected
    BY <1>5
  <2>. QED BY <2>1, <2>3, <2>4, <2>5, OneReportMoves
<1>6. ASSUME NEW t \in Tasks, Record(t), reports' # reports PROVE [Promise!Next]_Stage
  <2> PICK a \in Attempts : a = tasks[t].report
    BY <1>6, TaskFields DEF Record, DeliveryInvariant, Busy
  <2>1. /\ a \in Pending
        /\ tasks[t].accepted
        /\ reports' = [reports EXCEPT ![a].emailed = TRUE]
        /\ copies' = copies
    BY <1>6 DEF Record, DeliveryInvariant, RowsLocked, Busy
  <2>2. copies[a] > 0
    BY <1>6, <2>1 DEF Record, DeliveryInvariant, MarksHonest
  <2>3. /\ a \in DOMAIN reports /\ ~reports[a].emailed
        /\ reports[a] \in Row
        /\ reports = [b \in DOMAIN reports |-> reports[b]]
    BY <2>1 DEF Pending, DeliveryInvariant, TypeOK
  <2>4. /\ DOMAIN reports' = DOMAIN reports
        /\ reports'[a].emailed
        /\ \A b \in DOMAIN reports \ {a} : reports'[b] = reports[b]
    BY <2>1, <2>3 DEF Row
  <2>5. StageOf(a) = "received" /\ StageOf(a)' = "mailed"
    BY <2>1, <2>2, <2>3, <2>4 DEF StageOf
  <2>6. \A b \in Attempts \ {a} : StageOf(b)' = StageOf(b)
    BY <2>1, <2>4 DEF StageOf
  <2>. QED BY <2>1, <2>5, <2>6, OneReportMoves
<1>7. ASSUME NEW t \in Tasks, Deliver(t) PROVE [Promise!Next]_Stage
  <2>1. CASE Scan(t) \/ Take(t) \/ Finish(t) \/ Refuse(t)
    BY <1>3, <2>1 DEF Scan, Take, Finish, Refuse
  <2>2. ASSUME NEW a \in Attempts, Accept(t, a) PROVE [Promise!Next]_Stage
    BY <1>5, <2>2 DEF Accept
  <2>3. CASE Record(t)
    <3>1. copies' = copies
      BY <2>3 DEF Record
    <3>. QED BY <1>3, <1>6, <2>3, <3>1
  <2>. QED BY <1>7, <2>1, <2>2, <2>3 DEF Deliver
<1>8. ASSUME NEW s \in Slots, Work(s) PROVE [Promise!Next]_Stage
  <2>1. CASE Check(s)
    BY <1>3, <2>1 DEF Check
  <2>2. CASE Insert(s)
    <3>1. copies' = copies
      BY <2>2 DEF Insert
    <3>. QED BY <1>3, <1>4, <2>2, <3>1
  <2>. QED BY <1>1, <1>7, <1>8, <2>1, <2>2 DEF Work
<1>9. ASSUME NEW s \in Slots, NEW a \in Attempts, Begin(s, a) PROVE [Promise!Next]_Stage
  BY <1>3, <1>9 DEF Begin
<1>10. ASSUME NEW t \in Tasks, LoseReply(t) PROVE [Promise!Next]_Stage
  BY <1>5, <1>10 DEF LoseReply
<1>11. ASSUME NEW t \in Tasks, Fail(t) PROVE [Promise!Next]_Stage
  BY <1>3, <1>11 DEF Fail
<1>12. CASE Wake \/ Restart \/ Midnight \/ UNCHANGED vars
  BY <1>3, <1>12 DEF Wake, Restart, Midnight, vars
<1>. QED
  BY <1>1, <1>7, <1>8, <1>9, <1>10, <1>11, <1>12 DEF Next

\* Every behaviour of the report lane is one Outbox allows: a report is stored
\* once, and marked as mailed only after the mail server took it.
THEOREM ReportsImplementOutbox == Spec => Promise!Spec
  BY DeliveryInvariantHolds, InitStage, NextStage, PTL DEF Spec, Promise!Spec

----------------------------------------------------------------------------
(* The daily limit.                                                        *)

\* The requests of learner u that stamped day d: checked, and still to check.
Held(u, d) ==
  {s \in Slots : /\ tasks[s].at = "insert" /\ tasks[s].day = d
                 /\ Author[tasks[s].attempt] = u}
Waiting(u, d) ==
  {s \in Slots : /\ tasks[s].at = "check" /\ tasks[s].day = d
                 /\ Author[tasks[s].attempt] = u}

Filing(s) == tasks[s].at \in {"check", "insert"}

\* On the day itself a check that passes leaves room for the other slots only.
\* After midnight what waited is checked against an empty day.
Bounded(u, d) ==
  LET stored == Cardinality(FiledOn(u, d)) + Cardinality(Held(u, d))
  IN  /\ d = day => stored < DailyLimit + Cardinality(Slots)
      /\ d < day =>
           stored + Cardinality(Waiting(u, d)) < DailyLimit + 2 * Cardinality(Slots)

\* Nothing is stamped with a day to come.
Stamped ==
  /\ \A a \in DOMAIN reports : reports[a].day <= day
  /\ \A s \in Slots : Filing(s) => tasks[s].day <= day

LimitInvariant ==
  /\ DeliveryInvariant
  /\ IsFiniteSet(DOMAIN reports)
  /\ Stamped
  /\ \A u \in Users, d \in 0..LastDay : Bounded(u, d)

----------------------------------------------------------------------------
(* Sizes.                                                                  *)

LEMMA Sizes ==
  ASSUME IsFiniteSet(Slots), IsFiniteSet(DOMAIN reports), NEW u, NEW d
  PROVE  /\ IsFiniteSet(FiledOn(u, d)) /\ Cardinality(FiledOn(u, d)) \in Nat
         /\ IsFiniteSet(Held(u, d)) /\ Cardinality(Held(u, d)) \in Nat
         /\ IsFiniteSet(Waiting(u, d)) /\ Cardinality(Waiting(u, d)) \in Nat
         /\ Cardinality(Slots) \in Nat
         /\ Cardinality(Held(u, d)) <= Cardinality(Slots)
         /\ Cardinality(Waiting(u, d)) <= Cardinality(Slots)
<1>1. /\ FiledOn(u, d) \in SUBSET DOMAIN reports
      /\ Held(u, d) \in SUBSET Slots /\ Waiting(u, d) \in SUBSET Slots
  BY DEF FiledOn, Held, Waiting
<1>2. IsFiniteSet(FiledOn(u, d)) /\ IsFiniteSet(Held(u, d)) /\ IsFiniteSet(Waiting(u, d))
  BY <1>1, FS_Subset
<1>3. /\ Cardinality(Held(u, d)) <= Cardinality(Slots)
      /\ Cardinality(Waiting(u, d)) <= Cardinality(Slots)
  BY <1>1, FS_Subset
<1>. QED
  BY <1>2, <1>3, FS_CardinalityType

\* The same for the next state.
LEMMA SizesNext ==
  ASSUME IsFiniteSet(Slots), IsFiniteSet(DOMAIN reports'), NEW u, NEW d
  PROVE  /\ IsFiniteSet(FiledOn(u, d)') /\ Cardinality(FiledOn(u, d)') \in Nat
         /\ IsFiniteSet(Held(u, d)') /\ Cardinality(Held(u, d)') \in Nat
         /\ IsFiniteSet(Waiting(u, d)') /\ Cardinality(Waiting(u, d)') \in Nat
         /\ Cardinality(Held(u, d)') <= Cardinality(Slots)
         /\ Cardinality(Waiting(u, d)') <= Cardinality(Slots)
<1>1. /\ FiledOn(u, d)' \in SUBSET DOMAIN reports'
      /\ Held(u, d)' \in SUBSET Slots /\ Waiting(u, d)' \in SUBSET Slots
  BY DEF FiledOn, Held, Waiting
<1>2. IsFiniteSet(FiledOn(u, d)') /\ IsFiniteSet(Held(u, d)') /\ IsFiniteSet(Waiting(u, d)')
  BY <1>1, FS_Subset
<1>3. /\ Cardinality(Held(u, d)') <= Cardinality(Slots)
      /\ Cardinality(Waiting(u, d)') <= Cardinality(Slots)
  BY <1>1, FS_Subset
<1>. QED
  BY <1>2, <1>3, FS_CardinalityType

\* A step that stores no report, and after which no request files that did not.
LEMMA ShrinkingStep ==
  ASSUME IsFiniteSet(Slots), IsFiniteSet(DOMAIN reports), DOMAIN reports' = DOMAIN reports,
         NEW u, NEW d, Bounded(u, d), day' = day,
         FiledOn(u, d)' = FiledOn(u, d),
         Held(u, d)' \subseteq Held(u, d), Waiting(u, d)' \subseteq Waiting(u, d)
  PROVE  Bounded(u, d)'
<1>1. /\ Cardinality(FiledOn(u, d)) \in Nat
      /\ Cardinality(Held(u, d)) \in Nat /\ Cardinality(Waiting(u, d)) \in Nat
      /\ IsFiniteSet(Held(u, d)) /\ IsFiniteSet(Waiting(u, d))
      /\ Cardinality(Slots) \in Nat
  BY Sizes
<1>2. /\ Cardinality(Held(u, d)') \in Nat /\ Cardinality(Waiting(u, d)') \in Nat
      /\ Cardinality(Held(u, d)') <= Cardinality(Held(u, d))
      /\ Cardinality(Waiting(u, d)') <= Cardinality(Waiting(u, d))
  BY <1>1, FS_Subset, FS_CardinalityType
<1>. QED
  BY <1>1, <1>2, ReportsAssumption DEF Bounded

----------------------------------------------------------------------------
(* Steps.                                                                  *)

\* Whatever delivers, fails or stops.
LEMMA UnfilingStep ==
  ASSUME IsFiniteSet(Slots), LimitInvariant, DeliveryInvariant', day' = day,
         DOMAIN reports' = DOMAIN reports,
         \A a \in DOMAIN reports : reports'[a].day = reports[a].day,
         \A s \in Slots : Filing(s)' => tasks'[s] = tasks[s]
  PROVE  LimitInvariant'
<1>1. Stamped'
  BY DEF LimitInvariant, Stamped, Filing
<1>2. ASSUME NEW u \in Users, NEW d \in 0..LastDay PROVE Bounded(u, d)'
  <2>1. FiledOn(u, d)' = FiledOn(u, d)
    BY DEF FiledOn
  <2>2. Held(u, d)' \subseteq Held(u, d) /\ Waiting(u, d)' \subseteq Waiting(u, d)
    BY DEF Held, Waiting, Filing
  <2>. QED BY <2>1, <2>2, ShrinkingStep DEF LimitInvariant
<1>. QED
  BY <1>1, <1>2 DEF LimitInvariant

LEMMA BeginLimit ==
  ASSUME IsFiniteSet(Slots), LimitInvariant, DeliveryInvariant',
         NEW s \in Slots, NEW a \in Attempts, Begin(s, a)
  PROVE  LimitInvariant'
<1>1. s \in Tasks /\ UNCHANGED <<reports, day>>
  BY DEF Tasks, Begin
<1>2. /\ tasks'[s] = [at |-> "check", attempt |-> a, day |-> day]
      /\ \A t \in Tasks \ {s} : tasks'[t] = tasks[t]
  BY <1>1, BecomeEffect DEF Begin, LimitInvariant, DeliveryInvariant
<1>3. /\ \A t \in Slots \ {s} : tasks'[t] = tasks[t]
      /\ tasks'[s].at = "check" /\ tasks'[s].day = day
  BY <1>2 DEF Tasks
<1>4. day \in Nat
  BY ReportsAssumption DEF LimitInvariant, DeliveryInvariant, TypeOK
<1>5. Stamped'
  BY <1>1, <1>3, <1>4 DEF LimitInvariant, Stamped, Filing
<1>6. ASSUME NEW u \in Users, NEW d \in 0..LastDay PROVE Bounded(u, d)'
  <2>1. FiledOn(u, d)' = FiledOn(u, d)
    BY <1>1 DEF FiledOn
  <2>2. Held(u, d)' \subseteq Held(u, d)
    BY <1>3 DEF Held
  <2>3. d # day => Waiting(u, d)' \subseteq Waiting(u, d)
    BY <1>3 DEF Waiting
  <2>4. CASE d # day
    BY <1>1, <2>1, <2>2, <2>3, <2>4, ShrinkingStep DEF LimitInvariant
  <2>5. CASE d = day
    <3>1. /\ Cardinality(FiledOn(u, d)) \in Nat /\ Cardinality(Held(u, d)) \in Nat
          /\ Cardinality(Slots) \in Nat /\ IsFiniteSet(Held(u, d))
      BY Sizes DEF LimitInvariant
    <3>2. /\ Cardinality(Held(u, d)') \in Nat
          /\ Cardinality(Held(u, d)') <= Cardinality(Held(u, d))
      BY <2>2, <3>1, FS_Subset, FS_CardinalityType
    <3>3. Cardinality(FiledOn(u, d)) + Cardinality(Held(u, d))
            < DailyLimit + Cardinality(Slots)
      BY <2>5 DEF LimitInvariant, Bounded
    <3>4. ~(d < day')
      BY <1>1, <1>4, <2>5
    <3>5. Cardinality(FiledOn(u, d)') + Cardinality(Held(u, d)')
            < DailyLimit + Cardinality(Slots)
      BY <2>1, <3>1, <3>2, <3>3, ReportsAssumption
    <3>. QED BY <3>4, <3>5 DEF Bounded
  <2>. QED BY <2>4, <2>5
<1>. QED
  BY <1>1, <1>5, <1>6 DEF LimitInvariant

\* A check that passes turns a waiting request into one that will store.
LEMMA CheckLimit ==
  ASSUME IsFiniteSet(Slots), LimitInvariant, DeliveryInvariant',
         NEW s \in Slots, Check(s)
  PROVE  LimitInvariant'
<1> DEFINE a == tasks[s].attempt
           e == tasks[s].day
<1>1. s \in Tasks /\ UNCHANGED <<reports, day>> /\ tasks[s].at = "check"
  BY DEF Tasks, Check
<1>2. a \in Attempts /\ e \in Nat /\ tasks[s] \in Task
  BY <1>1, TaskFields DEF LimitInvariant, DeliveryInvariant, TypeOK
<1>3. /\ tasks'[s] = IF WithinLimits(a) THEN [tasks[s] EXCEPT !.at = "insert"] ELSE Idle
      /\ \A t \in Tasks \ {s} : tasks'[t] = tasks[t]
  BY <1>1, BecomeEffect DEF Check, LimitInvariant, DeliveryInvariant
<1>4. \A t \in Slots \ {s} : tasks'[t] = tasks[t]
  BY <1>3 DEF Tasks
<1>5. CASE ~WithinLimits(a)
  <2>1. \A t \in Slots : Filing(t)' => tasks'[t] = tasks[t]
    BY <1>3, <1>4, <1>5, IdleIsNotBusy DEF Filing
  <2>. QED BY <1>1, <2>1, UnfilingStep
<1>6. CASE WithinLimits(a)
  <2>1. tasks'[s].at = "insert" /\ tasks'[s].attempt = a /\ tasks'[s].day = e
    BY <1>1, <1>2, <1>3, <1>6 DEF Task, Idle
  <2>2. day \in Nat /\ e <= day
    BY <1>1, ReportsAssumption DEF LimitInvariant, DeliveryInvariant, TypeOK, Stamped, Filing
  <2>3. Stamped'
    BY <1>1, <1>4, <2>1, <2>2 DEF LimitInvariant, Stamped, Filing
  <2>4. ASSUME NEW u \in Users, NEW d \in 0..LastDay PROVE Bounded(u, d)'
    <3>1. FiledOn(u, d)' = FiledOn(u, d)
      BY <1>1 DEF FiledOn
    <3>2. CASE ~(u = Author[a] /\ d = e)
      <4>1. Held(u, d)' \subseteq Held(u, d) /\ Waiting(u, d)' \subseteq Waiting(u, d)
        BY <1>4, <2>1, <3>2 DEF Held, Waiting
      <4>. QED BY <1>1, <3>1, <4>1, ShrinkingStep DEF LimitInvariant
    <3>3. CASE u = Author[a] /\ d = e
      <4>1. Held(u, d)' = Held(u, d) \cup {s} /\ s \notin Held(u, d)
        BY <1>1, <1>4, <2>1, <3>3 DEF Held
      <4>2. Waiting(u, d)' = Waiting(u, d) \ {s} /\ s \in Waiting(u, d)
        BY <1>1, <1>4, <2>1, <3>3 DEF Waiting
      <4>3. /\ Cardinality(FiledOn(u, d)) \in Nat
            /\ Cardinality(Held(u, d)) \in Nat /\ Cardinality(Waiting(u, d)) \in Nat
            /\ IsFiniteSet(Held(u, d)) /\ IsFiniteSet(Waiting(u, d))
            /\ Cardinality(Slots) \in Nat
        BY Sizes DEF LimitInvariant
      <4>4. /\ Cardinality(Held(u, d)') = Cardinality(Held(u, d)) + 1
            /\ Cardinality(Waiting(u, d)') = Cardinality(Waiting(u, d)) - 1
        <5>1. Cardinality(Held(u, d) \cup {s}) = Cardinality(Held(u, d)) + 1
          BY <4>1, <4>3, FS_AddElement
        <5>2. Cardinality(Waiting(u, d) \ {s}) = Cardinality(Waiting(u, d)) - 1
          BY <4>2, <4>3, FS_RemoveElement
        <5>. QED BY <4>1, <4>2, <5>1, <5>2
      <4>5. Cardinality(Held(u, d)') <= Cardinality(Slots)
        BY <1>1, SizesNext DEF LimitInvariant
      <4>6. d = day => Cardinality(FiledOn(u, d)) < DailyLimit
        <5>1. d = day => FiledToday(u) = FiledOn(u, d)
          <6>1. \A b \in DOMAIN reports : reports[b].day \in Nat /\ reports[b].day <= day
            BY DEF LimitInvariant, DeliveryInvariant, TypeOK, Row, Stamped
          <6>. QED BY <2>2, <6>1 DEF FiledToday, FiledOn
        <5>. QED BY <1>6, <3>3, <5>1 DEF WithinLimits
      <4>7. Bounded(u, d)
        BY DEF LimitInvariant
      <4>. QED BY <1>1, <3>1, <4>3, <4>4, <4>5, <4>6, <4>7, ReportsAssumption DEF Bounded
    <3>. QED BY <3>2, <3>3
  <2>. QED BY <1>1, <2>3, <2>4 DEF LimitInvariant
<1>. QED
  BY <1>5, <1>6

\* An insert turns a request that will store into a stored report.
LEMMA InsertLimit ==
  ASSUME IsFiniteSet(Slots), LimitInvariant, DeliveryInvariant',
         NEW s \in Slots, Insert(s)
  PROVE  LimitInvariant'
<1> DEFINE a == tasks[s].attempt
           e == tasks[s].day
<1>1. s \in Tasks /\ day' = day /\ tasks[s].at = "insert"
  BY DEF Tasks, Insert
<1>2. a \in Attempts /\ e \in Nat
  BY <1>1, TaskFields DEF LimitInvariant, DeliveryInvariant
<1>3. /\ \A t \in Tasks \ {s} : tasks'[t] = tasks[t]
      /\ tasks'[s] = Idle \/ tasks'[s] = [at |-> "scan"]
  BY <1>1, BecomeEffect DEF Insert, LimitInvariant, DeliveryInvariant
<1>4. \A t \in Slots : Filing(t)' => t # s /\ tasks'[t] = tasks[t]
  BY <1>3, IdleIsNotBusy DEF Filing, Tasks
<1>5. CASE a \in DOMAIN reports
  <2>1. reports' = reports
    BY <1>5 DEF Insert
  <2>. QED BY <1>1, <1>4, <2>1, UnfilingStep
<1>6. CASE a \notin DOMAIN reports
  <2>1. reports' = [b \in DOMAIN reports \cup {a} |->
                      IF b = a THEN [day |-> e, emailed |-> FALSE] ELSE reports[b]]
    BY <1>6 DEF Insert
  <2> HIDE DEF a, e
  <2>2. /\ DOMAIN reports' = DOMAIN reports \cup {a} /\ reports'[a].day = e
        /\ \A b \in DOMAIN reports : reports'[b] = reports[b]
    BY <1>6, <2>1
  <2>3. IsFiniteSet(DOMAIN reports')
    BY <2>2, FS_AddElement DEF LimitInvariant
  <2>4. e <= day
    BY <1>1 DEF LimitInvariant, Stamped, Filing, e
  <2>5. Stamped'
    BY <1>1, <1>4, <2>2, <2>4 DEF LimitInvariant, Stamped, Filing
  <2>6. ASSUME NEW u \in Users, NEW d \in 0..LastDay PROVE Bounded(u, d)'
    <3>1. /\ Cardinality(FiledOn(u, d)) \in Nat
          /\ Cardinality(Held(u, d)) \in Nat /\ Cardinality(Waiting(u, d)) \in Nat
          /\ IsFiniteSet(FiledOn(u, d))
          /\ IsFiniteSet(Held(u, d)) /\ IsFiniteSet(Waiting(u, d))
          /\ Cardinality(Slots) \in Nat
      BY Sizes DEF LimitInvariant
    <3>2. Waiting(u, d)' \subseteq Waiting(u, d)
      BY <1>4 DEF Waiting, Filing
    <3>3. /\ Cardinality(Waiting(u, d)') \in Nat
          /\ Cardinality(Waiting(u, d)') <= Cardinality(Waiting(u, d))
      BY <3>1, <3>2, FS_Subset, FS_CardinalityType
    <3>4. Bounded(u, d)
      BY DEF LimitInvariant
    <3>5. Cardinality(Held(u, d)') \in Nat /\ Cardinality(FiledOn(u, d)') \in Nat
      BY <2>3, SizesNext
    <3>6. CASE u = Author[a] /\ d = e
      <4>1. FiledOn(u, d)' = FiledOn(u, d) \cup {a} /\ a \notin FiledOn(u, d)
        BY <1>6, <2>2, <3>6 DEF FiledOn
      <4>2. Held(u, d)' \subseteq Held(u, d) \ {s}
        BY <1>4 DEF Held, Filing
      <4>3. s \in Held(u, d)
        BY <1>1, <3>6 DEF Held, a, e
      <4>4. /\ IsFiniteSet(Held(u, d) \ {s})
            /\ Cardinality(Held(u, d) \ {s}) = Cardinality(Held(u, d)) - 1
        BY <3>1, <4>3, FS_RemoveElement
      <4>5. Cardinality(Held(u, d)') <= Cardinality(Held(u, d)) - 1
        BY <4>2, <4>4, FS_Subset
      <4>6. Cardinality(FiledOn(u, d)') = Cardinality(FiledOn(u, d)) + 1
        BY <3>1, <4>1, FS_AddElement
      <4>. QED BY <1>1, <3>1, <3>3, <3>4, <3>5, <4>5, <4>6, ReportsAssumption DEF Bounded
    <3>7. CASE ~(u = Author[a] /\ d = e)
      <4>1. FiledOn(u, d)' = FiledOn(u, d)
        BY <2>2, <3>7 DEF FiledOn
      <4>2. Held(u, d)' \subseteq Held(u, d)
        BY <1>4 DEF Held, Filing
      <4>3. Cardinality(Held(u, d)') <= Cardinality(Held(u, d))
        BY <3>1, <4>2, FS_Subset
      <4>. QED BY <1>1, <3>1, <3>3, <3>4, <3>5, <4>1, <4>3, ReportsAssumption DEF Bounded
    <3>. QED BY <3>6, <3>7
  <2>. QED BY <2>3, <2>5, <2>6 DEF LimitInvariant
<1>. QED
  BY <1>5, <1>6

\* What waits at midnight is what the day may still get.
LEMMA MidnightLimit ==
  ASSUME IsFiniteSet(Slots), LimitInvariant, DeliveryInvariant', Midnight
  PROVE  LimitInvariant'
<1>1. UNCHANGED <<reports, tasks>> /\ day' = day + 1 /\ day \in Nat
  BY ReportsAssumption DEF Midnight, LimitInvariant, DeliveryInvariant, TypeOK
<1>2. \A s \in Slots : Filing(s) => tasks[s].day \in Nat
  BY TaskFields DEF Filing, Tasks, LimitInvariant, DeliveryInvariant
<1>3. \A a \in DOMAIN reports : reports[a].day \in Nat
  BY DEF LimitInvariant, DeliveryInvariant, TypeOK, Row
<1>4. Stamped'
  BY <1>1, <1>2, <1>3 DEF LimitInvariant, Stamped, Filing
<1>5. ASSUME NEW u \in Users, NEW d \in 0..LastDay PROVE Bounded(u, d)'
  <2>1. /\ FiledOn(u, d)' = FiledOn(u, d) /\ Held(u, d)' = Held(u, d)
        /\ Waiting(u, d)' = Waiting(u, d)
    BY <1>1 DEF FiledOn, Held, Waiting
  <2>2. /\ Cardinality(FiledOn(u, d)) \in Nat
        /\ Cardinality(Held(u, d)) \in Nat /\ Cardinality(Waiting(u, d)) \in Nat
        /\ Cardinality(Waiting(u, d)) <= Cardinality(Slots)
        /\ Cardinality(Slots) \in Nat
    BY Sizes DEF LimitInvariant
  <2>3. Bounded(u, d) /\ d \in Nat
    BY ReportsAssumption DEF LimitInvariant
  <2>4. d = day + 1 => FiledOn(u, d) = {} /\ Held(u, d) = {}
    BY <1>1, <1>2, <1>3 DEF FiledOn, Held, Filing, LimitInvariant, Stamped
  <2>5. d = day + 1 => Cardinality(FiledOn(u, d)) = 0 /\ Cardinality(Held(u, d)) = 0
    BY <2>4, FS_EmptySet
  <2>6. d = day + 1 => Cardinality(FiledOn(u, d)) + Cardinality(Held(u, d))
                         < DailyLimit + Cardinality(Slots)
    BY <2>2, <2>5, ReportsAssumption
  <2>7. d < day + 1 => Cardinality(FiledOn(u, d)) + Cardinality(Held(u, d))
                         + Cardinality(Waiting(u, d))
                         < DailyLimit + 2 * Cardinality(Slots)
    BY <1>1, <2>2, <2>3, ReportsAssumption DEF Bounded
  <2>. QED BY <1>1, <2>1, <2>6, <2>7 DEF Bounded
<1>. QED
  BY <1>1, <1>4, <1>5 DEF LimitInvariant

----------------------------------------------------------------------------
(* The invariant.                                                          *)

LEMMA InitLimit == IsFiniteSet(Slots) /\ Init => LimitInvariant
<1> SUFFICES ASSUME IsFiniteSet(Slots), Init PROVE LimitInvariant
  OBVIOUS
<1>1. DOMAIN reports = {} /\ day = 0
  BY DEF Init
<1>2. \A s \in Slots : ~Filing(s)
  BY IdleIsNotBusy DEF Init, Tasks, Filing
<1>3. IsFiniteSet(DOMAIN reports) /\ Stamped
  BY <1>1, <1>2, FS_EmptySet DEF Stamped
<1>4. ASSUME NEW u \in Users, NEW d \in 0..LastDay PROVE Bounded(u, d)
  <2>1. FiledOn(u, d) = {} /\ Held(u, d) = {}
    BY <1>1, <1>2 DEF FiledOn, Held, Filing
  <2>2. /\ Cardinality(FiledOn(u, d)) = 0 /\ Cardinality(Held(u, d)) = 0
        /\ Cardinality(Slots) \in Nat
    BY <2>1, FS_EmptySet, FS_CardinalityType
  <2>. QED BY <1>1, <2>2, ReportsAssumption DEF Bounded
<1>. QED
  BY <1>3, <1>4, InitDeliveryInvariant DEF LimitInvariant

LEMMA NextLimit ==
  IsFiniteSet(Slots) /\ LimitInvariant /\ [Next]_vars => LimitInvariant'
<1> SUFFICES ASSUME IsFiniteSet(Slots), LimitInvariant, [Next]_vars PROVE LimitInvariant'
  OBVIOUS
<1>1. DeliveryInvariant'
  BY NextDeliveryInvariant DEF LimitInvariant
<1>2. Loop \in Tasks /\ \A s \in Slots : s \in Tasks
  BY DEF Tasks
\* A task that becomes something that files nothing.
<1>3. ASSUME NEW t \in Tasks, NEW x, x.at \notin {"check", "insert"}, Become(t, x),
             reports' = reports, day' = day
      PROVE  LimitInvariant'
  <2>1. /\ tasks'[t] = x /\ \A u \in Tasks \ {t} : tasks'[u] = tasks[u]
    BY <1>3, BecomeEffect DEF LimitInvariant, DeliveryInvariant
  <2>2. \A s \in Slots : Filing(s)' => tasks'[s] = tasks[s]
    BY <1>2, <1>3, <2>1 DEF Filing
  <2>. QED BY <1>1, <1>3, <2>2, UnfilingStep
<1>4. ASSUME NEW t \in Tasks, Deliver(t) PROVE LimitInvariant'
  <2>1. CASE Scan(t)
    <3> DEFINE x == IF MailEnabled THEN [at |-> "next", todo |-> Pending] ELSE Idle
    <3>1. x.at \notin {"check", "insert"}
      BY IdleIsNotBusy
    <3>2. Become(t, x) /\ UNCHANGED <<reports, day>>
      BY <2>1 DEF Scan
    <3> HIDE DEF x
    <3>. QED BY <1>3, <3>1, <3>2
  <2>2. CASE Take(t)
    <3>1. PICK a \in tasks[t].todo :
            Become(t, IF Available(a)
                      THEN [at |-> "mailing", todo |-> tasks[t].todo \ {a}, report |-> a]
                      ELSE [tasks[t] EXCEPT !.todo = @ \ {a}])
      BY <2>2 DEF Take
    <3> DEFINE x == IF Available(a)
                    THEN [at |-> "mailing", todo |-> tasks[t].todo \ {a}, report |-> a]
                    ELSE [tasks[t] EXCEPT !.todo = @ \ {a}]
    <3>2. tasks[t] \in Task /\ tasks[t].at = "next" /\ UNCHANGED <<reports, day>>
      BY <2>2 DEF Take, LimitInvariant, DeliveryInvariant, TypeOK
    <3>3. x.at \notin {"check", "insert"}
      BY <3>2 DEF Task, Idle
    <3> HIDE DEF x
    <3>. QED BY <1>3, <3>1, <3>2, <3>3 DEF x
  <2>3. CASE Finish(t)
    BY <1>3, <2>3, IdleIsNotBusy DEF Finish
  <2>4. ASSUME NEW a \in Attempts, Accept(t, a) PROVE LimitInvariant'
    <3>1. [at |-> "record", todo |-> tasks[t].todo, report |-> tasks[t].report,
           accepted |-> TRUE].at \notin {"check", "insert"}
      OBVIOUS
    <3>. QED BY <1>3, <2>4, <3>1 DEF Accept, Replied
  <2>5. CASE Refuse(t)
    <3>1. [at |-> "record", todo |-> tasks[t].todo, report |-> tasks[t].report,
           accepted |-> FALSE].at \notin {"check", "insert"}
      OBVIOUS
    <3>. QED BY <1>3, <2>5, <3>1 DEF Refuse, Replied
  <2>6. CASE Record(t)
    <3>1. /\ tasks'[t] = [at |-> "next", todo |-> tasks[t].todo]
          /\ \A u \in Tasks \ {t} : tasks'[u] = tasks[u]
          /\ day' = day
      BY <2>6, BecomeEffect DEF Record, LimitInvariant, DeliveryInvariant
    <3>2. \A s \in Slots : Filing(s)' => tasks'[s] = tasks[s]
      BY <1>2, <3>1 DEF Filing
    <3>3. /\ DOMAIN reports' = DOMAIN reports
          /\ \A a \in DOMAIN reports : reports'[a].day = reports[a].day
      BY <2>6 DEF Record, LimitInvariant, DeliveryInvariant, TypeOK, Row
    <3>. QED BY <1>1, <3>1, <3>2, <3>3, UnfilingStep
  <2>. QED BY <1>4, <2>1, <2>2, <2>3, <2>4, <2>5, <2>6 DEF Deliver
<1>5. ASSUME NEW s \in Slots, Work(s) PROVE LimitInvariant'
  BY <1>1, <1>2, <1>4, <1>5, CheckLimit, InsertLimit DEF Work
<1>6. ASSUME NEW t \in Tasks, LoseReply(t) PROVE LimitInvariant'
  <2>1. [at |-> "record", todo |-> tasks[t].todo, report |-> tasks[t].report,
         accepted |-> FALSE].at \notin {"check", "insert"}
    OBVIOUS
  <2>. QED BY <1>3, <1>6, <2>1 DEF LoseReply, Replied
<1>7. ASSUME NEW t \in Tasks, Fail(t) PROVE LimitInvariant'
  BY <1>3, <1>7, IdleIsNotBusy DEF Fail
<1>8. CASE Wake
  <2>1. [at |-> "scan"].at \notin {"check", "insert"}
    OBVIOUS
  <2>. QED BY <1>2, <1>3, <1>8, <2>1 DEF Wake
<1>9. CASE Restart
  <2>1. \A s \in Slots : ~Filing(s)'
    BY <1>2, <1>9, IdleIsNotBusy DEF Restart, Filing
  <2>. QED BY <1>1, <1>9, <2>1, UnfilingStep DEF Restart
<1>10. CASE UNCHANGED vars
  BY <1>1, <1>10, UnfilingStep DEF vars, Filing
<1>. QED
  BY <1>1, <1>2, <1>4, <1>5, <1>6, <1>7, <1>8, <1>9, <1>10, BeginLimit, MidnightLimit DEF Next

\* However many requests overlap and whenever midnight falls, the reports a
\* learner gets into one day exceed the limit by less than two for each request
\* served at once (reports/service.py:54-67).
THEOREM ExcessBounded == ASSUME IsFiniteSet(Slots) PROVE Spec => []DailyExcessBounded
<1>1. LimitInvariant => DailyExcessBounded
  <2> SUFFICES ASSUME LimitInvariant, NEW u \in Users, NEW d \in 0..LastDay
               PROVE  Cardinality(FiledOn(u, d)) < DailyLimit + 2 * Cardinality(Slots)
    BY DEF DailyExcessBounded
  <2>1. /\ Cardinality(FiledOn(u, d)) \in Nat
        /\ Cardinality(Held(u, d)) \in Nat /\ Cardinality(Waiting(u, d)) \in Nat
        /\ Cardinality(Slots) \in Nat
    BY Sizes DEF LimitInvariant
  <2>2. Bounded(u, d) /\ day \in Nat /\ d \in Nat
    BY ReportsAssumption DEF LimitInvariant, DeliveryInvariant, TypeOK
  <2>3. d > day => FiledOn(u, d) = {}
    <3>1. \A a \in DOMAIN reports : reports[a].day \in Nat /\ reports[a].day <= day
      BY DEF LimitInvariant, DeliveryInvariant, TypeOK, Row, Stamped
    <3>. QED BY <2>2, <3>1 DEF FiledOn
  <2>4. d > day => Cardinality(FiledOn(u, d)) = 0
    BY <2>3, FS_EmptySet
  <2>. QED BY <2>1, <2>2, <2>4, ReportsAssumption DEF Bounded
<1>2. LimitInvariant /\ [Next]_vars => LimitInvariant'
  BY NextLimit
<1>3. Init => LimitInvariant
  BY InitLimit
<1>. QED
  BY <1>1, <1>2, <1>3, PTL DEF Spec

=============================================================================
