----------------------------- MODULE Skeleton -----------------------------
(***************************************************************************)
(* Deployed content, the process that serves it, and the skeleton tables   *)
(* (courses, blocks, modules, lessons, exercises) that mirror it by        *)
(* permanent key.  Learners' rows refer to skeleton rows, never to content *)
(* so a row is deactivated and never deleted.                              *)
(*                                                                         *)
(* An entity is a pair of a table and a key, or Root, the row of the       *)
(* course itself.  The type of an exercise and what a module assumes are   *)
(* left out: they are columns written exactly as order_index is.           *)
(***************************************************************************)
EXTENDS Naturals, FiniteSets, TLC

CONSTANTS
  Courses,      \* course slugs
  SlugOrder,    \* [Courses -> Nat], how sorted() orders the slugs
  Entities,     \* what a manifest may name below the course
  Root,         \* the course itself, as a row and as a parent
  Bundles,      \* the contents an operator may put into an image
  Server, Cli,  \* the two processes that reconcile
  MaxDeploys,   \* bound on the deployments after the first
  MaxCrashes    \* bound on the processes that die

\* A manifest gives each of its keys a parent and a position under it.
\* Children name a parent of the same manifest: load_registry refuses others.
IsManifest(m) ==
  /\ m.published \in BOOLEAN
  /\ DOMAIN m.tree \subseteq Entities
  /\ \A e \in DOMAIN m.tree :
       /\ m.tree[e] \in [parent : Entities \cup {Root}, order : Nat]
       /\ m.tree[e].parent \in DOMAIN m.tree \cup {Root}

\* A bundle is what lies under content/: its courses, and whether
\* load_catalog accepts it.
IsBundle(b) ==
  /\ b.sound \in BOOLEAN
  /\ DOMAIN b.courses \subseteq Courses
  /\ \A c \in DOMAIN b.courses : IsManifest(b.courses[c])

ASSUME SkeletonAssumption ==
  /\ IsFiniteSet(Courses)
  /\ SlugOrder \in [Courses -> Nat]
  /\ \A c, d \in Courses : SlugOrder[c] = SlugOrder[d] => c = d
  /\ Root \notin Entities
  /\ Server # Cli
  /\ \A b \in Bundles : IsBundle(b)
  /\ MaxDeploys \in Nat /\ MaxCrashes \in Nat

VARIABLES
  deployed,     \* the bundle baked into the running image
  skeleton,     \* course -> entity -> row, the five tables of the course
  syncers,      \* what the server and the command line tool are doing
  deploys,      \* deployments so far
  crashes       \* processes that died so far

skeletonVars == <<deployed, skeleton, syncers, deploys, crashes>>

----------------------------------------------------------------------------
\* Rows

Row == [parent : Entities \cup {Root}, order : Nat, active : BOOLEAN]

Slugs(b) == DOMAIN b.courses

\* order_index of a course: its rank among the slugs of the catalog.
SlugRank(b, c) ==
  Cardinality({d \in Slugs(b) : SlugOrder[d] <= SlugOrder[c]})

\* What reconcile wants the rows of course c to hold.
Wanted(b, c) ==
  LET tree == b.courses[c].tree
  IN  [e \in DOMAIN tree \cup {Root} |->
         IF e = Root
           THEN [parent |-> Root, order |-> SlugRank(b, c), active |-> TRUE]
           ELSE [parent |-> tree[e].parent, order |-> tree[e].order,
                 active |-> TRUE]]

Retired(row) == [row EXCEPT !.active = FALSE]

\* Fault: a row that went inactive is updated but not reactivated.
Upserted_NoReturn(rows, wanted) ==
  [e \in DOMAIN rows \cup DOMAIN wanted |->
     IF e \notin DOMAIN wanted THEN Retired(rows[e])
     ELSE IF e \in DOMAIN rows
            THEN [wanted[e] EXCEPT !.active = rows[e].active]
            ELSE wanted[e]]

\* Fault: only rows directly under the course are deactivated.
Upserted_TopOnly(rows, wanted) ==
  [e \in DOMAIN rows \cup DOMAIN wanted |->
     IF e \in DOMAIN wanted THEN wanted[e]
     ELSE IF rows[e].parent = Root THEN Retired(rows[e]) ELSE rows[e]]

\* upsert on each table: what the manifest names is inserted, updated or
\* reactivated, what it no longer names goes inactive.
Upserted(rows, wanted) ==
  [e \in DOMAIN rows \cup DOMAIN wanted |->
     IF e \in DOMAIN wanted THEN wanted[e] ELSE Retired(rows[e])]

----------------------------------------------------------------------------
\* Processes

Phases == {"down", "ready", "read", "serving"}
Idle == [phase |-> "down", todo |-> {}, seen |-> {}]
Serving == syncers[Server].phase = "serving"

\* The served catalog: an image is never changed under a running process.
Catalog == deployed.courses
Published == {c \in DOMAIN Catalog : Catalog[c].published}

\* The lifespan, and the sync command: load and validate every course.  An
\* unsound bundle raises, and the process exits without writing.
Load(p) ==
  /\ syncers[p].phase = "down"
  /\ deployed.sound
  /\ syncers' = [syncers EXCEPT ![p] =
                   [phase |-> "ready", todo |-> Slugs(deployed), seen |-> {}]]
  /\ UNCHANGED <<deployed, skeleton, deploys, crashes>>

\* The course reconcile_catalog takes next: slugs are visited in order.
IsNext(p, c) ==
  /\ c \in syncers[p].todo
  /\ \A d \in syncers[p].todo : SlugOrder[c] <= SlugOrder[d]

\* One course's transaction reads its rows...
ReadCourse(p, c) ==
  /\ syncers[p].phase = "ready"
  /\ IsNext(p, c)
  /\ syncers' = [syncers EXCEPT ![p] =
                   [phase |-> "read", todo |-> syncers[p].todo,
                    seen |-> DOMAIN skeleton[c]]]
  /\ UNCHANGED <<deployed, skeleton, deploys, crashes>>

\* Fault: every row is inserted, whatever was read.
Inserted_All(p, c) == DOMAIN Wanted(deployed, c)

\* ... and inserts what it did not see.
Inserted(p, c) == DOMAIN Wanted(deployed, c) \ syncers[p].seen

\* It commits for itself.  The other process runs the same image, so rows
\* that both update get the same values; only the inserts can collide.
CommitCourse(p, c) ==
  /\ syncers[p].phase = "read"
  /\ IsNext(p, c)
  /\ Inserted(p, c) \cap DOMAIN skeleton[c] = {}
  /\ skeleton' = [skeleton EXCEPT ![c] = Upserted(@, Wanted(deployed, c))]
  /\ syncers' = [syncers EXCEPT ![p] =
                   [phase |-> "ready", todo |-> syncers[p].todo \ {c},
                    seen |-> {}]]
  /\ UNCHANGED <<deployed, deploys, crashes>>

\* A primary key the other process inserted first: the transaction fails,
\* and with it the start-up or the command.
Collide(p, c) ==
  /\ syncers[p].phase = "read"
  /\ IsNext(p, c)
  /\ Inserted(p, c) \cap DOMAIN skeleton[c] # {}
  /\ syncers' = [syncers EXCEPT ![p] = Idle]
  /\ UNCHANGED <<deployed, skeleton, deploys, crashes>>

\* Fault: drafts count as withdrawn.
Withdrawn_Drafts(b, c) ==
  IF c \notin Published /\ Root \in DOMAIN skeleton[c]
    THEN [skeleton[c] EXCEPT ![Root] = Retired(@)]
    ELSE skeleton[c]

\* Courses no longer under content/: only the course's own row goes inactive.
Withdrawn(b, c) ==
  IF c \notin Slugs(b) /\ Root \in DOMAIN skeleton[c]
    THEN [skeleton[c] EXCEPT ![Root] = Retired(@)]
    ELSE skeleton[c]

\* Fault: the server serves as soon as it has loaded the catalog.
Finish_Early(p) ==
  /\ syncers[p].phase = "ready"
  /\ skeleton' = skeleton
  /\ syncers' = [syncers EXCEPT ![p] =
                   IF p = Server THEN [Idle EXCEPT !.phase = "serving"]
                                 ELSE Idle]
  /\ UNCHANGED <<deployed, deploys, crashes>>

\* After the last course: the withdrawn ones, one more commit, and then the
\* server serves while the command ends.
Finish(p) ==
  /\ syncers[p].phase = "ready"
  /\ syncers[p].todo = {}
  /\ skeleton' = [c \in Courses |-> Withdrawn(deployed, c)]
  /\ syncers' = [syncers EXCEPT ![p] =
                   [Idle EXCEPT !.phase = IF p = Server THEN "serving" ELSE "down"]]
  /\ UNCHANGED <<deployed, deploys, crashes>>

\* A process dies; Docker restarts the server (Load again).
Crash(p) ==
  /\ syncers[p].phase # "down"
  /\ crashes < MaxCrashes
  /\ crashes' = crashes + 1
  /\ syncers' = [syncers EXCEPT ![p] = Idle]
  /\ UNCHANGED <<deployed, skeleton, deploys>>

\* A new image replaces the container, and with it both processes.
Deploy(b) ==
  /\ b # deployed
  /\ deploys < MaxDeploys
  /\ deploys' = deploys + 1
  /\ deployed' = b
  /\ syncers' = [p \in {Server, Cli} |-> Idle]
  /\ UNCHANGED <<skeleton, crashes>>

SkeletonInit ==
  /\ deployed \in Bundles
  /\ skeleton = [c \in Courses |-> << >>]
  /\ syncers = [p \in {Server, Cli} |-> Idle]
  /\ deploys = 0
  /\ crashes = 0

Step(p) ==
  \/ Load(p)
  \/ \E c \in Courses : ReadCourse(p, c) \/ CommitCourse(p, c) \/ Collide(p, c)
  \/ Finish(p)

SkeletonNext ==
  \/ \E p \in {Server, Cli} : Step(p) \/ Crash(p)
  \/ \E b \in Bundles : Deploy(b)

SkeletonSpec == SkeletonInit /\ [][SkeletonNext]_skeletonVars

----------------------------------------------------------------------------
\* Properties

SkeletonTypeOK ==
  /\ deployed \in Bundles
  /\ DOMAIN skeleton = Courses
  /\ \A c \in Courses :
       /\ DOMAIN skeleton[c] \subseteq Entities \cup {Root}
       /\ skeleton[c] \in [DOMAIN skeleton[c] -> Row]
  /\ syncers \in [{Server, Cli} -> [phase : Phases, todo : SUBSET Courses,
                                    seen : SUBSET (Entities \cup {Root})]]
  /\ deploys \in 0..MaxDeploys
  /\ crashes \in 0..MaxCrashes

\* The active rows of course c are exactly what bundle b wants of it.
Mirrors(b, c) ==
  LET live == {e \in DOMAIN skeleton[c] : skeleton[c][e].active}
  IN  IF c \in Slugs(b)
        THEN /\ live = DOMAIN Wanted(b, c)
             /\ \A e \in live : skeleton[c][e] = Wanted(b, c)[e]
        ELSE Root \notin live

\* While requests are served, the tables mirror the served catalog exactly:
\* whatever was withdrawn, moved, dropped or shipped again before, and
\* wherever earlier runs were cut short between two commits (sync.py:129).
ServedIsMirrored == Serving => \A c \in Courses : Mirrors(deployed, c)

\* In an active course no active row hangs from an inactive or a missing one,
\* not even between the commits of a run (sync.py:108, parents first).
ActiveTree ==
  \A c \in Courses :
    (Root \in DOMAIN skeleton[c] /\ skeleton[c][Root].active) =>
      \A e \in DOMAIN skeleton[c] : skeleton[c][e].active =>
        LET up == skeleton[c][e].parent
        IN  up \in DOMAIN skeleton[c] /\ skeleton[c][up].active

\* Every row a run has committed for the deployed bundle stays as it is until
\* another bundle is deployed: starting again, or running the command beside
\* the server, changes nothing (sync.py:65-75).
SettledStays ==
  [][\A c \in Courses :
       (deployed' = deployed /\ Mirrors(deployed, c)) =>
          skeleton'[c] = skeleton[c]]_skeletonVars

============================================================================
