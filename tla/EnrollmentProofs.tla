------------------------- MODULE EnrollmentProofs --------------------------
(* The skeleton tables follow the deployed content, for every set of       *)
(* courses and bundles and any number of deployments and crashes; and      *)
(* enrollment over a catalog that changes, for any number of learners and  *)
(* overlapping saves.  What requests read is right only because of what the*)
(* runs that ended before have left, so the invariant speaks of the runs   *)
(* that are half way.                                                      *)
EXTENDS Enrollment, FiniteSetTheorems, WellFoundedInduction, TLAPS

\* What a run has behind it mirrors the bundle, whatever the other run does.
HalfWayIsMirrored ==
  \A p \in {Server, Cli} : syncers[p].phase \in {"ready", "read"} =>
    /\ syncers[p].todo \subseteq Slugs(deployed)
    /\ \A c \in Slugs(deployed) \ syncers[p].todo : Mirrors(deployed, c)

SkeletonInvariant ==
  /\ SkeletonTypeOK
  /\ HalfWayIsMirrored
  /\ ServedIsMirrored
  /\ ActiveTree

----------------------------------------------------------------------------
(* Rows                                                                    *)

\* What a manifest wants is rows whose parents it wants too.
LEMMA WantedRows ==
  ASSUME NEW b \in Bundles, NEW c \in Slugs(b)
  PROVE  /\ c \in Courses
         /\ DOMAIN Wanted(b, c) \subseteq Entities \cup {Root}
         /\ Root \in DOMAIN Wanted(b, c)
         /\ DOMAIN b.courses[c].tree \subseteq DOMAIN Wanted(b, c)
         /\ Wanted(b, c) \in [DOMAIN Wanted(b, c) -> Row]
         /\ \A e \in DOMAIN Wanted(b, c) :
              Wanted(b, c)[e].active /\ Wanted(b, c)[e].parent \in DOMAIN Wanted(b, c)
<1> DEFINE tree == b.courses[c].tree
<1>1. c \in Courses /\ IsManifest(b.courses[c])
  BY SkeletonAssumption DEF IsBundle, Slugs
<1>2. SlugRank(b, c) \in Nat
  <2> DEFINE before == {d \in Slugs(b) : SlugOrder[d] <= SlugOrder[c]}
  <2>1. before \in SUBSET Courses
    BY SkeletonAssumption DEF IsBundle, Slugs
  <2>2. IsFiniteSet(before)
    BY <2>1, SkeletonAssumption, FS_Subset
  <2>. QED
    BY <2>2, FS_CardinalityType DEF SlugRank
<1>3. DOMAIN Wanted(b, c) = DOMAIN tree \cup {Root}
  BY DEF Wanted
<1>4. DOMAIN tree \subseteq Entities
  BY <1>1 DEF IsManifest
<1>5. ASSUME NEW e \in DOMAIN Wanted(b, c)
      PROVE  /\ Wanted(b, c)[e] \in Row
             /\ Wanted(b, c)[e].active
             /\ Wanted(b, c)[e].parent \in DOMAIN Wanted(b, c)
  <2>1. CASE e = Root
    BY <2>1, <1>2, <1>3 DEF Wanted, Row
  <2>2. CASE e # Root
    <3>1. e \in DOMAIN tree
      BY <2>2, <1>3
    <3>2. /\ tree[e] \in [parent : Entities \cup {Root}, order : Nat]
          /\ tree[e].parent \in DOMAIN tree \cup {Root}
      BY <3>1, <1>1 DEF IsManifest
    <3>3. Wanted(b, c)[e] = [parent |-> tree[e].parent, order |-> tree[e].order,
                             active |-> TRUE]
      BY <2>2, <3>1 DEF Wanted
    <3>. QED
      BY <3>2, <3>3, <1>3 DEF Row
  <2>. QED
    BY <2>1, <2>2
<1>6. Wanted(b, c) = [e \in DOMAIN Wanted(b, c) |-> Wanted(b, c)[e]]
  BY DEF Wanted
<1>. QED
  BY <1>1, <1>3, <1>4, <1>5, <1>6

LEMMA RetiredRow ==
  ASSUME NEW row \in Row
  PROVE  /\ Retired(row) \in Row
         /\ ~Retired(row).active
         /\ ~row.active => Retired(row) = row
  BY DEF Row, Retired

LEMMA UpsertedRows ==
  ASSUME NEW rows, rows \in [DOMAIN rows -> Row], NEW b \in Bundles, NEW c \in Slugs(b),
         NEW wanted, wanted = Wanted(b, c), NEW new, new = Upserted(rows, wanted)
  PROVE  /\ DOMAIN new = DOMAIN rows \cup DOMAIN wanted
         /\ new \in [DOMAIN new -> Row]
         /\ \A e \in DOMAIN wanted : new[e] = wanted[e]
         /\ \A e \in DOMAIN new \ DOMAIN wanted : ~new[e].active
         /\ {e \in DOMAIN new : new[e].active} = DOMAIN wanted
<1>1. DOMAIN new = DOMAIN rows \cup DOMAIN wanted
  BY DEF Upserted
<1>2. \A e \in DOMAIN wanted : new[e] = wanted[e]
  BY DEF Upserted
<1>3. \A e \in DOMAIN new \ DOMAIN wanted : e \in DOMAIN rows /\ new[e] = Retired(rows[e])
  BY <1>1 DEF Upserted
<1>4. \A e \in DOMAIN new \ DOMAIN wanted : new[e] \in Row /\ ~new[e].active
  BY <1>3, RetiredRow
<1>5. \A e \in DOMAIN wanted : wanted[e] \in Row /\ wanted[e].active
  BY WantedRows
<1>6. new = [e \in DOMAIN new |-> new[e]]
  BY DEF Upserted
<1>7. \A e \in DOMAIN new : new[e] \in Row
  BY <1>2, <1>4, <1>5
<1>8. new \in [DOMAIN new -> Row]
  BY <1>6, <1>7
<1>9. {e \in DOMAIN new : new[e].active} = DOMAIN wanted
  BY <1>1, <1>2, <1>4, <1>5
<1>. QED
  BY <1>1, <1>2, <1>4, <1>8, <1>9

----------------------------------------------------------------------------
(* Steps                                                                   *)

\* What concerns a course follows from its rows and the bundle.
LEMMA MirrorsKept ==
  ASSUME NEW c, deployed' = deployed, skeleton'[c] = skeleton[c]
  PROVE  /\ Mirrors(deployed, c)' <=> Mirrors(deployed, c)
         /\ \A b : Mirrors(b, c)' <=> Mirrors(b, c)
  BY DEF Mirrors

TreeOf(c) ==
  (Root \in DOMAIN skeleton[c] /\ skeleton[c][Root].active) =>
    \A e \in DOMAIN skeleton[c] : skeleton[c][e].active =>
      /\ skeleton[c][e].parent \in DOMAIN skeleton[c]
      /\ skeleton[c][skeleton[c][e].parent].active

LEMMA ActiveTreeOf == ActiveTree <=> \A c \in Courses : TreeOf(c)
  BY DEF ActiveTree, TreeOf

\* A run commits one course: it mirrors the bundle, the others are untouched.
LEMMA CommitCourseEffect ==
  ASSUME SkeletonInvariant, NEW p \in {Server, Cli}, NEW c \in Courses, CommitCourse(p, c)
  PROVE  /\ c \in Slugs(deployed)
         /\ DOMAIN skeleton' = Courses
         /\ \A d \in Courses \ {c} : skeleton'[d] = skeleton[d]
         /\ skeleton'[c] = Upserted(skeleton[c], Wanted(deployed, c))
         /\ DOMAIN skeleton[c] \subseteq DOMAIN skeleton'[c]
         /\ DOMAIN skeleton'[c] \subseteq Entities \cup {Root}
         /\ skeleton'[c] \in [DOMAIN skeleton'[c] -> Row]
         /\ Mirrors(deployed, c)'
         /\ TreeOf(c)'
<1> DEFINE wanted == Wanted(deployed, c)
<1>1. /\ DOMAIN skeleton = Courses
      /\ skeleton[c] \in [DOMAIN skeleton[c] -> Row]
      /\ DOMAIN skeleton[c] \subseteq Entities \cup {Root}
      /\ deployed \in Bundles
  BY DEF SkeletonInvariant, SkeletonTypeOK
<1>2. c \in Slugs(deployed)
  BY DEF SkeletonInvariant, HalfWayIsMirrored, CommitCourse, IsNext
<1>3. /\ DOMAIN skeleton' = Courses
      /\ \A d \in Courses \ {c} : skeleton'[d] = skeleton[d]
      /\ skeleton'[c] = Upserted(skeleton[c], wanted)
      /\ deployed' = deployed
  BY <1>1 DEF CommitCourse
<1>4. /\ DOMAIN wanted \subseteq Entities \cup {Root}
      /\ \A e \in DOMAIN wanted : wanted[e].active /\ wanted[e].parent \in DOMAIN wanted
  BY <1>1, <1>2, WantedRows
<1> HIDE DEF wanted
<1>5. /\ DOMAIN skeleton'[c] = DOMAIN skeleton[c] \cup DOMAIN wanted
      /\ skeleton'[c] \in [DOMAIN skeleton'[c] -> Row]
      /\ \A e \in DOMAIN wanted : skeleton'[c][e] = wanted[e]
      /\ {e \in DOMAIN skeleton'[c] : skeleton'[c][e].active} = DOMAIN wanted
  BY <1>1, <1>2, <1>3, UpsertedRows DEF wanted
<1>6. Mirrors(deployed, c)'
  BY <1>2, <1>3, <1>5 DEF Mirrors, wanted
<1>7. TreeOf(c)'
  BY <1>4, <1>5 DEF TreeOf
<1>. QED
  BY <1>1, <1>2, <1>3, <1>4, <1>5, <1>6, <1>7 DEF wanted

\* The end of a run touches only the rows of courses that were withdrawn.
LEMMA FinishEffect ==
  ASSUME SkeletonInvariant, NEW p \in {Server, Cli}, Finish(p), NEW c \in Courses
  PROVE  /\ DOMAIN skeleton' = Courses
         /\ c \in Slugs(deployed) => skeleton'[c] = skeleton[c]
         /\ DOMAIN skeleton'[c] = DOMAIN skeleton[c]
         /\ skeleton'[c] \in [DOMAIN skeleton'[c] -> Row]
         /\ Mirrors(deployed, c)'
         /\ TreeOf(c)'
<1>1. /\ skeleton[c] \in [DOMAIN skeleton[c] -> Row]
      /\ DOMAIN skeleton[c] \subseteq Entities \cup {Root}
      /\ deployed' = deployed
  BY DEF SkeletonInvariant, SkeletonTypeOK, Finish
<1>2. DOMAIN skeleton' = Courses /\ skeleton'[c] = Withdrawn(deployed, c)
  BY DEF Finish
<1>3. TreeOf(c)
  BY ActiveTreeOf DEF SkeletonInvariant
<1>4. CASE c \in Slugs(deployed)
  <2>1. skeleton'[c] = skeleton[c]
    BY <1>2, <1>4 DEF Withdrawn
  <2>2. Mirrors(deployed, c)
    BY <1>4 DEF SkeletonInvariant, HalfWayIsMirrored, Finish
  <2>3. Mirrors(deployed, c)'
    BY <1>1, <2>1, <2>2, MirrorsKept
  <2>. QED
    BY <1>1, <1>2, <1>3, <2>1, <2>3 DEF TreeOf
<1>5. CASE c \notin Slugs(deployed) /\ Root \in DOMAIN skeleton[c]
  <2>1. skeleton'[c] = [skeleton[c] EXCEPT ![Root] = Retired(skeleton[c][Root])]
    BY <1>2, <1>5 DEF Withdrawn
  <2>2. Retired(skeleton[c][Root]) \in Row /\ ~Retired(skeleton[c][Root]).active
    BY <1>1, <1>5, RetiredRow
  <2>3. /\ DOMAIN skeleton'[c] = DOMAIN skeleton[c]
        /\ skeleton'[c] \in [DOMAIN skeleton'[c] -> Row]
        /\ ~skeleton'[c][Root].active
    BY <1>1, <1>5, <2>1, <2>2
  <2>. QED
    BY <1>1, <1>2, <1>5, <2>3 DEF Mirrors, TreeOf
<1>6. CASE c \notin Slugs(deployed) /\ Root \notin DOMAIN skeleton[c]
  <2>1. skeleton'[c] = skeleton[c]
    BY <1>2, <1>6 DEF Withdrawn
  <2>. QED
    BY <1>1, <1>2, <1>3, <1>6, <2>1 DEF Mirrors, TreeOf
<1>. QED
  BY <1>4, <1>5, <1>6

----------------------------------------------------------------------------
(* The invariant                                                           *)

LEMMA SkeletonInitInvariant == SkeletonInit => SkeletonInvariant
<1> SUFFICES ASSUME SkeletonInit PROVE SkeletonInvariant
  OBVIOUS
<1>1. \A c \in Courses : skeleton[c] = << >>
  BY DEF SkeletonInit
<1>2. DOMAIN << >> = {} /\ << >> \in [{} -> Row]
  OBVIOUS
<1>3. \A p \in {Server, Cli} : syncers[p] = Idle
  BY DEF SkeletonInit
<1>4. SkeletonTypeOK
  <2>1. Idle \in [phase : Phases, todo : SUBSET Courses, seen : SUBSET (Entities \cup {Root})]
    BY DEF Idle, Phases
  <2>2. syncers \in [{Server, Cli} -> [phase : Phases, todo : SUBSET Courses,
                                       seen : SUBSET (Entities \cup {Root})]]
    BY <2>1 DEF SkeletonInit
  <2>3. DOMAIN skeleton = Courses
    BY DEF SkeletonInit
  <2>4. \A c \in Courses : /\ DOMAIN skeleton[c] \subseteq Entities \cup {Root}
                           /\ skeleton[c] \in [DOMAIN skeleton[c] -> Row]
    BY <1>1, <1>2
  <2>5. deployed \in Bundles /\ deploys \in 0..MaxDeploys /\ crashes \in 0..MaxCrashes
    BY SkeletonAssumption DEF SkeletonInit
  <2>. QED
    BY <2>2, <2>3, <2>4, <2>5 DEF SkeletonTypeOK
<1>5. HalfWayIsMirrored
  BY <1>3 DEF HalfWayIsMirrored, Idle
<1>6. ServedIsMirrored
  BY <1>3 DEF ServedIsMirrored, Serving, Idle
<1>7. ActiveTree
  BY <1>1, <1>2 DEF ActiveTree
<1>. QED
  BY <1>4, <1>5, <1>6, <1>7 DEF SkeletonInvariant

\* A step that leaves the tables and the bundle alone keeps the invariant if a
\* process that is on is as it was, or has everything before it.
LEMMA TablesUntouched ==
  ASSUME SkeletonInvariant, SkeletonTypeOK', skeleton' = skeleton, deployed' = deployed,
         \A p \in {Server, Cli} :
           \/ syncers'[p].phase = syncers[p].phase /\ syncers'[p].todo = syncers[p].todo
           \/ syncers'[p].phase = "down"
           \/ syncers'[p].phase = "ready" /\ syncers'[p].todo = Slugs(deployed)
           \/ /\ syncers'[p].phase = "read" /\ syncers[p].phase = "ready"
              /\ syncers'[p].todo = syncers[p].todo
  PROVE  SkeletonInvariant'
<1>1. \A c : Mirrors(deployed, c)' <=> Mirrors(deployed, c)
  BY MirrorsKept
<1>2. HalfWayIsMirrored'
  BY <1>1 DEF SkeletonInvariant, HalfWayIsMirrored, Slugs
<1>3. ServedIsMirrored'
  BY <1>1 DEF SkeletonInvariant, ServedIsMirrored, Serving
<1>4. ActiveTree'
  BY DEF SkeletonInvariant, ActiveTree
<1>. QED
  BY <1>2, <1>3, <1>4 DEF SkeletonInvariant

LEMMA ProcessTypes ==
  ASSUME SkeletonTypeOK, NEW p \in {Server, Cli}
  PROVE  /\ syncers[p].phase \in Phases
         /\ syncers[p].todo \subseteq Courses
         /\ syncers[p].seen \subseteq Entities \cup {Root}
         /\ syncers[p] = [phase |-> syncers[p].phase, todo |-> syncers[p].todo,
                          seen |-> syncers[p].seen]
         /\ DOMAIN syncers = {Server, Cli}
  BY DEF SkeletonTypeOK

LEMMA TypesKept ==
  ASSUME SkeletonTypeOK, NEW p \in {Server, Cli},
         NEW phase \in Phases, NEW todo \in SUBSET Courses,
         NEW seen \in SUBSET (Entities \cup {Root}),
         NEW process, process = [phase |-> phase, todo |-> todo, seen |-> seen],
         syncers' = [syncers EXCEPT ![p] = process],
         DOMAIN skeleton' = Courses,
         \A c \in Courses : /\ DOMAIN skeleton'[c] \subseteq Entities \cup {Root}
                            /\ skeleton'[c] \in [DOMAIN skeleton'[c] -> Row],
         deployed' = deployed, deploys' = deploys, crashes' \in 0..MaxCrashes
  PROVE  /\ SkeletonTypeOK'
         /\ syncers'[p].phase = phase /\ syncers'[p].todo = todo
         /\ \A q \in {Server, Cli} \ {p} : syncers'[q] = syncers[q]
  BY DEF SkeletonTypeOK

LEMMA LoadKeeps ==
  ASSUME SkeletonInvariant, NEW p \in {Server, Cli}, Load(p)
  PROVE  SkeletonInvariant'
<1>1. Slugs(deployed) \in SUBSET Courses /\ SkeletonTypeOK
  BY SkeletonAssumption DEF SkeletonInvariant, SkeletonTypeOK, IsBundle, Slugs
<1>2. /\ SkeletonTypeOK'
      /\ syncers'[p].phase = "ready" /\ syncers'[p].todo = Slugs(deployed)
      /\ \A q \in {Server, Cli} \ {p} : syncers'[q] = syncers[q]
  <2>1. {} \in SUBSET (Entities \cup {Root}) /\ "ready" \in Phases
    BY DEF Phases
  <2>2. crashes' \in 0..MaxCrashes
    BY <1>1 DEF Load, SkeletonTypeOK
  <2>. QED
    BY <1>1, <2>1, <2>2, TypesKept DEF Load, SkeletonTypeOK
<1>. QED
  BY <1>1, <1>2, TablesUntouched DEF Load

LEMMA ReadCourseKeeps ==
  ASSUME SkeletonInvariant, NEW p \in {Server, Cli}, NEW c \in Courses, ReadCourse(p, c)
  PROVE  SkeletonInvariant'
<1>1. SkeletonTypeOK
  BY DEF SkeletonInvariant
<1>2. syncers' = [syncers EXCEPT ![p] = [phase |-> "read", todo |-> syncers[p].todo,
                                        seen |-> DOMAIN skeleton[c]]]
  BY <1>1, ProcessTypes DEF ReadCourse
<1>3. /\ SkeletonTypeOK'
      /\ syncers'[p].phase = "read" /\ syncers'[p].todo = syncers[p].todo
      /\ \A q \in {Server, Cli} \ {p} : syncers'[q] = syncers[q]
  <2>1. /\ DOMAIN skeleton[c] \in SUBSET (Entities \cup {Root}) /\ "read" \in Phases
        /\ syncers[p].todo \in SUBSET Courses
    BY <1>1, ProcessTypes DEF Phases, SkeletonTypeOK
  <2>2. crashes' \in 0..MaxCrashes
    BY <1>1 DEF ReadCourse, SkeletonTypeOK
  <2>. QED
    BY <1>1, <1>2, <2>1, <2>2, TypesKept DEF ReadCourse, SkeletonTypeOK
<1>. QED
  BY <1>1, <1>3, TablesUntouched DEF ReadCourse

\* A process that dies or collides with the other.
LEMMA StoppedKeeps ==
  ASSUME SkeletonInvariant, NEW p \in {Server, Cli},
         syncers' = [syncers EXCEPT ![p] = Idle],
         UNCHANGED <<deployed, skeleton, deploys>>, crashes' \in 0..MaxCrashes
  PROVE  SkeletonInvariant'
<1>1. SkeletonTypeOK
  BY DEF SkeletonInvariant
<1>2. "down" \in Phases /\ {} \in SUBSET Courses /\ {} \in SUBSET (Entities \cup {Root})
  BY DEF Phases
<1>3. /\ SkeletonTypeOK'
      /\ syncers'[p].phase = "down"
      /\ \A q \in {Server, Cli} \ {p} : syncers'[q] = syncers[q]
  BY <1>1, <1>2, TypesKept DEF Idle, SkeletonTypeOK
<1>. QED
  BY <1>1, <1>3, TablesUntouched

LEMMA CommitCourseKeeps ==
  ASSUME SkeletonInvariant, NEW p \in {Server, Cli}, NEW c \in Courses, CommitCourse(p, c)
  PROVE  SkeletonInvariant'
<1>1. SkeletonTypeOK
  BY DEF SkeletonInvariant
<1>2. /\ c \in Slugs(deployed)
      /\ DOMAIN skeleton' = Courses
      /\ \A d \in Courses \ {c} : skeleton'[d] = skeleton[d]
      /\ DOMAIN skeleton'[c] \subseteq Entities \cup {Root}
      /\ skeleton'[c] \in [DOMAIN skeleton'[c] -> Row]
      /\ Mirrors(deployed, c)'
      /\ TreeOf(c)'
  BY CommitCourseEffect
<1>3. /\ deployed' = deployed /\ deploys' = deploys /\ crashes' = crashes
      /\ syncers[p].phase = "read"
      /\ syncers' = [syncers EXCEPT ![p] = [phase |-> "ready", todo |-> syncers[p].todo \ {c},
                                           seen |-> {}]]
  BY <1>1, ProcessTypes DEF CommitCourse
<1>4. /\ SkeletonTypeOK'
      /\ syncers'[p].phase = "ready" /\ syncers'[p].todo = syncers[p].todo \ {c}
      /\ \A q \in {Server, Cli} \ {p} : syncers'[q] = syncers[q]
  <2>1. /\ "ready" \in Phases /\ {} \in SUBSET (Entities \cup {Root})
        /\ syncers[p].todo \ {c} \in SUBSET Courses
    BY <1>1, ProcessTypes DEF Phases
  <2>2. crashes' \in 0..MaxCrashes
    BY <1>1, <1>3 DEF SkeletonTypeOK
  <2>3. \A d \in Courses : /\ DOMAIN skeleton'[d] \subseteq Entities \cup {Root}
                           /\ skeleton'[d] \in [DOMAIN skeleton'[d] -> Row]
    BY <1>1, <1>2 DEF SkeletonTypeOK
  <2>. DEFINE left == syncers[p].todo \ {c}
  <2>4. left \in SUBSET Courses /\ deployed' = deployed /\ deploys' = deploys
    BY <1>3, <2>1
  <2>5. syncers' = [syncers EXCEPT ![p] = [phase |-> "ready", todo |-> left, seen |-> {}]]
    BY <1>3
  <2>. HIDE DEF left
  <2>6. DOMAIN skeleton' = Courses
    BY <1>2
  <2>7. /\ SkeletonTypeOK'
        /\ syncers'[p].phase = "ready" /\ syncers'[p].todo = left
        /\ \A q \in {Server, Cli} \ {p} : syncers'[q] = syncers[q]
    BY <1>1, <2>1, <2>2, <2>3, <2>4, <2>5, <2>6, TypesKept
  <2>. QED
    BY <2>7 DEF left
<1>5. \A d \in Courses \ {c} : (Mirrors(deployed, d)' <=> Mirrors(deployed, d))
  BY <1>2, <1>3, MirrorsKept
<1>6. HalfWayIsMirrored'
  <2> SUFFICES ASSUME NEW q \in {Server, Cli}, syncers'[q].phase \in {"ready", "read"}
               PROVE  /\ syncers'[q].todo \subseteq Slugs(deployed)
                      /\ \A d \in Slugs(deployed) \ syncers'[q].todo : Mirrors(deployed, d)'
    BY <1>3 DEF HalfWayIsMirrored
  <2>1. /\ syncers[q].phase \in {"ready", "read"}
        /\ syncers'[q].todo \subseteq syncers[q].todo
        /\ syncers[q].todo \subseteq syncers'[q].todo \cup {c}
    BY <1>3, <1>4
  <2>2. /\ syncers[q].todo \subseteq Slugs(deployed)
        /\ \A d \in Slugs(deployed) \ syncers[q].todo : Mirrors(deployed, d)
    BY <2>1 DEF SkeletonInvariant, HalfWayIsMirrored
  <2>3. Slugs(deployed) \subseteq Courses
    BY <1>1, SkeletonAssumption DEF SkeletonTypeOK, IsBundle, Slugs
  <2>. QED
    BY <1>2, <1>5, <2>1, <2>2, <2>3
<1>7. ServedIsMirrored'
  BY <1>2, <1>3, <1>4, <1>5 DEF SkeletonInvariant, ServedIsMirrored, Serving
<1>8. ActiveTree'
  <2>1. \A d \in Courses \ {c} : TreeOf(d)'
    BY <1>2, ActiveTreeOf DEF SkeletonInvariant, TreeOf
  <2>2. \A d \in Courses : TreeOf(d)'
    BY <1>2, <2>1
  <2>. QED
    BY <2>2 DEF ActiveTree, TreeOf
<1>. QED
  BY <1>4, <1>6, <1>7, <1>8 DEF SkeletonInvariant

LEMMA FinishKeeps ==
  ASSUME SkeletonInvariant, NEW p \in {Server, Cli}, Finish(p)
  PROVE  SkeletonInvariant'
<1>1. SkeletonTypeOK
  BY DEF SkeletonInvariant
<1>2. /\ DOMAIN skeleton' = Courses
      /\ \A c \in Courses : /\ DOMAIN skeleton'[c] = DOMAIN skeleton[c]
                            /\ skeleton'[c] \in [DOMAIN skeleton'[c] -> Row]
                            /\ Mirrors(deployed, c)'
                            /\ TreeOf(c)'
  <2>1. DOMAIN skeleton' = Courses
    BY DEF Finish
  <2>. QED
    BY <2>1, FinishEffect
<1>3. PICK phase \in {"serving", "down"} :
        syncers' = [syncers EXCEPT ![p] = [phase |-> phase, todo |-> {}, seen |-> {}]]
  <2>1. [Idle EXCEPT !.phase = "serving"] = [phase |-> "serving", todo |-> {}, seen |-> {}]
    BY DEF Idle
  <2>2. [Idle EXCEPT !.phase = "down"] = [phase |-> "down", todo |-> {}, seen |-> {}]
    BY DEF Idle
  <2>3. CASE p = Server
    BY <2>1, <2>3 DEF Finish
  <2>4. CASE p # Server
    BY <2>2, <2>4 DEF Finish
  <2>. QED
    BY <2>3, <2>4
<1>4. deployed' = deployed /\ deploys' = deploys /\ crashes' = crashes
  BY DEF Finish
<1>5. /\ SkeletonTypeOK'
      /\ syncers'[p].phase = phase
      /\ \A q \in {Server, Cli} \ {p} : syncers'[q] = syncers[q]
  <2>1. phase \in Phases /\ {} \in SUBSET Courses /\ {} \in SUBSET (Entities \cup {Root})
    BY DEF Phases
  <2>2. crashes' \in 0..MaxCrashes
    BY <1>1, <1>4 DEF SkeletonTypeOK
  <2>3. \A d \in Courses : /\ DOMAIN skeleton'[d] \subseteq Entities \cup {Root}
                           /\ skeleton'[d] \in [DOMAIN skeleton'[d] -> Row]
    BY <1>1, <1>2 DEF SkeletonTypeOK
  <2>. QED
    BY <1>1, <1>2, <1>3, <1>4, <2>1, <2>2, <2>3, TypesKept
<1>6. Slugs(deployed) \subseteq Courses
  BY <1>1, SkeletonAssumption DEF SkeletonTypeOK, IsBundle, Slugs
<1>7. HalfWayIsMirrored'
  BY <1>2, <1>4, <1>5, <1>6 DEF SkeletonInvariant, HalfWayIsMirrored
<1>8. ServedIsMirrored'
  BY <1>2, <1>4 DEF ServedIsMirrored
<1>9. ActiveTree'
  BY <1>2 DEF ActiveTree, TreeOf
<1>. QED
  BY <1>5, <1>7, <1>8, <1>9 DEF SkeletonInvariant

LEMMA DeployKeeps ==
  ASSUME SkeletonInvariant, NEW b \in Bundles, Deploy(b)
  PROVE  SkeletonInvariant'
<1>1. SkeletonTypeOK
  BY DEF SkeletonInvariant
<1>2. \A p \in {Server, Cli} : syncers'[p] = Idle
  BY DEF Deploy
<1>3. SkeletonTypeOK'
  <2>1. Idle \in [phase : Phases, todo : SUBSET Courses, seen : SUBSET (Entities \cup {Root})]
    BY DEF Idle, Phases
  <2>2. syncers' \in [{Server, Cli} -> [phase : Phases, todo : SUBSET Courses,
                                        seen : SUBSET (Entities \cup {Root})]]
    BY <2>1 DEF Deploy
  <2>3. deploys' \in 0..MaxDeploys
    BY <1>1, SkeletonAssumption DEF Deploy, SkeletonTypeOK
  <2>. QED
    BY <1>1, <2>2, <2>3 DEF Deploy, SkeletonTypeOK
<1>4. HalfWayIsMirrored' /\ ServedIsMirrored'
  BY <1>2 DEF HalfWayIsMirrored, ServedIsMirrored, Serving, Idle
<1>5. ActiveTree'
  BY DEF SkeletonInvariant, ActiveTree, Deploy
<1>. QED
  BY <1>3, <1>4, <1>5 DEF SkeletonInvariant

LEMMA SkeletonStep == SkeletonInvariant /\ [SkeletonNext]_skeletonVars => SkeletonInvariant'
<1> SUFFICES ASSUME SkeletonInvariant, [SkeletonNext]_skeletonVars PROVE SkeletonInvariant'
  OBVIOUS
<1>1. ASSUME NEW p \in {Server, Cli}, Step(p) PROVE SkeletonInvariant'
  <2>1. CASE Load(p)
    BY <2>1, LoadKeeps
  <2>2. ASSUME NEW c \in Courses, ReadCourse(p, c) PROVE SkeletonInvariant'
    BY <2>2, ReadCourseKeeps
  <2>3. ASSUME NEW c \in Courses, CommitCourse(p, c) PROVE SkeletonInvariant'
    BY <2>3, CommitCourseKeeps
  <2>4. ASSUME NEW c \in Courses, Collide(p, c) PROVE SkeletonInvariant'
    BY <2>4, StoppedKeeps DEF Collide, SkeletonInvariant, SkeletonTypeOK
  <2>5. CASE Finish(p)
    BY <2>5, FinishKeeps
  <2>. QED
    BY <1>1, <2>1, <2>2, <2>3, <2>4, <2>5 DEF Step
<1>2. ASSUME NEW p \in {Server, Cli}, Crash(p) PROVE SkeletonInvariant'
  <2>1. crashes' \in 0..MaxCrashes
    BY <1>2, SkeletonAssumption DEF Crash, SkeletonInvariant, SkeletonTypeOK
  <2>. QED
    BY <1>2, <2>1, StoppedKeeps DEF Crash
<1>3. ASSUME NEW b \in Bundles, Deploy(b) PROVE SkeletonInvariant'
  BY <1>3, DeployKeeps
<1>4. CASE UNCHANGED skeletonVars
  <2>1. SkeletonTypeOK'
    BY <1>4 DEF skeletonVars, SkeletonInvariant, SkeletonTypeOK
  <2>. QED
    BY <1>4, <2>1, TablesUntouched DEF skeletonVars
<1>. QED
  BY <1>1, <1>2, <1>3, <1>4 DEF SkeletonNext

----------------------------------------------------------------------------
(* What a step leaves alone                                                *)

\* Rows that mirror the bundle already are not changed by its upsert.
LEMMA MirroredUpsert ==
  ASSUME SkeletonTypeOK, NEW c \in Slugs(deployed), c \in Courses, Mirrors(deployed, c)
  PROVE  Upserted(skeleton[c], Wanted(deployed, c)) = skeleton[c]
<1> DEFINE rows == skeleton[c]
           wanted == Wanted(deployed, c)
<1>1. rows \in [DOMAIN rows -> Row]
  BY DEF SkeletonTypeOK
<1>2. /\ {e \in DOMAIN rows : rows[e].active} = DOMAIN wanted
      /\ \A e \in DOMAIN wanted : rows[e] = wanted[e]
  BY DEF Mirrors
<1> HIDE DEF rows, wanted
<1>3. \A e \in DOMAIN rows \ DOMAIN wanted : Retired(rows[e]) = rows[e]
  BY <1>1, <1>2, RetiredRow
<1>4. Upserted(rows, wanted)
        = [e \in DOMAIN rows \cup DOMAIN wanted |->
             IF e \in DOMAIN wanted THEN wanted[e] ELSE Retired(rows[e])]
  BY DEF Upserted
<1>5. DOMAIN rows \cup DOMAIN wanted = DOMAIN rows
  BY <1>2
<1>6. rows = [e \in DOMAIN rows |-> rows[e]]
  BY <1>1
<1>7. \A e \in DOMAIN rows :
        (IF e \in DOMAIN wanted THEN wanted[e] ELSE Retired(rows[e])) = rows[e]
  BY <1>2, <1>3
<1>8. Upserted(rows, wanted) = rows
  BY <1>4, <1>5, <1>6, <1>7
<1>. QED
  BY <1>8 DEF rows, wanted

\* A withdrawn course whose own row is inactive already stays as it is.
LEMMA MirroredWithdrawn ==
  ASSUME SkeletonTypeOK, NEW c \in Courses, Mirrors(deployed, c)
  PROVE  Withdrawn(deployed, c) = skeleton[c]
<1> DEFINE rows == skeleton[c]
<1>1. rows \in [DOMAIN rows -> Row]
  BY DEF SkeletonTypeOK
<1>2. CASE c \notin Slugs(deployed) /\ Root \in DOMAIN rows
  <2>1. ~rows[Root].active
    BY <1>2 DEF Mirrors
  <2> HIDE DEF rows
  <2>2. Retired(rows[Root]) = rows[Root]
    BY <1>1, <1>2, <2>1, RetiredRow
  <2>3. [rows EXCEPT ![Root] = Retired(rows[Root])] = rows
    BY <1>1, <1>2, <2>2
  <2>. QED
    BY <1>2, <2>3 DEF Withdrawn, rows
<1>3. CASE ~(c \notin Slugs(deployed) /\ Root \in DOMAIN rows)
  BY <1>3 DEF Withdrawn
<1>. QED
  BY <1>2, <1>3

\* No step deletes a row, and none touches a course that mirrors its bundle.
LEMMA RowsStay ==
  ASSUME SkeletonInvariant, [SkeletonNext]_skeletonVars, NEW c \in Courses
  PROVE  /\ DOMAIN skeleton[c] \subseteq DOMAIN skeleton'[c]
         /\ Mirrors(deployed, c) => skeleton'[c] = skeleton[c]
<1>1. SkeletonTypeOK
  BY DEF SkeletonInvariant
<1>2. ASSUME NEW p \in {Server, Cli}, NEW d \in Courses, CommitCourse(p, d)
      PROVE  /\ DOMAIN skeleton[c] \subseteq DOMAIN skeleton'[c]
             /\ Mirrors(deployed, c) => skeleton'[c] = skeleton[c]
  <2>1. /\ d \in Slugs(deployed)
        /\ \A o \in Courses \ {d} : skeleton'[o] = skeleton[o]
        /\ skeleton'[d] = Upserted(skeleton[d], Wanted(deployed, d))
        /\ DOMAIN skeleton[d] \subseteq DOMAIN skeleton'[d]
    BY <1>2, CommitCourseEffect
  <2>. QED
    BY <1>1, <2>1, MirroredUpsert
<1>3. ASSUME NEW p \in {Server, Cli}, Finish(p)
      PROVE  /\ DOMAIN skeleton[c] \subseteq DOMAIN skeleton'[c]
             /\ Mirrors(deployed, c) => skeleton'[c] = skeleton[c]
  <2>1. DOMAIN skeleton'[c] = DOMAIN skeleton[c] /\ skeleton'[c] = Withdrawn(deployed, c)
    BY <1>3, FinishEffect DEF Finish
  <2>. QED
    BY <1>1, <2>1, MirroredWithdrawn
<1>4. \/ skeleton' = skeleton
      \/ \E p \in {Server, Cli}, d \in Courses : CommitCourse(p, d)
      \/ \E p \in {Server, Cli} : Finish(p)
  BY DEF SkeletonNext, Step, Load, ReadCourse, Collide, Crash, Deploy, skeletonVars
<1>. QED
  BY <1>2, <1>3, <1>4

----------------------------------------------------------------------------
\* Where a run of another bundle, a crash, a collision or a second run left
\* the tables, what is served is mirrored and no active row hangs in the air
\* (sync.py:111-139).
THEOREM SkeletonSafe == SkeletonSpec => []SkeletonInvariant
<1>. QED
  BY SkeletonInitInvariant, SkeletonStep, PTL DEF SkeletonSpec

----------------------------------------------------------------------------
(* Learners over the catalog.                                              *)

----------------------------------------------------------------------------
(* The course a selection falls back to                                    *)

\* Titles are a total order, so a set of courses has a first one.
LEMMA FirstOfIn ==
  ASSUME NEW set \in SUBSET Courses, set # {}
  PROVE  FirstOf(set) \in set
<1> DEFINE ranks == {TitleOrder[c] : c \in set}
<1>1. ranks \subseteq Nat /\ ranks # {}
  BY EnrollmentAssumption
<1>2. PICK n \in ranks : \A m \in ranks : ~(<<m, n>> \in OpToRel(<, Nat))
  BY <1>1, NatLessThanWellFounded, WFMin
<1>3. \A m \in ranks : ~(m < n)
  BY <1>1, <1>2 DEF OpToRel
<1>4. PICK c \in set : TitleOrder[c] = n
  BY <1>2
<1>5. \A d \in set : TitleOrder[c] <= TitleOrder[d]
  <2> SUFFICES ASSUME NEW d \in set PROVE TitleOrder[c] <= TitleOrder[d]
    OBVIOUS
  <2>1. TitleOrder[c] \in Nat /\ TitleOrder[d] \in Nat
    BY EnrollmentAssumption
  <2>2. ~(TitleOrder[d] < TitleOrder[c])
    BY <1>3, <1>4
  <2>. QED
    BY <2>1, <2>2
<1>. QED
  BY <1>5 DEF FirstOf

LEMMA EffectiveIsActive ==
  ASSUME NEW active \in SUBSET Courses, NEW selected
  PROVE  Effective(active, selected) \in active \cup {None}
<1> DEFINE after == {c \in active : selected \in Published
                                    /\ TitleOrder[c] > TitleOrder[selected]}
<1>1. CASE active # {} /\ after # {}
  BY <1>1, FirstOfIn DEF Effective, Fallback
<1>2. CASE active # {} /\ after = {}
  BY <1>2, FirstOfIn DEF Effective, Fallback
<1>3. CASE active = {}
  BY <1>3 DEF Effective, Fallback
<1>. QED
  BY <1>1, <1>2, <1>3

----------------------------------------------------------------------------
(* The inductive invariant                                                 *)

\* What save_state has read and decided, up to its commit.
InFlight(r) ==
  /\ r.user \in Users
  /\ r.active \subseteq Published
  /\ DOMAIN r.reading \subseteq Published
  /\ \A c \in DOMAIN r.reading : r.reading[c] \in Languages
  /\ r.effective \in r.active \cup {None}
  /\ DOMAIN r.seen \subseteq DOMAIN choices[r.user]
  /\ r.seen \in [DOMAIN r.seen -> Choice]

\* A save is only in flight while its catalog is served.
SavesInFlight == \A s \in Slots : saves[s] # Free => Serving /\ InFlight(saves[s])

\* A save that nothing overlaps has read what is stored, and is the learner's
\* only one; a learner outside `overlapped` has no other kind.
LoneSaves ==
  /\ \A s \in lone :
       /\ saves[s].seen = choices[saves[s].user]
       /\ \A t \in Slots : (saves[t] # Free /\ saves[t].user = saves[s].user) => t = s
  /\ \A s \in Slots : (saves[s] # Free /\ saves[s].user \notin overlapped) => s \in lone

EnrollmentInvariant ==
  /\ SkeletonInvariant
  /\ TypeOK
  /\ SavesInFlight
  /\ LoneSaves
  /\ RowsAnchored
  /\ LastWordStands
  /\ SelectedIsActive

\* A published course has a skeleton row, and so does all it shows.
LEMMA PublishedRows ==
  ASSUME SkeletonInvariant, Serving, NEW c \in Published
  PROVE  /\ c \in Courses
         /\ Root \in DOMAIN skeleton[c]
         /\ DOMAIN Catalog[c].tree \subseteq DOMAIN skeleton[c]
<1>1. deployed \in Bundles /\ c \in Slugs(deployed)
  BY DEF SkeletonInvariant, SkeletonTypeOK, Published, Catalog, Slugs
<1>2. /\ c \in Courses
      /\ Root \in DOMAIN Wanted(deployed, c)
      /\ DOMAIN Catalog[c].tree \subseteq DOMAIN Wanted(deployed, c)
  BY <1>1, WantedRows DEF Catalog
<1>3. Mirrors(deployed, c)
  BY <1>2 DEF SkeletonInvariant, ServedIsMirrored
<1>4. DOMAIN Wanted(deployed, c) \subseteq DOMAIN skeleton[c]
  BY <1>1, <1>3 DEF Mirrors
<1>. QED
  BY <1>2, <1>4

LEMMA DecidedRows ==
  ASSUME SkeletonInvariant, TypeOK, Serving, NEW r, InFlight(r)
  PROVE  /\ DOMAIN Decided(r) = DOMAIN r.seen \cup r.active \cup DOMAIN r.reading
         /\ DOMAIN Decided(r) \subseteq Courses
         /\ Decided(r) \in [DOMAIN Decided(r) -> Choice]
<1>1. DOMAIN Decided(r) = DOMAIN r.seen \cup r.active \cup DOMAIN r.reading
  BY DEF Decided
<1>2. DOMAIN Decided(r) \subseteq Courses
  BY <1>1, PublishedRows DEF InFlight, TypeOK
<1>3. ASSUME NEW c \in DOMAIN Decided(r) PROVE Decided(r)[c] \in Choice
  <2> DEFINE row == IF c \in DOMAIN r.seen THEN r.seen[c] ELSE NewChoice
  <2>1. row \in Choice
    BY DEF InFlight, NewChoice, Choice
  <2>2. Decided(r)[c] =
          [active   |-> IF c \in Published THEN c \in r.active ELSE row.active,
           selected |-> c = r.effective,
           reading  |-> IF c \in DOMAIN r.reading THEN r.reading[c] ELSE row.reading]
    BY <1>1, <1>3 DEF Decided
  <2> HIDE DEF row
  <2>3. (IF c \in Published THEN c \in r.active ELSE row.active) \in BOOLEAN
    <3>1. (c \in r.active) \in BOOLEAN
      OBVIOUS
    <3>2. row.active \in BOOLEAN
      BY <2>1 DEF Choice
    <3>. QED
      BY <3>1, <3>2, Zenon
  <2>4. (IF c \in DOMAIN r.reading THEN r.reading[c] ELSE row.reading) \in Languages \cup {None}
    BY <2>1 DEF InFlight, Choice
  <2>. QED
    BY <2>2, <2>3, <2>4 DEF Choice
<1>4. Decided(r) = [c \in DOMAIN Decided(r) |-> Decided(r)[c]]
  BY DEF Decided
<1>. QED
  BY <1>1, <1>2, <1>3, <1>4

LEMMA MergedRows ==
  ASSUME SkeletonInvariant, TypeOK, Serving, NEW r, InFlight(r), NEW stored,
         stored \in [DOMAIN stored -> Choice], DOMAIN stored \subseteq Courses,
         DOMAIN r.seen \subseteq DOMAIN stored
  PROVE  /\ DOMAIN Merged(r, stored) = DOMAIN stored \cup r.active \cup DOMAIN r.reading
         /\ DOMAIN Merged(r, stored) \subseteq Courses
         /\ Merged(r, stored) \in [DOMAIN Merged(r, stored) -> Choice]
<1> DEFINE merged == Merged(r, stored)
           decided == Decided(r)
<1>1. DOMAIN merged = DOMAIN stored \cup DOMAIN decided
  BY DEF Merged
<1>2. /\ DOMAIN decided = DOMAIN r.seen \cup r.active \cup DOMAIN r.reading
      /\ DOMAIN decided \subseteq Courses
      /\ decided \in [DOMAIN decided -> Choice]
  BY DecidedRows
<1>3. ASSUME NEW c \in DOMAIN merged PROVE merged[c] \in Choice
  <2>1. CASE c \notin DOMAIN decided
    BY <1>1, <2>1 DEF Merged
  <2>2. CASE c \in DOMAIN decided /\ c \notin DOMAIN r.seen
    BY <1>1, <1>2, <2>2 DEF Merged
  <2>3. CASE c \in DOMAIN decided /\ c \in DOMAIN r.seen
    <3>1. /\ decided[c] \in Choice /\ stored[c] \in Choice
          /\ c \in DOMAIN stored
      BY <1>2, <2>3
    <3>2. merged[c] =
            [active   |-> Column(decided[c].active, r.seen[c].active, stored[c].active),
             selected |-> Column(decided[c].selected, r.seen[c].selected, stored[c].selected),
             reading  |-> Column(decided[c].reading, r.seen[c].reading, stored[c].reading)]
      BY <1>1, <2>3 DEF Merged
    <3> HIDE DEF merged, decided
    <3>. QED
      BY <3>1, <3>2 DEF Choice, Column
  <2>. QED
    BY <2>1, <2>2, <2>3
<1>4. merged = [c \in DOMAIN merged |-> merged[c]]
  BY DEF Merged
<1>. QED
  BY <1>1, <1>2, <1>3, <1>4

\* A save that read what is stored stores what it decided.
LEMMA MergedAlone ==
  ASSUME SkeletonInvariant, TypeOK, Serving, NEW r, InFlight(r)
  PROVE  Merged(r, r.seen) = Decided(r)
<1> DEFINE merged == Merged(r, r.seen)
           decided == Decided(r)
<1>1. /\ DOMAIN decided = DOMAIN r.seen \cup r.active \cup DOMAIN r.reading
      /\ decided \in [DOMAIN decided -> Choice]
  BY DecidedRows
<1>2. DOMAIN merged = DOMAIN decided
  BY <1>1 DEF Merged
<1>3. ASSUME NEW c \in DOMAIN merged PROVE merged[c] = decided[c]
  <2>1. CASE c \notin DOMAIN r.seen
    BY <1>2, <2>1, <1>3 DEF Merged
  <2>2. CASE c \in DOMAIN r.seen
    <3>1. decided[c] \in Choice
      BY <1>1, <1>2
    <3>2. merged[c] =
            [active   |-> Column(decided[c].active, r.seen[c].active, r.seen[c].active),
             selected |-> Column(decided[c].selected, r.seen[c].selected, r.seen[c].selected),
             reading  |-> Column(decided[c].reading, r.seen[c].reading, r.seen[c].reading)]
      BY <1>2, <2>2 DEF Merged
    <3> HIDE DEF merged, decided
    <3>3. merged[c] = [active |-> decided[c].active, selected |-> decided[c].selected,
                       reading |-> decided[c].reading]
      BY <3>2 DEF Column
    <3>. QED
      BY <3>1, <3>3 DEF Choice
  <2>. QED
    BY <2>1, <2>2
<1>4. /\ merged = [c \in DOMAIN merged |-> merged[c]]
      /\ decided = [c \in DOMAIN decided |-> decided[c]]
  BY <1>1 DEF Merged
<1> HIDE DEF merged, decided
<1>5. merged = decided
  BY <1>2, <1>3, <1>4
<1>. QED
  BY <1>5 DEF merged, decided

\* What a lone save leaves active and selected.
LEMMA DecidedActive ==
  ASSUME SkeletonInvariant, TypeOK, Serving, NEW r, InFlight(r)
  PROVE  /\ {c \in DOMAIN Decided(r) : Decided(r)[c].active}
              = ({c \in DOMAIN r.seen : r.seen[c].active} \ Published) \cup r.active
         /\ \A c \in DOMAIN Decided(r) : Decided(r)[c].selected => Decided(r)[c].active
<1>1. /\ DOMAIN Decided(r) = DOMAIN r.seen \cup r.active \cup DOMAIN r.reading
      /\ DOMAIN Decided(r) \subseteq Courses
  BY DecidedRows
<1>2. ASSUME NEW c \in DOMAIN Decided(r)
      PROVE  /\ c \in Published => (Decided(r)[c].active <=> c \in r.active)
             /\ c \notin Published =>
                  c \in DOMAIN r.seen /\ (Decided(r)[c].active <=> r.seen[c].active)
             /\ Decided(r)[c].selected => c \in r.active
  <2>1. c # None
    BY <1>1, EnrollmentAssumption
  <2>2. Decided(r)[c].selected => c = r.effective
    BY <1>1, <1>2 DEF Decided
  <2>3. Decided(r)[c].selected => c \in r.active
    BY <2>1, <2>2 DEF InFlight
  <2>4. CASE c \in Published
    BY <1>1, <1>2, <2>3, <2>4 DEF Decided
  <2>5. CASE c \notin Published
    <3>1. c \in DOMAIN r.seen
      BY <1>1, <2>5 DEF InFlight
    <3>2. Decided(r)[c].active = r.seen[c].active
      BY <1>1, <2>5, <3>1 DEF Decided
    <3>. QED
      BY <2>3, <2>5, <3>1, <3>2
  <2>. QED
    BY <2>4, <2>5
<1>3. r.active \subseteq Published
  BY DEF InFlight
<1>. QED
  BY <1>1, <1>2, <1>3

----------------------------------------------------------------------------
(* Steps                                                                   *)

LEMMA EnrollmentInitInvariant == Init => EnrollmentInvariant
<1> SUFFICES ASSUME Init PROVE EnrollmentInvariant
  OBVIOUS
<1>1. SkeletonInvariant
  BY SkeletonInitInvariant DEF Init
<1>2. \A u \in Users : choices[u] = << >> /\ asked[u] = {}
  BY DEF Init
<1>3. DOMAIN << >> = {} /\ << >> \in [{} -> Choice]
  OBVIOUS
<1>4. \A s \in Slots : saves[s] = Free
  BY DEF Init
<1>5. TypeOK
  <2>1. \A u \in Users : /\ DOMAIN choices[u] \subseteq Courses
                         /\ choices[u] \in [DOMAIN choices[u] -> Choice]
    BY <1>2, <1>3
  <2>2. asked \in [Users -> SUBSET Courses]
    BY DEF Init
  <2>3. /\ DOMAIN choices = Users /\ DOMAIN saves = Slots /\ completions = {}
        /\ lone = {} /\ overlapped = {}
    BY DEF Init
  <2>. QED
    BY <1>1, <1>4, <2>1, <2>2, <2>3 DEF TypeOK, SkeletonInvariant
<1>6. SavesInFlight /\ LoneSaves
  BY <1>4 DEF SavesInFlight, LoneSaves, Init
<1>7. RowsAnchored
  BY <1>2, <1>3 DEF RowsAnchored, Init
<1>8. LastWordStands /\ SelectedIsActive
  BY <1>2, <1>3 DEF LastWordStands, SelectedIsActive, Stored
<1>. QED
  BY <1>1, <1>5, <1>6, <1>7, <1>8 DEF EnrollmentInvariant

\* The server serves on only while the same bundle is deployed.
LEMMA ServingStays ==
  ASSUME SkeletonInvariant, SkeletonNext, Serving'
  PROVE  Serving => deployed' = deployed
<1>1. ASSUME NEW b \in Bundles, Deploy(b) PROVE ~Serving'
  BY <1>1 DEF Deploy, Serving, Idle
<1>2. \/ deployed' = deployed
      \/ \E b \in Bundles : Deploy(b)
  BY DEF SkeletonNext, Step, Load, ReadCourse, CommitCourse, Collide, Finish, Crash
<1>. QED
  BY <1>1, <1>2

LEMMA LifecycleKeeps ==
  ASSUME EnrollmentInvariant, Lifecycle
  PROVE  EnrollmentInvariant'
<1>1. /\ SkeletonInvariant'
      /\ \A c \in Courses : DOMAIN skeleton[c] \subseteq DOMAIN skeleton'[c]
  BY SkeletonStep, RowsStay DEF EnrollmentInvariant, Lifecycle
<1>2. /\ UNCHANGED <<choices, completions, asked, overlapped>>
      /\ DOMAIN saves' = Slots
      /\ lone' = {s \in lone : saves'[s] # Free}
      /\ \A s \in Slots : saves'[s] # Free =>
           saves'[s] = saves[s] /\ Serving /\ Serving' /\ deployed' = deployed
  <2>1. CASE Serving'
    <3>1. saves' = saves
      BY <2>1 DEF Lifecycle
    <3>2. \A s \in Slots : saves'[s] # Free => Serving
      BY <3>1 DEF EnrollmentInvariant, SavesInFlight
    <3>3. Serving => deployed' = deployed
      BY <2>1, ServingStays DEF EnrollmentInvariant, Lifecycle
    <3>4. lone' = {s \in lone : saves'[s] # Free}
      BY <2>1, <3>1 DEF Lifecycle, EnrollmentInvariant, TypeOK
    <3>. QED
      BY <2>1, <3>1, <3>2, <3>3, <3>4 DEF Lifecycle, EnrollmentInvariant, TypeOK
  <2>2. CASE ~Serving'
    <3>1. /\ saves' = [s \in Slots |-> Free] /\ lone' = {}
          /\ lone \subseteq Slots
      BY <2>2 DEF Lifecycle, EnrollmentInvariant, TypeOK
    <3>. QED
      BY <3>1 DEF Lifecycle
  <2>. QED
    BY <2>1, <2>2
<1>3. TypeOK'
  BY <1>1, <1>2 DEF EnrollmentInvariant, TypeOK, SkeletonInvariant
<1>4. SavesInFlight'
  BY <1>2 DEF EnrollmentInvariant, SavesInFlight, InFlight, Published, Catalog
<1>5. LoneSaves'
  BY <1>2 DEF EnrollmentInvariant, LoneSaves, TypeOK
<1>6. RowsAnchored'
  <2>1. \A t \in completions : t[2] \in Courses
    BY DEF EnrollmentInvariant, TypeOK
  <2>. QED
    BY <1>1, <1>2, <2>1 DEF EnrollmentInvariant, RowsAnchored
<1>7. LastWordStands' /\ SelectedIsActive'
  BY <1>2 DEF EnrollmentInvariant, LastWordStands, SelectedIsActive, Stored
<1>. QED
  BY <1>1, <1>3, <1>4, <1>5, <1>6, <1>7 DEF EnrollmentInvariant

\* A handler touches neither the tables nor the processes.
LEMMA SkeletonKept ==
  ASSUME EnrollmentInvariant, UNCHANGED skeletonVars
  PROVE  /\ SkeletonInvariant' /\ SkeletonTypeOK'
         /\ skeleton' = skeleton
         /\ Serving' = Serving
         /\ Published' = Published
<1>1. SkeletonInvariant'
  BY SkeletonStep DEF EnrollmentInvariant
<1>. QED
  BY <1>1 DEF SkeletonInvariant, skeletonVars, Serving, Published, Catalog

LEMMA SaveBeginKeeps ==
  ASSUME EnrollmentInvariant, NEW s \in Slots, NEW u \in Users, NEW active \in SUBSET Courses,
         NEW selected \in Courses \cup {None}, NEW reading \in ReadingChoices,
         SaveBegin(s, u, active, selected, reading)
  PROVE  EnrollmentInvariant'
<1> DEFINE new == [user |-> u, active |-> active, reading |-> reading,
                   effective |-> Effective(active, selected), seen |-> choices[u]]
<1>1. /\ saves' = [saves EXCEPT ![s] = new]
      /\ UNCHANGED <<choices, completions>>
      /\ Serving
      /\ active \subseteq Published /\ DOMAIN reading \subseteq Published
  BY DEF SaveBegin
<1>2. /\ SkeletonInvariant' /\ SkeletonTypeOK' /\ skeleton' = skeleton
      /\ Serving' = Serving /\ Published' = Published
  BY SkeletonKept DEF SaveBegin
<1>3. Effective(active, selected) \in active \cup {None}
  BY EffectiveIsActive
<1>4. /\ new.user = u /\ new.active = active /\ new.reading = reading
      /\ new.effective = Effective(active, selected) /\ new.seen = choices[u]
  OBVIOUS
<1>5. /\ choices[u] \in [DOMAIN choices[u] -> Choice]
      /\ \A c \in DOMAIN reading : reading[c] \in Languages
  BY EnrollmentAssumption DEF EnrollmentInvariant, TypeOK
<1> HIDE DEF new
<1>6. /\ DOMAIN saves' = Slots /\ saves'[s] = new
      /\ \A t \in Slots \ {s} : saves'[t] = saves[t]
  BY <1>1 DEF EnrollmentInvariant, TypeOK
<1>7. /\ saves[s] = Free /\ new # Free
      /\ lone' = IF Busy(u) THEN {t \in lone : saves[t].user # u} ELSE lone \cup {s}
      /\ overlapped' = IF Busy(u) THEN overlapped \cup {u} ELSE overlapped
      /\ asked' = IF Busy(u) THEN [asked EXCEPT ![u] = {}] ELSE asked
  BY DEF SaveBegin, new, Free
<1>8. TypeOK'
  <2>1. \A t \in Slots : saves'[t] # Free =>
          /\ saves'[t].user \in Users
          /\ saves'[t].active \subseteq Courses
          /\ saves'[t].effective \in saves'[t].active \cup {None}
    BY <1>3, <1>4, <1>6 DEF EnrollmentInvariant, TypeOK
  <2>2. overlapped' \subseteq Users /\ asked' \in [Users -> SUBSET Courses]
    BY <1>7 DEF EnrollmentInvariant, TypeOK
  <2>3. lone' \subseteq {t \in Slots : saves'[t] # Free}
    BY <1>6, <1>7 DEF EnrollmentInvariant, TypeOK
  <2>. QED
    BY <1>1, <1>2, <1>6, <2>1, <2>2, <2>3 DEF EnrollmentInvariant, TypeOK
<1>9. SavesInFlight'
  <2>1. /\ saves'[s].user = u /\ saves'[s].active = active /\ saves'[s].reading = reading
        /\ saves'[s].effective \in active \cup {None} /\ saves'[s].seen = choices'[u]
    BY <1>1, <1>3, <1>4, <1>6
  <2>3. InFlight(saves[s])'
    BY <1>1, <1>2, <1>5, <2>1 DEF InFlight
  <2>2. ASSUME NEW t \in Slots \ {s}, saves'[t] # Free PROVE Serving' /\ InFlight(saves[t])'
    BY <1>1, <1>2, <1>6, <2>2 DEF EnrollmentInvariant, SavesInFlight, InFlight
  <2>. QED
    BY <1>1, <1>2, <2>2, <2>3 DEF SavesInFlight
<1>10. LoneSaves'
  <2>1. /\ lone \subseteq Slots \ {s}
        /\ \A t \in lone : saves[t] # Free
    BY <1>7 DEF EnrollmentInvariant, TypeOK
  <2>2. ASSUME NEW t \in lone'
        PROVE  /\ saves'[t].seen = choices'[saves'[t].user]
               /\ \A v \in Slots : (saves'[v] # Free /\ saves'[v].user = saves'[t].user) => v = t
    <3>1. CASE t = s
      <4>1. ~Busy(u)
        BY <1>7, <2>1, <3>1, <2>2
      <4>. QED
        BY <1>1, <1>4, <1>6, <3>1, <4>1 DEF Busy
    <3>2. CASE t # s
      <4>1. t \in lone /\ saves'[t] = saves[t]
        BY <1>6, <1>7, <2>1, <2>2, <3>2
      <4>2. /\ saves[t].seen = choices[saves[t].user]
            /\ \A v \in Slots : (saves[v] # Free /\ saves[v].user = saves[t].user) => v = t
        BY <4>1 DEF EnrollmentInvariant, LoneSaves
      <4>3. saves[t].user # u
        BY <1>7, <2>1, <2>2, <3>2, <4>1 DEF Busy
      <4>. QED
        BY <1>1, <1>4, <1>6, <4>1, <4>2, <4>3
    <3>. QED
      BY <3>1, <3>2
  <2>3. ASSUME NEW t \in Slots, saves'[t] # Free, saves'[t].user \notin overlapped'
        PROVE  t \in lone'
    <3>1. CASE t = s
      BY <1>4, <1>6, <1>7, <2>3, <3>1
    <3>2. CASE t # s
      <4>1. saves'[t] = saves[t] /\ saves[t].user \notin overlapped
        BY <1>6, <1>7, <2>3, <3>2
      <4>2. t \in lone
        BY <2>3, <4>1 DEF EnrollmentInvariant, LoneSaves
      <4>. QED
        BY <1>7, <2>3, <4>1, <4>2
    <3>. QED
      BY <3>1, <3>2
  <2>. QED
    BY <2>2, <2>3 DEF LoneSaves
<1>11. RowsAnchored'
  BY <1>1, <1>2 DEF EnrollmentInvariant, RowsAnchored
<1>12. LastWordStands' /\ SelectedIsActive'
  <2>1. ASSUME NEW v \in Users \ overlapped'
        PROVE  v \notin overlapped /\ asked'[v] = asked[v]
    BY <1>7, <2>1 DEF EnrollmentInvariant, TypeOK
  <2>. QED
    BY <1>1, <2>1 DEF EnrollmentInvariant, LastWordStands, SelectedIsActive, Stored
<1>. QED
  BY <1>2, <1>8, <1>9, <1>10, <1>11, <1>12 DEF EnrollmentInvariant

LEMMA SaveCommitKeeps ==
  ASSUME EnrollmentInvariant, NEW s \in Slots, SaveCommit(s)
  PROVE  EnrollmentInvariant'
<1> DEFINE r == saves[s]
           u == r.user
           new == Merged(r, choices[u])
<1>1. /\ r # Free
      /\ choices' = [choices EXCEPT ![u] = new]
      /\ saves' = [saves EXCEPT ![s] = Free]
      /\ lone' = lone \ {s}
      /\ asked' = IF s \in lone THEN [asked EXCEPT ![u] = AskedBy(r)] ELSE asked
      /\ overlapped' = IF s \in lone THEN overlapped \ {u} ELSE overlapped
      /\ UNCHANGED <<completions, skeletonVars>>
  BY DEF SaveCommit
<1>2. /\ SkeletonInvariant' /\ SkeletonTypeOK' /\ skeleton' = skeleton
      /\ Serving' = Serving /\ Published' = Published
  BY <1>1, SkeletonKept
<1>3. /\ SkeletonInvariant /\ TypeOK /\ Serving /\ InFlight(r)
      /\ u \in Users
      /\ DOMAIN choices[u] \subseteq Courses
      /\ choices[u] \in [DOMAIN choices[u] -> Choice]
  BY <1>1 DEF EnrollmentInvariant, SavesInFlight, InFlight, TypeOK
<1>4. /\ DOMAIN new = DOMAIN choices[u] \cup r.active \cup DOMAIN r.reading
      /\ DOMAIN new \subseteq Courses
      /\ new \in [DOMAIN new -> Choice]
  BY <1>3, MergedRows DEF InFlight
<1>5. ASSUME s \in lone
      PROVE  /\ {c \in DOMAIN new : new[c].active} = AskedBy(r)
             /\ \A c \in DOMAIN new : new[c].selected => new[c].active
  <2>1. r.seen = choices[u]
    BY <1>5 DEF EnrollmentInvariant, LoneSaves
  <2>2. new = Decided(r)
    BY <1>3, <2>1, MergedAlone
  <2>3. AskedBy(r) = (Stored(u) \ Published) \cup r.active
    BY <1>3 DEF EnrollmentInvariant, LastWordStands, AskedBy
  <2>. QED
    BY <1>3, <2>1, <2>2, <2>3, DecidedActive DEF Stored
<1>6. u \notin overlapped => s \in lone
  BY <1>1 DEF EnrollmentInvariant, LoneSaves
<1>7. /\ DOMAIN choices' = Users /\ choices'[u] = new
      /\ \A v \in Users \ {u} : choices'[v] = choices[v] /\ asked'[v] = asked[v]
      /\ s \in lone => asked'[u] = AskedBy(r)
      /\ DOMAIN saves' = Slots /\ saves'[s] = Free
      /\ \A t \in Slots \ {s} : saves'[t] = saves[t]
  BY <1>1, <1>3 DEF TypeOK
<1>8. /\ r.active \subseteq Published /\ DOMAIN r.reading \subseteq Published
      /\ Published \subseteq Courses
  BY <1>3, PublishedRows DEF InFlight
<1> HIDE DEF r, u, new
<1>9. TypeOK'
  <2>1. \A v \in Users : /\ DOMAIN choices'[v] \subseteq Courses
                         /\ choices'[v] \in [DOMAIN choices'[v] -> Choice]
    BY <1>3, <1>4, <1>7 DEF TypeOK
  <2>2. asked' \in [Users -> SUBSET Courses]
    <3>1. s \in lone => AskedBy(r) \subseteq Courses
      BY <1>4, <1>5
    <3>. QED
      BY <1>1, <1>3, <3>1 DEF TypeOK
  <2>3. \A t \in Slots : saves'[t] # Free =>
          /\ saves'[t].user \in Users
          /\ saves'[t].active \subseteq Courses
          /\ saves'[t].effective \in saves'[t].active \cup {None}
    BY <1>3, <1>7 DEF TypeOK
  <2>4. /\ lone' \subseteq {t \in Slots : saves'[t] # Free}
        /\ overlapped' \subseteq Users
    BY <1>1, <1>3, <1>7 DEF TypeOK
  <2>. QED
    BY <1>1, <1>2, <1>3, <1>7, <2>1, <2>2, <2>3, <2>4 DEF TypeOK
<1>10. SavesInFlight'
  <2>1. \A v \in Users : DOMAIN choices[v] \subseteq DOMAIN choices'[v]
    BY <1>4, <1>7
  <2>2. ASSUME NEW t \in Slots, saves'[t] # Free PROVE Serving' /\ InFlight(saves[t])'
    <3>1. t # s /\ saves'[t] = saves[t]
      BY <1>7, <2>2
    <3>2. Serving /\ InFlight(saves[t])
      BY <2>2, <3>1 DEF EnrollmentInvariant, SavesInFlight
    <3>. QED
      BY <1>2, <2>1, <3>1, <3>2 DEF InFlight
  <2>. QED
    BY <2>2 DEF SavesInFlight
<1>11. LoneSaves'
  <2>1. ASSUME NEW t \in lone'
        PROVE  /\ saves'[t].seen = choices'[saves'[t].user]
               /\ \A v \in Slots : (saves'[v] # Free /\ saves'[v].user = saves'[t].user) => v = t
    <3>1. t \in lone /\ t \in Slots \ {s} /\ saves[t] # Free /\ saves'[t] = saves[t]
      BY <1>1, <1>3, <1>7, <2>1 DEF TypeOK
    <3>2. /\ saves[t].seen = choices[saves[t].user]
          /\ \A v \in Slots : (saves[v] # Free /\ saves[v].user = saves[t].user) => v = t
      BY <3>1 DEF EnrollmentInvariant, LoneSaves
    <3>3. saves[t].user # u /\ saves[t].user \in Users
      BY <1>1, <1>3, <3>1, <3>2 DEF r, u, TypeOK
    <3>. QED
      BY <1>7, <3>1, <3>2, <3>3
  <2>2. ASSUME NEW t \in Slots, saves'[t] # Free, saves'[t].user \notin overlapped'
        PROVE  t \in lone'
    <3>1. t # s /\ saves'[t] = saves[t]
      BY <1>7, <2>2
    <3>2. s \in lone => saves[t].user # u
      BY <2>2, <3>1 DEF EnrollmentInvariant, LoneSaves, r, u
    <3>3. saves[t].user \notin overlapped
      BY <1>1, <2>2, <3>1, <3>2
    <3>4. t \in lone
      BY <2>2, <3>1, <3>3 DEF EnrollmentInvariant, LoneSaves
    <3>. QED
      BY <1>1, <3>1, <3>4
  <2>. QED
    BY <2>1, <2>2 DEF LoneSaves
<1>12. RowsAnchored'
  <2>1. \A c \in r.active \cup DOMAIN r.reading : Root \in DOMAIN skeleton[c]
    BY <1>3, <1>8, PublishedRows
  <2>. QED
    BY <1>1, <1>2, <1>3, <1>4, <1>7, <2>1 DEF EnrollmentInvariant, RowsAnchored
<1>13. LastWordStands' /\ SelectedIsActive'
  <2>1. ASSUME NEW v \in Users \ overlapped', v = u
        PROVE  /\ Stored(v)' = asked'[v]
               /\ \A c \in DOMAIN choices'[v] : choices'[v][c].selected => choices'[v][c].active
    <3>1. s \in lone
      BY <1>1, <1>6, <2>1
    <3>. QED
      BY <1>5, <1>7, <2>1, <3>1 DEF Stored
  <2>2. ASSUME NEW v \in Users \ overlapped', v # u
        PROVE  /\ Stored(v)' = asked'[v]
               /\ \A c \in DOMAIN choices'[v] : choices'[v][c].selected => choices'[v][c].active
    <3>1. v \notin overlapped
      BY <1>1, <2>2
    <3>. QED
      BY <1>7, <2>2, <3>1
         DEF EnrollmentInvariant, LastWordStands, SelectedIsActive, Stored
  <2>. QED
    BY <2>1, <2>2 DEF LastWordStands, SelectedIsActive, Stored
<1>. QED
  BY <1>2, <1>9, <1>10, <1>11, <1>12, <1>13 DEF EnrollmentInvariant

LEMMA SaveRefusedKeeps ==
  ASSUME EnrollmentInvariant, NEW s \in Slots, SaveRefused(s)
  PROVE  EnrollmentInvariant'
<1>1. /\ saves' = [saves EXCEPT ![s] = Free]
      /\ lone' = lone \ {s}
      /\ UNCHANGED <<choices, completions, asked, overlapped>>
      /\ SkeletonInvariant' /\ SkeletonTypeOK' /\ skeleton' = skeleton
      /\ Serving' = Serving /\ Published' = Published
  BY SkeletonKept DEF SaveRefused
<1>2. /\ DOMAIN saves' = Slots
      /\ \A t \in Slots : saves'[t] # Free => t # s /\ saves'[t] = saves[t]
      /\ \A t \in lone' : t \in lone /\ t \in Slots /\ saves'[t] = saves[t] /\ saves[t] # Free
  BY <1>1 DEF EnrollmentInvariant, TypeOK
<1>3. TypeOK'
  BY <1>1, <1>2 DEF EnrollmentInvariant, TypeOK
<1>4. SavesInFlight'
  BY <1>1, <1>2 DEF EnrollmentInvariant, SavesInFlight, InFlight
<1>5. LoneSaves'
  BY <1>1, <1>2 DEF EnrollmentInvariant, LoneSaves
<1>6. RowsAnchored' /\ LastWordStands' /\ SelectedIsActive'
  BY <1>1 DEF EnrollmentInvariant, RowsAnchored, LastWordStands, SelectedIsActive, Stored
<1>. QED
  BY <1>1, <1>3, <1>4, <1>5, <1>6 DEF EnrollmentInvariant

LEMMA CompletionKeeps ==
  ASSUME EnrollmentInvariant, NEW u \in Users, NEW c \in Courses, NEW l \in Lessons,
         Complete(u, c, l) \/ Uncomplete(u, c, l)
  PROVE  EnrollmentInvariant'
<1>1. /\ UNCHANGED <<choices, saves, asked, lone, overlapped, skeletonVars>>
      /\ Serving /\ l \in Shown(c)
      /\ completions' \subseteq completions \cup {<<u, c, l>>}
  BY DEF Complete, Uncomplete
<1>2. /\ SkeletonInvariant' /\ SkeletonTypeOK' /\ skeleton' = skeleton
      /\ Serving' = Serving /\ Published' = Published
  BY <1>1, SkeletonKept
<1>3. c \in Published /\ l \in DOMAIN Catalog[c].tree
  BY <1>1 DEF Shown
<1>4. l \in DOMAIN skeleton[c]
  BY <1>1, <1>3, PublishedRows DEF EnrollmentInvariant
<1>5. TypeOK'
  BY <1>1, <1>2 DEF EnrollmentInvariant, TypeOK
<1>6. SavesInFlight' /\ LoneSaves'
  BY <1>1, <1>2 DEF EnrollmentInvariant, SavesInFlight, InFlight, LoneSaves
<1>7. RowsAnchored'
  BY <1>1, <1>2, <1>4 DEF EnrollmentInvariant, RowsAnchored
<1>8. LastWordStands' /\ SelectedIsActive'
  BY <1>1 DEF EnrollmentInvariant, LastWordStands, SelectedIsActive, Stored
<1>. QED
  BY <1>2, <1>5, <1>6, <1>7, <1>8 DEF EnrollmentInvariant

LEMMA EnrollmentStep == EnrollmentInvariant /\ [Next]_vars => EnrollmentInvariant'
<1> SUFFICES ASSUME EnrollmentInvariant, [Next]_vars PROVE EnrollmentInvariant'
  OBVIOUS
<1>1. CASE Lifecycle
  BY <1>1, LifecycleKeeps
<1>2. ASSUME NEW s \in Slots, NEW u \in Users, NEW active \in ActiveChoices,
             NEW selected \in Courses \cup {None}, NEW reading \in ReadingChoices,
             SaveBegin(s, u, active, selected, reading)
      PROVE  EnrollmentInvariant'
  <2>1. active \in SUBSET Courses
    BY EnrollmentAssumption
  <2>. QED
    BY <1>2, <2>1, SaveBeginKeeps
<1>3. ASSUME NEW s \in Slots, SaveCommit(s) PROVE EnrollmentInvariant'
  BY <1>3, SaveCommitKeeps
<1>4. ASSUME NEW s \in Slots, SaveRefused(s) PROVE EnrollmentInvariant'
  BY <1>4, SaveRefusedKeeps
<1>5. ASSUME NEW u \in Users, NEW c \in Courses, NEW l \in Lessons,
             Complete(u, c, l) \/ Uncomplete(u, c, l)
      PROVE  EnrollmentInvariant'
  BY <1>5, CompletionKeeps
<1>6. CASE UNCHANGED vars
  <2>1. UNCHANGED <<choices, completions, saves, asked, lone, overlapped, skeletonVars>>
    BY <1>6 DEF vars, skeletonVars
  <2>2. /\ SkeletonInvariant' /\ SkeletonTypeOK' /\ skeleton' = skeleton
        /\ Serving' = Serving /\ Published' = Published
    BY <2>1, SkeletonKept
  <2>3. TypeOK'
    BY <2>1, <2>2 DEF EnrollmentInvariant, TypeOK
  <2>. QED
    BY <2>1, <2>2, <2>3
       DEF EnrollmentInvariant, SavesInFlight, InFlight, LoneSaves, RowsAnchored,
           LastWordStands, SelectedIsActive, Stored
<1>. QED
  BY <1>1, <1>2, <1>3, <1>4, <1>5, <1>6 DEF Next

LEMMA EnrollmentInvariantHolds == Spec => []EnrollmentInvariant
  BY EnrollmentInitInvariant, EnrollmentStep, PTL DEF Spec

----------------------------------------------------------------------------
(* Theorems                                                                *)

\* Tables, requests and processes stay well typed.
THEOREM EnrollmentTypeCorrect == Spec => []TypeOK
<1>1. EnrollmentInvariant => TypeOK
  BY DEF EnrollmentInvariant
<1>. QED
  BY <1>1, EnrollmentInvariantHolds, PTL

\* Whatever bundles were deployed before and wherever runs were cut short, the
\* tables mirror the catalog while it is served (sync.py:111-139).
THEOREM ServedTablesMirror == Spec => []ServedIsMirrored
<1>1. EnrollmentInvariant => ServedIsMirrored
  BY DEF EnrollmentInvariant, SkeletonInvariant
<1>. QED
  BY <1>1, EnrollmentInvariantHolds, PTL

\* Between any two commits of a run no active row of an active course hangs
\* from an inactive one (sync.py:78-109).
THEOREM ActiveTreesHold == Spec => []ActiveTree
<1>1. EnrollmentInvariant => ActiveTree
  BY DEF EnrollmentInvariant, SkeletonInvariant
<1>. QED
  BY <1>1, EnrollmentInvariantHolds, PTL

\* Reconciling again what is reconciled changes nothing (sync.py:65-75).
THEOREM SettledCoursesStay == Spec => SettledStays
<1>1. EnrollmentInvariant /\ [Next]_vars =>
        [\A c \in Courses : (deployed' = deployed /\ Mirrors(deployed, c)) =>
           skeleton'[c] = skeleton[c]]_skeletonVars
  <2> SUFFICES ASSUME EnrollmentInvariant, [Next]_vars, NEW c \in Courses, Mirrors(deployed, c)
               PROVE  skeleton'[c] = skeleton[c]
    OBVIOUS
  <2>1. [SkeletonNext]_skeletonVars
    BY DEF Next, vars, skeletonVars, Lifecycle, SaveBegin, SaveCommit, SaveRefused, Complete,
           Uncomplete
  <2>. QED
    BY <2>1, RowsStay DEF EnrollmentInvariant
<1>. QED
  BY <1>1, EnrollmentInvariantHolds, PTL DEF Spec, SettledStays

\* A save that nothing overlapped, whatever overlapped before it, leaves the
\* learner with what they asked for, and a withdrawn course comes back as they
\* left it (service.py:121-124).
THEOREM LastWordIsKept == Spec => []LastWordStands
<1>1. EnrollmentInvariant => LastWordStands
  BY DEF EnrollmentInvariant
<1>. QED
  BY <1>1, EnrollmentInvariantHolds, PTL

\* The selection it leaves is a course they have active, although saves that
\* overlapped before it may have left another (service.py:109-111).
THEOREM SelectionIsActive == Spec => []SelectedIsActive
<1>1. EnrollmentInvariant => SelectedIsActive
  BY DEF EnrollmentInvariant
<1>. QED
  BY <1>1, EnrollmentInvariantHolds, PTL

\* What learners have refers to rows that exist, whatever was dropped from the
\* content since (content/models.py:96-103).
THEOREM LearnerRowsAnchored == Spec => []RowsAnchored
<1>1. EnrollmentInvariant => RowsAnchored
  BY DEF EnrollmentInvariant
<1>. QED
  BY <1>1, EnrollmentInvariantHolds, PTL

=============================================================================
