---------------------------- MODULE StatsProofs ----------------------------
(* The figures, for every set of learners, catalog, gate and history.      *)
(*                                                                         *)
(* The rows of the learners are folds of a sum over a set, and a fold is a *)
(* recursive function.  What it computes is proved by a least              *)
(* counterexample among the parts of the set: a count of observations is   *)
(* one such sum (CountIsSum), and two of them cannot differ                *)
(* (SumsAreUnique).                                                        *)
EXTENDS Stats, LanesProofs, FiniteSetTheorems

----------------------------------------------------------------------------
(* Induction, by a least counterexample.                                   *)

LEMMA LeastNumber ==
  ASSUME NEW T, T \subseteq Nat, T # {}
  PROVE  \E m \in T : \A k \in T : m <= k
<1>1. IsWellFoundedOn(OpToRel(<, Nat), Nat)
  BY NatLessThanWellFounded
<1>2. PICK m \in T : \A k \in T : ~(<<k, m>> \in OpToRel(<, Nat))
  BY <1>1, WFMin
<1>3. ASSUME NEW k \in T PROVE ~(k < m)
  BY <1>2, <1>3, Zenon DEF OpToRel
<1>4. ASSUME NEW k \in T PROVE m <= k
  <2>1. k \in Nat /\ m \in Nat
    OBVIOUS
  <2>2. ~(k < m)
    BY <1>3
  <2> QED
    BY <2>1, <2>2
<1> QED
  BY <1>2, <1>4

LEMMA LeastSubset ==
  ASSUME NEW S, IsFiniteSet(S), NEW T, T \subseteq SUBSET S, T # {}
  PROVE  \E s \in T : \A r \in T : r \subseteq s => r = s
<1>1. IsWellFoundedOn(StrictSubsetOrdering(S), SUBSET S)
  BY FS_StrictSubsetOrderingWellFounded, FS_FiniteSubsetsOfFinite
<1>2. PICK s \in T : \A r \in T : ~(<<r, s>> \in StrictSubsetOrdering(S))
  BY <1>1, WFMin
<1> QED
  BY <1>2 DEF StrictSubsetOrdering

LEMMA MinIsLeast ==
  ASSUME NEW A, A \subseteq Nat, A # {}
  PROVE  Min(A) \in A /\ \A a \in A : Min(A) <= a
BY LeastNumber DEF Min

----------------------------------------------------------------------------
(* Sums over a set.                                                        *)

\* The element a fold takes out of a set next.
Pick(s) == CHOOSE x \in s : TRUE

\* What a fold of a sum over S computes, from the sums of smaller parts.
PartSums(g, w, S) ==
  [s \in SUBSET S |-> IF s = {} THEN 0 ELSE w[Pick(s)] + g[s \ {Pick(s)}]]

SumOf(w, S) == (CHOOSE g : g = PartSums(g, w, S))[S]

\* g[s] adds up the terms w[x] of s, for every part s of S.
Sums(g, w, S) ==
  /\ g[{}] = 0
  /\ \A s \in SUBSET S : s # {} => g[s] = w[Pick(s)] + g[s \ {Pick(s)}]

\* Two sums over S with the same terms agree.
LEMMA SumsAreUnique ==
  ASSUME NEW S, IsFiniteSet(S), NEW w, NEW g, NEW h, Sums(g, w, S), Sums(h, w, S)
  PROVE  g[S] = h[S]
<1> DEFINE T == {s \in SUBSET S : g[s] # h[s]}
<1>1. SUFFICES ASSUME T # {} PROVE FALSE
  OBVIOUS
<1>2. PICK s \in T : \A r \in T : r \subseteq s => r = s
  <2> HIDE DEF T
  <2>1. T \subseteq SUBSET S
    BY DEF T
  <2> QED
    BY <1>1, <2>1, LeastSubset
<1>3. s # {}
  BY DEF Sums
<1>4. Pick(s) \in s
  BY <1>3 DEF Pick
<1>5. s \ {Pick(s)} \notin T
  BY <1>2, <1>4
<1>6. g[s \ {Pick(s)}] = h[s \ {Pick(s)}]
  BY <1>5
<1> QED
  BY <1>3, <1>6 DEF Sums

\* Counting T by what f says of its members is a sum over what f can say.
LEMMA CountingBySum ==
  ASSUME NEW S, NEW T, IsFiniteSet(T), NEW f \in [T -> S],
         NEW s \in SUBSET S, NEW x \in s
  PROVE  Cardinality({t \in T : f[t] \in s})
           = Cardinality({t \in T : f[t] = x}) + Cardinality({t \in T : f[t] \in s \ {x}})
<1> DEFINE A == {t \in T : f[t] = x}
           B == {t \in T : f[t] \in s \ {x}}
<1>1. IsFiniteSet(A) /\ IsFiniteSet(B)
  BY FS_Subset
<1>2. A \cup B = {t \in T : f[t] \in s} /\ A \cap B = {}
  OBVIOUS
<1>3. Cardinality(A \cup B) = Cardinality(A) + Cardinality(B) - Cardinality(A \cap B)
  <2> HIDE DEF A, B
  <2> QED
    BY <1>1, FS_Union
<1>4. Cardinality(A) \in Nat /\ Cardinality(B) \in Nat
  BY <1>1, FS_CardinalityType
<1> QED
  <2> HIDE DEF A, B
  <2>1. Cardinality(A \cap B) = 0
    BY <1>2, FS_EmptySet
  <2>2. Cardinality(A \cup B) = Cardinality(A) + Cardinality(B)
    BY <1>3, <1>4, <2>1
  <2> QED
    BY <1>2, <2>2 DEF A, B

\* w[x] is how many members of T the function f sends to x.
CountsBy(w, f, T, S) ==
  /\ f \in [T -> S]
  /\ \A x \in S : w[x] = Cardinality({t \in T : f[t] = x})

\* How many members of T the function f sends into s, for every part s of S.
Counts(f, T, S) == [s \in SUBSET S |-> Cardinality({t \in T : f[t] \in s})]

\* The sum of such terms exists: it is a count.
LEMMA CountIsSum ==
  ASSUME NEW S, NEW T, IsFiniteSet(T), NEW f, NEW w, CountsBy(w, f, T, S)
  PROVE  /\ Sums(Counts(f, T, S), w, S)
         /\ Counts(f, T, S)[S] = Cardinality(T)
         /\ Counts(f, T, S) = PartSums(Counts(f, T, S), w, S)
<1> DEFINE h == [s \in SUBSET S |-> Cardinality({t \in T : f[t] \in s})]
<1>0. Counts(f, T, S) = h
  BY DEF Counts
<1>1. h[{}] = 0
  <2>1. {t \in T : f[t] \in {}} = {}
    OBVIOUS
  <2>2. h[{}] = Cardinality({t \in T : f[t] \in {}})
    OBVIOUS
  <2> QED
    BY <2>1, <2>2, FS_EmptySet
<1>2. ASSUME NEW s \in SUBSET S, s # {}
      PROVE  h[s] = w[Pick(s)] + h[s \ {Pick(s)}]
  <2>1. h[s] = Cardinality({t \in T : f[t] \in s})
        /\ h[s \ {Pick(s)}] = Cardinality({t \in T : f[t] \in s \ {Pick(s)}})
    OBVIOUS
  <2>2. Pick(s) \in s
    BY <1>2 DEF Pick
  <2> HIDE DEF h
  <2>3. Cardinality({t \in T : f[t] \in s})
          = Cardinality({t \in T : f[t] = Pick(s)})
              + Cardinality({t \in T : f[t] \in s \ {Pick(s)}})
    BY <2>2, CountingBySum DEF CountsBy
  <2> QED
    BY <2>1, <2>2, <2>3 DEF CountsBy
<1>3. h[S] = Cardinality(T)
  <2>1. {t \in T : f[t] \in S} = T
    BY DEF CountsBy
  <2>2. h[S] = Cardinality({t \in T : f[t] \in S})
    OBVIOUS
  <2> QED
    BY <2>1, <2>2
<1>4. h = [s \in SUBSET S |-> h[s]]
  OBVIOUS
<1> HIDE DEF h
<1>5. h = PartSums(h, w, S)
  BY <1>1, <1>2, <1>4 DEF PartSums
<1>6. Sums(h, w, S)
  BY <1>1, <1>2 DEF Sums
<1> QED
  BY <1>0, <1>3, <1>5, <1>6

LEMMA SumCounts ==
  ASSUME NEW S, IsFiniteSet(S), NEW T, IsFiniteSet(T), NEW f, NEW w,
         CountsBy(w, f, T, S)
  PROVE  SumOf(w, S) = Cardinality(T)
<1> DEFINE sum == CHOOSE g : g = PartSums(g, w, S)
<1>1. Sums(Counts(f, T, S), w, S) /\ Counts(f, T, S)[S] = Cardinality(T)
  BY CountIsSum
<1>2. Counts(f, T, S) = PartSums(Counts(f, T, S), w, S)
  BY CountIsSum
<1>3. sum = PartSums(sum, w, S)
  BY <1>2
<1> HIDE DEF sum
<1>4. \A s \in SUBSET S : sum[s] = IF s = {} THEN 0 ELSE w[Pick(s)] + sum[s \ {Pick(s)}]
  BY <1>3 DEF PartSums
<1>5. Sums(sum, w, S)
  BY <1>4 DEF Sums
<1>6. sum[S] = Counts(f, T, S)[S]
  BY <1>1, <1>5, SumsAreUnique
<1> QED
  BY <1>1, <1>6 DEF SumOf, sum

----------------------------------------------------------------------------
(* What is counted.                                                        *)

\* The learners of a course.
Learners(c) == {o \in Owner : o.course = c}

LEMMA LearnersFinite ==
  ASSUME NEW c
  PROVE  IsFiniteSet(Learners(c))
<1> DEFINE f == [o \in Learners(c) |-> o.user]
<1>1. f \in Injection(Learners(c), Users)
  BY DEF Injection, IsInjective, Learners, Owner
<1> HIDE DEF f
<1> QED
  BY <1>1, FS_Injection, CountingAssumption

LEMMA AnswersAreNumbers ==
  ASSUME TypeOK, NEW o, NEW x
  PROVE  AnswersOf(o, x) \subseteq Nat
BY ConstantsAssumption DEF TypeOK, AnswersOf, Answered

LEMMA BankOfExercises ==
  ASSUME TypeOK, NEW c \in Courses, NEW i \in DOMAIN catalog[c]
  PROVE  Bank(c, i) \subseteq Exercises
<1>1. IsManifest(catalog[c])
  BY ConstantsAssumption DEF TypeOK
<1> QED
  BY <1>1 DEF IsManifest, Module, Bank

LEMMA ObservedFinite ==
  ASSUME NEW c, NEW bank
  PROVE  /\ IsFiniteSet(Observed(c, bank))
         /\ Observed(c, bank)
              = {t \in Learners(c) \X (Exercises \cap bank) : AnswersOf(t[1], t[2]) # {}}
<1>1. IsFiniteSet(Learners(c) \X Exercises)
  BY LearnersFinite, CountingAssumption, FS_Product
<1>2. Observed(c, bank) \subseteq Learners(c) \X Exercises
  BY DEF Observed, Observations, Learners
<1>3. IsFiniteSet(Observed(c, bank))
  BY <1>1, <1>2, FS_Subset
<1> QED
  BY <1>3 DEF Observed, Observations, Learners

----------------------------------------------------------------------------
(* Nobody is told of fewer people than the gate.                           *)

LEMMA PeoplePractised ==
  ASSUME NEW c \in Courses, NEW bank \in SUBSET Exercises
  PROVE  Cardinality(People(Observed(c, bank)))
           <= Cardinality(UNION {Practised(c, x) : x \in bank})
<1> DEFINE P == People(Observed(c, bank))
           U == UNION {Practised(c, x) : x \in bank}
           f == [o \in P |-> o.user]
<1>1. IsFiniteSet(U)
  <2>1. U \subseteq Users
    BY DEF Practised
  <2> QED
    BY <2>1, FS_Subset, CountingAssumption
<1>2. ASSUME NEW o \in P
      PROVE  o \in Learners(c) /\ \E x \in bank : AnswersOf(o, x) # {}
  BY ObservedFinite DEF People
<1>3. ASSUME NEW o \in P PROVE o.user \in U
  <2>1. PICK x \in bank : AnswersOf(o, x) # {}
    BY <1>2
  <2>2. PICK a \in AnswersOf(o, x) : TRUE
    BY <2>1
  <2>3. o = [user |-> o.user, course |-> c] /\ o.user \in Users
    BY <1>2 DEF Learners, Owner
  <2>4. o.user \in Practised(c, x)
    BY <2>2, <2>3 DEF AnswersOf, Answered, Practised
  <2> QED
    BY <2>4
<1>4. f \in Injection(P, U)
  <2>1. \A o, p \in P : o.user = p.user => o = p
    BY <1>2 DEF Learners, Owner
  <2>2. f \in [P -> U]
    BY <1>3
  <2> HIDE DEF P, U
  <2> QED
    BY <2>1, <2>2 DEF Injection, IsInjective
<1> QED
  <2> HIDE DEF P, U, f
  <2>1. Cardinality(P) <= Cardinality(U)
    BY <1>1, <1>4, FS_Injection
  <2> QED
    BY <2>1 DEF P, U

LEMMA TypedPanelsArePrivate == TypeOK => PanelsArePrivate
<1> SUFFICES ASSUME TypeOK, NEW c \in Courses
             PROVE  /\ \A x \in ExercisePanels(c) :
                         Cardinality(Practised(c, x)) >= MinLearnersForGlobal
                    /\ \A i \in ModulePanels(c) :
                         Cardinality(UNION {Practised(c, x) : x \in Bank(c, i)})
                           >= MinLearnersForGlobal
  BY DEF PanelsArePrivate
<1>1. ASSUME NEW bank \in SUBSET Exercises, Renders(Observed(c, bank))
      PROVE  Cardinality(UNION {Practised(c, x) : x \in bank}) >= MinLearnersForGlobal
  <2> DEFINE U == UNION {Practised(c, x) : x \in bank}
             P == People(Observed(c, bank))
  <2>1. IsFiniteSet(U)
    <3>1. U \subseteq Users
      BY DEF Practised
    <3> QED
      BY <3>1, FS_Subset, CountingAssumption
  <2>2. Cardinality(P) <= Cardinality(U) /\ Cardinality(P) >= MinLearnersForGlobal
    BY <1>1, PeoplePractised DEF Renders
  <2>3. IsFiniteSet(P)
    <3>1. P \subseteq Learners(c)
      BY ObservedFinite DEF People
    <3> QED
      BY <3>1, LearnersFinite, FS_Subset
  <2>4. Cardinality(P) \in Nat /\ Cardinality(U) \in Nat
    BY <2>1, <2>3, FS_CardinalityType
  <2> HIDE DEF U, P
  <2>5. Cardinality(U) >= MinLearnersForGlobal
    BY <2>2, <2>4, StatsAssumption
  <2> QED
    BY <2>5 DEF U
<1>2. ASSUME NEW x \in ExercisePanels(c)
      PROVE  Cardinality(Practised(c, x)) >= MinLearnersForGlobal
  <2>1. x \in Exercises
    BY BankOfExercises DEF ExercisePanels, Playable, Bank
  <2>2. UNION {Practised(c, y) : y \in {x}} = Practised(c, x)
    OBVIOUS
  <2>3. Cardinality(UNION {Practised(c, y) : y \in {x}}) >= MinLearnersForGlobal
    BY <1>1, <2>1 DEF ExercisePanels
  <2> QED
    BY <2>2, <2>3
<1>3. ASSUME NEW i \in ModulePanels(c)
      PROVE  Cardinality(UNION {Practised(c, x) : x \in Bank(c, i)}) >= MinLearnersForGlobal
  BY <1>1, BankOfExercises DEF ModulePanels
<1> QED
  BY <1>2, <1>3

\* No row about everyone rests on fewer people than the gate: whoever a
\* panel counts is a learner who answered in practice, in every state the
\* practice and exam routes reach (stats/service.py, global_stats).
THEOREM FiguresStayPrivate == Spec => []PanelsArePrivate
<1>1. Spec => []TypeOK
  BY LanesTypeCorrect
<1> QED
  BY <1>1, TypedPanelsArePrivate, PTL

----------------------------------------------------------------------------
(* The panel of a module and the rows of its learners.                     *)

LEMMA RowCounts ==
  ASSUME TypeOK, NEW o, NEW i
  PROVE  /\ ModuleRow(o, i).firstSeen = Cardinality(SeenIn(o, i))
         /\ ModuleRow(o, i).firstCorrect
              = Cardinality({x \in SeenIn(o, i) : FirstCorrect(AnswersOf(o, x))})
<1>1. ModuleRow(o, i).firstSeen = Cardinality(SeenIn(o, i))
  BY DEF ModuleRow
<1>2. ModuleRow(o, i).firstCorrect
        = Cardinality({x \in SeenIn(o, i) : Roll(AnswersOf(o, x)).first})
  <2>1. {x \in SeenIn(o, i) : [y \in SeenIn(o, i) |-> Roll(AnswersOf(o, y))][x].first}
          = {x \in SeenIn(o, i) : Roll(AnswersOf(o, x)).first}
    OBVIOUS
  <2>2. ModuleRow(o, i).firstCorrect = Cardinality(
          {x \in SeenIn(o, i) : [y \in SeenIn(o, i) |-> Roll(AnswersOf(o, y))][x].first})
    BY DEF ModuleRow
  <2> QED
    BY <2>1, <2>2
<1>3. ASSUME NEW x \in SeenIn(o, i)
      PROVE  Roll(AnswersOf(o, x)).first <=> FirstCorrect(AnswersOf(o, x))
  <2>1. Min(AnswersOf(o, x)) \in AnswersOf(o, x)
    BY AnswersAreNumbers, MinIsLeast DEF SeenIn
  <2>2. Roll(AnswersOf(o, x)).first <=> Min(AnswersOf(o, x)) \in Correct(AnswersOf(o, x))
    BY DEF Roll
  <2> QED
    BY <2>1, <2>2 DEF Correct, FirstCorrect
<1>4. {x \in SeenIn(o, i) : Roll(AnswersOf(o, x)).first}
        = {x \in SeenIn(o, i) : FirstCorrect(AnswersOf(o, x))}
  BY <1>3
<1> QED
  BY <1>1, <1>2, <1>4

\* Of the observations that Q picks out, those of one learner, and the
\* exercises they are about.
OwnOf(Q, o) == {t \in Q : t[1] = o}
OwnSeen(Q, o, i) == {x \in SeenIn(o, i) : <<o, x>> \in Q}

LEMMA OwnObservations ==
  ASSUME TypeOK, NEW c \in Courses, NEW i \in DOMAIN catalog[c],
         NEW o \in Learners(c), NEW Q, Q \subseteq Observed(c, Bank(c, i))
  PROVE  Cardinality(OwnOf(Q, o)) = Cardinality(OwnSeen(Q, o, i))
<1> DEFINE T == {t \in Q : t[1] = o}
           X == {x \in SeenIn(o, i) : <<o, x>> \in Q}
           f == [x \in X |-> <<o, x>>]
<1>1. ASSUME NEW t \in T
      PROVE  t = <<o, t[2]>> /\ t[2] \in SeenIn(o, i)
  <2>1. o.course = c
    BY DEF Learners
  <2>2. t \in Learners(c) \X (Exercises \cap Bank(c, i)) /\ AnswersOf(t[1], t[2]) # {}
    BY ObservedFinite
  <2> QED
    BY <2>1, <2>2 DEF SeenIn
<1>2. f \in [X -> T]
  OBVIOUS
<1>3. \A x, y \in X : f[x] = f[y] => x = y
  OBVIOUS
<1>4. \A t \in T : \E x \in X : f[x] = t
  BY <1>1
<1>5. IsFiniteSet(T)
  BY ObservedFinite, FS_Subset
<1>6. f \in Injection(X, T) /\ f \in Surjection(X, T)
  <2> HIDE DEF f, X, T
  <2> QED
    BY <1>2, <1>3, <1>4 DEF Injection, IsInjective, Surjection
<1> QED
  <2> HIDE DEF f, X, T
  <2>1. Cardinality(X) = Cardinality(T)
    BY <1>5, <1>6, FS_Injection
  <2> QED
    BY <2>1 DEF X, T, OwnOf, OwnSeen

LEMMA Seen ==
  ASSUME TypeOK, NEW c \in Courses, NEW i \in DOMAIN catalog[c],
         NEW o \in Learners(c), NEW x \in SeenIn(o, i)
  PROVE  <<o, x>> \in Observed(c, Bank(c, i))
<1>1. x \in Exercises /\ x \in Bank(c, i) /\ AnswersOf(o, x) # {}
  BY BankOfExercises DEF SeenIn, Learners
<1> QED
  BY <1>1, ObservedFinite



\* The terms w, one for each learner of a course, add up to a count of
\* observations.
LEMMA RowsAddUp ==
  ASSUME NEW c, NEW Q, IsFiniteSet(Q), \A t \in Q : t[1] \in Learners(c),
         NEW w, \A o \in Learners(c) : w[o] = Cardinality(OwnOf(Q, o))
  PROVE  SumOf(w, Learners(c)) = Cardinality(Q)
<1> DEFINE f == [t \in Q |-> t[1]]
<1>1. f \in [Q -> Learners(c)]
  OBVIOUS
<1>2. \A o \in Learners(c) : {t \in Q : f[t] = o} = OwnOf(Q, o)
  BY DEF OwnOf
<1> HIDE DEF f
<1>3. CountsBy(w, f, Q, Learners(c))
  BY <1>1, <1>2 DEF CountsBy
<1> QED
  BY <1>3, LearnersFinite, SumCounts

LEMMA TypedPanelsAgree == TypeOK => PanelsAgree
<1> SUFFICES ASSUME TypeOK, NEW c \in Courses, NEW i \in DOMAIN catalog[c]
             PROVE  LET own == {o \in Owner : o.course = c}
                        panel == Panel(c, Bank(c, i))
                    IN  /\ panel.firstSeen
                             = MapThenSumSet(LAMBDA o : ModuleRow(o, i).firstSeen, own)
                        /\ panel.firstCorrect
                             = MapThenSumSet(LAMBDA o : ModuleRow(o, i).firstCorrect, own)
  BY DEF PanelsAgree
<1> DEFINE obs == Observed(c, Bank(c, i))
           first == {t \in obs : FirstCorrect(AnswersOf(t[1], t[2]))}
           seen == [o \in Learners(c) |-> ModuleRow(o, i).firstSeen]
           correct == [o \in Learners(c) |-> ModuleRow(o, i).firstCorrect]
<1>1. Panel(c, Bank(c, i)).firstSeen = Cardinality(obs)
      /\ Panel(c, Bank(c, i)).firstCorrect = Cardinality(first)
  BY DEF Panel
<1>2. IsFiniteSet(obs) /\ IsFiniteSet(first)
      /\ (\A t \in obs : t[1] \in Learners(c)) /\ (\A t \in first : t[1] \in Learners(c))
  <2>1. IsFiniteSet(obs) /\ \A t \in obs : t[1] \in Learners(c)
    BY ObservedFinite
  <2>2. IsFiniteSet(first)
    <3>1. first \subseteq obs
      OBVIOUS
    <3> HIDE DEF obs, first
    <3> QED
      BY <2>1, <3>1, FS_Subset
  <2> QED
    BY <2>1, <2>2
<1>3. ASSUME NEW o \in Learners(c)
      PROVE  /\ seen[o] = Cardinality(OwnOf(obs, o))
             /\ correct[o] = Cardinality(OwnOf(first, o))
  <2>1. seen[o] = Cardinality(SeenIn(o, i))
        /\ correct[o] = Cardinality({x \in SeenIn(o, i) : FirstCorrect(AnswersOf(o, x))})
    BY RowCounts
  <2>2. OwnSeen(obs, o, i) = SeenIn(o, i)
        /\ OwnSeen(first, o, i) = {x \in SeenIn(o, i) : FirstCorrect(AnswersOf(o, x))}
    BY Seen DEF OwnSeen
  <2>3. obs \subseteq Observed(c, Bank(c, i)) /\ first \subseteq Observed(c, Bank(c, i))
    OBVIOUS
  <2>4. Cardinality(OwnOf(obs, o)) = Cardinality(OwnSeen(obs, o, i))
    <3> HIDE DEF obs
    <3> QED
      BY <2>3, OwnObservations
  <2>5. Cardinality(OwnOf(first, o)) = Cardinality(OwnSeen(first, o, i))
    <3> HIDE DEF first
    <3> QED
      BY <2>3, OwnObservations
  <2> QED
    BY <2>1, <2>2, <2>4, <2>5
<1>4. SumOf(seen, Learners(c)) = Cardinality(obs)
      /\ SumOf(correct, Learners(c)) = Cardinality(first)
  <2> HIDE DEF obs, first, seen, correct
  <2> QED
    BY <1>2, <1>3, RowsAddUp
<1>5. MapThenSumSet(LAMBDA o : ModuleRow(o, i).firstSeen, Learners(c))
        = SumOf(seen, Learners(c))
  <2> DEFINE row(g) == [s \in SUBSET Learners(c) |->
        IF s = {} THEN 0 ELSE ModuleRow(Pick(s), i).firstSeen + g[s \ {Pick(s)}]]
  <2>1. \A s \in SUBSET Learners(c) : s # {} =>
          seen[Pick(s)] = ModuleRow(Pick(s), i).firstSeen
    BY DEF Pick
  <2>2. ASSUME NEW g PROVE row(g) = PartSums(g, seen, Learners(c))
    <3> HIDE DEF seen
    <3> QED
      BY <2>1 DEF PartSums
  <2>3. MapThenSumSet(LAMBDA o : ModuleRow(o, i).firstSeen, Learners(c))
          = (CHOOSE g : g = row(g))[Learners(c)]
    BY DEF MapThenSumSet, MapThenFoldSet, Pick
  <2>4. (CHOOSE g : g = row(g)) = (CHOOSE g : g = PartSums(g, seen, Learners(c)))
    <3> HIDE DEF row, seen
    <3> QED
      BY <2>2
  <2> QED
    BY <2>3, <2>4 DEF SumOf
<1>6. MapThenSumSet(LAMBDA o : ModuleRow(o, i).firstCorrect, Learners(c))
        = SumOf(correct, Learners(c))
  <2> DEFINE row(g) == [s \in SUBSET Learners(c) |->
        IF s = {} THEN 0 ELSE ModuleRow(Pick(s), i).firstCorrect + g[s \ {Pick(s)}]]
  <2>1. \A s \in SUBSET Learners(c) : s # {} =>
          correct[Pick(s)] = ModuleRow(Pick(s), i).firstCorrect
    BY DEF Pick
  <2>2. ASSUME NEW g PROVE row(g) = PartSums(g, correct, Learners(c))
    <3> HIDE DEF correct
    <3> QED
      BY <2>1 DEF PartSums
  <2>3. MapThenSumSet(LAMBDA o : ModuleRow(o, i).firstCorrect, Learners(c))
          = (CHOOSE g : g = row(g))[Learners(c)]
    BY DEF MapThenSumSet, MapThenFoldSet, Pick
  <2>4. (CHOOSE g : g = row(g)) = (CHOOSE g : g = PartSums(g, correct, Learners(c)))
    <3> HIDE DEF row, correct
    <3> QED
      BY <2>2
  <2> QED
    BY <2>3, <2>4 DEF SumOf
<1> QED
  BY <1>1, <1>4, <1>5, <1>6 DEF Learners

\* The panel of a module adds up to what its learners are told one by one:
\* the same first answers are counted, from the side of the module and from
\* the side of each learner, in every state the routes reach
\* (stats/service.py, me_stats and global_stats).
THEOREM FiguresAgree == Spec => []PanelsAgree
<1>1. Spec => []TypeOK
  BY LanesTypeCorrect
<1> QED
  BY <1>1, TypedPanelsAgree, PTL
============================================================================
