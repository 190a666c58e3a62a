-------------------------- MODULE ExercisesProofs --------------------------
(***************************************************************************)
(* What loading a course guarantees, and what is drawn on a page, for      *)
(* every course, seed, injector and chart length.                          *)
(*                                                                         *)
(* A chart is never expanded in a proof about a page: a lemma for each     *)
(* injector says what its charts look like (Shaped, Marked), and the rest  *)
(* follows from that.  Flattening a list of lists is a fold, a recursive   *)
(* function; what it computes is proved by a least counterexample among    *)
(* the lengths of the list.                                                *)
(***************************************************************************)
EXTENDS Exercises, FiniteSetTheorems, TLAPS

----------------------------------------------------------------------------
(* Lists.                                                                  *)

LEMMA LeastNumber ==
  ASSUME NEW T, T \subseteq Nat, T # {}
  PROVE  \E m \in T : \A k \in T : m <= k
<1>1. IsWellFoundedOn(OpToRel(<, Nat), Nat)
  BY NatLessThanWellFounded
<1>2. PICK m \in T : \A k \in T : ~(<<k, m>> \in OpToRel(<, Nat))
  BY <1>1, WFMin
<1>3. ASSUME NEW k \in T PROVE ~(k < m)
  BY <1>2, <1>3, Zenon DEF OpToRel
<1>4. ASSUME NEW k \in T PROVE m <= k
  <2>1. k \in Nat /\ m \in Nat
    OBVIOUS
  <2>2. ~(k < m)
    BY <1>3
  <2> QED
    BY <2>1, <2>2
<1> QED
  BY <1>2, <1>4

\* What flattening the first m lists of s computes, one list after another.
Joins(g, s, m) ==
  \A i \in 1..m : g[i] = IF i = 1 THEN s[i] ELSE g[i - 1] \o s[i]

LEMMA JoinExists ==
  ASSUME NEW X, NEW s \in Seq(Seq(X)), NEW n \in 0..Len(s)
  PROVE  \E g \in [1..n -> Seq(X)] : Joins(g, s, n)
<1> DEFINE Good(m) == \E g \in [1..m -> Seq(X)] : Joins(g, s, m)
           Bad == {m \in 0..Len(s) : ~Good(m)}
<1>1. SUFFICES ASSUME Bad # {} PROVE FALSE
  OBVIOUS
<1>2. PICK m \in Bad : \A k \in Bad : m <= k
  <2>1. Bad \subseteq Nat
    OBVIOUS
  <2> HIDE DEF Bad
  <2> QED
    BY <1>1, <2>1, LeastNumber
<1>3. m # 0
  <2>1. [i \in 1..0 |-> << >>] \in [1..0 -> Seq(X)] /\ Joins([i \in 1..0 |-> << >>], s, 0)
    BY DEF Joins
  <2> QED
    BY <2>1
<1>4. m - 1 \in 0..Len(s) /\ m - 1 \notin Bad /\ m \in 1..Len(s)
  <2>1. m \in Nat /\ m - 1 \in 0..Len(s) /\ m \in 1..Len(s)
    <3> m \in 0..Len(s) /\ Len(s) \in Nat
      OBVIOUS
    <3> HIDE DEF Bad
    <3> QED
      BY <1>3
  <2>2. m - 1 \notin Bad
    <3> HIDE DEF Bad
    <3> QED
      BY <1>2, <2>1
  <2> QED
    BY <2>1, <2>2
<1>5. PICK g \in [1..(m - 1) -> Seq(X)] : Joins(g, s, m - 1)
  BY <1>4
<1> DEFINE h == [i \in 1..m |-> IF i < m THEN g[i] ELSE IF m = 1 THEN s[1] ELSE g[m - 1] \o s[m]]
<1>6. s[m] \in Seq(X) /\ s[1] \in Seq(X)
  BY <1>4
<1>7. h \in [1..m -> Seq(X)]
  <2>1. m # 1 => g[m - 1] \in Seq(X)
    BY <1>4
  <2>2. m # 1 => g[m - 1] \o s[m] \in Seq(X)
    BY <1>6, <2>1
  <2>3. \A i \in 1..m : i < m => g[i] \in Seq(X)
    BY <1>4
  <2> QED
    BY <1>6, <2>2, <2>3
<1>8. Joins(h, s, m)
  <2> SUFFICES ASSUME NEW i \in 1..m
               PROVE  h[i] = IF i = 1 THEN s[i] ELSE h[i - 1] \o s[i]
    BY DEF Joins
  <2>1. m \in Nat /\ i \in Nat
    BY <1>4
  <2>2. CASE i < m
    <3>1. g[i] = IF i = 1 THEN s[i] ELSE g[i - 1] \o s[i]
      <4>1. i \in 1..(m - 1)
        BY <2>1, <2>2
      <4> QED
        BY <1>5, <4>1 DEF Joins
    <3>2. h[i] = g[i] /\ (i # 1 => h[i - 1] = g[i - 1])
      BY <2>1, <2>2
    <3> QED
      BY <3>1, <3>2
  <2>3. CASE i = m
    <3>1. m # 1 => h[m - 1] = g[m - 1]
      BY <2>1
    <3>2. h[m] = IF m = 1 THEN s[1] ELSE g[m - 1] \o s[m]
      BY <2>1
    <3> QED
      BY <2>3, <3>1, <3>2
  <2> QED
    BY <2>1, <2>2, <2>3
<1> QED
  BY <1>7, <1>8

LEMMA FlattenIsList ==
  ASSUME NEW X, NEW s \in Seq(Seq(X))
  PROVE  FlattenSeq(s) \in Seq(X)
<1>1. CASE Len(s) = 0
  BY <1>1 DEF FlattenSeq
<1>2. CASE Len(s) # 0
  <2> DEFINE rec(g) == [i \in 1..Len(s) |-> IF i = 1 THEN s[i] ELSE g[i - 1] \o s[i]]
             flatten == CHOOSE g : g = rec(g)
  <2>1. PICK g \in [1..Len(s) -> Seq(X)] : Joins(g, s, Len(s))
    BY JoinExists
  <2>2. g = rec(g)
    BY <2>1 DEF Joins
  <2>3. flatten = rec(flatten)
    BY <2>2
  <2>4. FlattenSeq(s) = flatten[Len(s)]
    BY <1>2 DEF FlattenSeq
  <2> DEFINE Bad == {i \in 1..Len(s) : flatten[i] \notin Seq(X)}
  <2> HIDE DEF flatten
  <2>5. \A i \in 1..Len(s) : flatten[i] = IF i = 1 THEN s[i] ELSE flatten[i - 1] \o s[i]
    BY <2>3
  <2>6. Bad = {}
    <3>1. SUFFICES ASSUME Bad # {} PROVE FALSE
      OBVIOUS
    <3>2. PICK i \in Bad : \A k \in Bad : i <= k
      <4>1. Bad \subseteq Nat
        OBVIOUS
      <4> HIDE DEF Bad
      <4> QED
        BY <3>1, <4>1, LeastNumber
    <3>3. i \in 1..Len(s) /\ s[i] \in Seq(X) /\ flatten[i] \notin Seq(X)
      OBVIOUS
    <3>4. i # 1
      BY <2>5, <3>3
    <3>5. i - 1 \in 1..Len(s) /\ ~(i <= i - 1)
      BY <3>3, <3>4
    <3>6. flatten[i - 1] \in Seq(X)
      BY <3>2, <3>5
    <3>7. flatten[i] = flatten[i - 1] \o s[i]
      BY <2>5, <3>3, <3>4
    <3> QED
      BY <3>3, <3>6, <3>7
  <2> QED
    BY <1>2, <2>4, <2>6
<1> QED
  BY <1>1, <1>2

\* The lists within the members of a list, one after another.
LEMMA FlatMapIsList ==
  ASSUME NEW X, NEW s, IsList(s), NEW f,
         f = [i \in DOMAIN s |-> f[i]], \A i \in DOMAIN s : f[i] \in Seq(X)
  PROVE  FlattenSeq(f) \in Seq(X)
<1>1. DOMAIN s = 1..Len(s) /\ Len(s) \in Nat
  BY DEF IsList
<1>2. f \in Seq(Seq(X))
  BY <1>1
<1> QED
  BY <1>2, FlattenIsList

----------------------------------------------------------------------------
(* Names.                                                                  *)

LEMMA InjectiveParts ==
  ASSUME NEW X, NEW s \in Seq(X), NEW t \in Seq(X), IsInjective(s \o t)
  PROVE  s \o t \in Seq(X) /\ IsInjective(s) /\ IsInjective(t)
<1> DEFINE st == s \o t
<1>1. /\ DOMAIN s = 1..Len(s) /\ DOMAIN t = 1..Len(t)
      /\ DOMAIN st = 1..(Len(s) + Len(t))
      /\ Len(s) \in Nat /\ Len(t) \in Nat
      /\ \A i \in 1..Len(s) : st[i] = s[i]
      /\ \A i \in 1..Len(t) : st[Len(s) + i] = t[i]
  OBVIOUS
<1>2. \A i, j \in DOMAIN st : st[i] = st[j] => i = j
  BY DEF IsInjective
<1> HIDE DEF st
<1>3. IsInjective(s)
  BY <1>1, <1>2 DEF IsInjective
<1>4. ASSUME NEW i \in DOMAIN t, NEW j \in DOMAIN t, t[i] = t[j] PROVE i = j
  <2>1. i \in Nat /\ j \in Nat /\ Len(s) + i \in DOMAIN st /\ Len(s) + j \in DOMAIN st
    BY <1>1
  <2>2. st[Len(s) + i] = st[Len(s) + j]
    BY <1>1, <1>4
  <2>3. Len(s) + i = Len(s) + j
    BY <1>2, <2>1, <2>2
  <2> QED
    BY <1>1, <2>1, <2>3
<1> QED
  BY <1>3, <1>4 DEF IsInjective

\* An id and a key of a list lead to each other when neither occurs twice.
RoundTrip(list) ==
  \A e \in ToSet(list) : KeysById(list)[e.id] = Keyed(e) /\ IdsByKey(list)[Keyed(e)] = e.id

LEMMA NamesLeadBack ==
  ASSUME NEW X, NEW list \in Seq(X), IsInjective(IdsOf(list)), IsInjective(Keys(list))
  PROVE  RoundTrip(list)
<1>1. \A i, j \in DOMAIN list : /\ list[i].id = list[j].id => i = j
                                /\ Keyed(list[i]) = Keyed(list[j]) => i = j
  BY DEF IdsOf, Keys, IsInjective
<1>2. DOMAIN list \subseteq Int
  OBVIOUS
<1>3. ASSUME NEW i \in Int PROVE Max({i}) = i
  BY DEF Max
<1>4. ASSUME NEW i \in DOMAIN list
      PROVE  /\ KeysById(list)[list[i].id] = Keyed(list[i])
             /\ IdsByKey(list)[Keyed(list[i])] = list[i].id
  <2>1. {j \in DOMAIN list : list[j].id = list[i].id} = {i}
        /\ {j \in DOMAIN list : Keyed(list[j]) = Keyed(list[i])} = {i}
    BY <1>1
  <2>2. KeysById(list)[list[i].id]
          = Keyed(list[Max({j \in DOMAIN list : list[j].id = list[i].id})])
    BY DEF KeysById, Index, IdOf
  <2>3. IdsByKey(list)[Keyed(list[i])]
          = list[Max({j \in DOMAIN list : Keyed(list[j]) = Keyed(list[i])})].id
    BY DEF IdsByKey, Index, IdOf
  <2> QED
    BY <1>2, <1>3, <2>1, <2>2, <2>3
<1> QED
  BY <1>4 DEF RoundTrip, ToSet

----------------------------------------------------------------------------
(* The views of a manifest.                                                *)

LEMMA ListMembers ==
  ASSUME NEW s, IsList(s)
  PROVE  DOMAIN s = 1..Len(s) /\ Len(s) \in Nat /\ ToSet(s) = {s[i] : i \in DOMAIN s}
BY DEF IsList, ToSet

LEMMA ListIn ==
  ASSUME NEW X, NEW s, IsList(s), ToSet(s) \subseteq X
  PROVE  s \in Seq(X)
BY DEF IsList, ToSet

LEMMA ViewsAreLists ==
  ASSUME NEW course, Parsed(course)
  PROVE  LET m == course.manifest
         IN  /\ \E X : IterModules(m) \in Seq(X)
             /\ \E X : IterLessons(m) \in Seq(X)
             /\ \E X : IterExercises(m) \in Seq(X)
<1> DEFINE m == course.manifest
           ModulesIn == UNION {ToSet(b.modules) : b \in ToSet(m.blocks)}
           LessonsIn == UNION {ToSet(x.lessons) : x \in ModulesIn}
           ExercisesIn == UNION {ToSet(x.exercises) : x \in LessonsIn}
<1>1. /\ IsList(m.blocks)
      /\ \A b \in ToSet(m.blocks) : IsList(b.modules)
      /\ \A x \in ModulesIn : IsList(x.lessons)
      /\ \A x \in LessonsIn : IsList(x.exercises)
  BY DEF Parsed
<1>2. IterModules(m) \in Seq(ModulesIn)
  <2> DEFINE f == [b \in DOMAIN m.blocks |-> m.blocks[b].modules]
  <2>1. ASSUME NEW b \in DOMAIN m.blocks PROVE f[b] \in Seq(ModulesIn)
    <3>1. m.blocks[b] \in ToSet(m.blocks)
      BY DEF ToSet
    <3>2. IsList(m.blocks[b].modules) /\ ToSet(m.blocks[b].modules) \subseteq ModulesIn
      BY <1>1, <3>1
    <3> HIDE DEF ModulesIn
    <3>3. m.blocks[b].modules \in Seq(ModulesIn)
      BY <3>2, ListIn
    <3> QED
      BY <3>3
  <2>2. f = [b \in DOMAIN m.blocks |-> f[b]]
    OBVIOUS
  <2> HIDE DEF ModulesIn, f
  <2>3. FlattenSeq(f) \in Seq(ModulesIn)
    BY <1>1, <2>1, <2>2, FlatMapIsList
  <2> QED
    BY <2>3 DEF IterModules, f
<1>3. IterLessons(m) \in Seq(LessonsIn)
  <2> DEFINE s == IterModules(m)
             f == [i \in DOMAIN s |-> s[i].lessons]
  <2>0. IsList(s)
    BY <1>2 DEF IsList, ToSet
  <2>1. ASSUME NEW i \in DOMAIN s PROVE f[i] \in Seq(LessonsIn)
    <3>1. s[i] \in ModulesIn
      BY <1>2
    <3>2. IsList(s[i].lessons) /\ ToSet(s[i].lessons) \subseteq LessonsIn
      BY <1>1, <3>1
    <3> HIDE DEF LessonsIn
    <3>3. s[i].lessons \in Seq(LessonsIn)
      BY <3>2, ListIn
    <3> QED
      BY <3>3
  <2>2. f = [i \in DOMAIN s |-> f[i]]
    OBVIOUS
  <2> HIDE DEF LessonsIn, f
  <2>3. FlattenSeq(f) \in Seq(LessonsIn)
    BY <2>0, <2>1, <2>2, FlatMapIsList
  <2> QED
    BY <2>3 DEF IterLessons, f
<1>4. IterExercises(m) \in Seq(ExercisesIn)
  <2> DEFINE s == IterLessons(m)
             f == [i \in DOMAIN s |-> s[i].exercises]
  <2>0. IsList(s)
    BY <1>3 DEF IsList, ToSet
  <2>1. ASSUME NEW i \in DOMAIN s PROVE f[i] \in Seq(ExercisesIn)
    <3>1. s[i] \in LessonsIn
      BY <1>3
    <3>2. IsList(s[i].exercises) /\ ToSet(s[i].exercises) \subseteq ExercisesIn
      BY <1>1, <3>1
    <3> HIDE DEF ExercisesIn
    <3>3. s[i].exercises \in Seq(ExercisesIn)
      BY <3>2, ListIn
    <3> QED
      BY <3>3
  <2>2. f = [i \in DOMAIN s |-> f[i]]
    OBVIOUS
  <2> HIDE DEF ExercisesIn, f
  <2>3. FlattenSeq(f) \in Seq(ExercisesIn)
    BY <2>0, <2>1, <2>2, FlatMapIsList
  <2> QED
    BY <2>3 DEF IterExercises, f
<1> QED
  BY <1>2, <1>3, <1>4

LEMMA InjectiveLevels ==
  ASSUME NEW a, NEW b, NEW c, NEW d, NEW e,
         IsList(a), IsList(b), IsList(c), IsList(d), IsList(e),
         IsInjective(a \o b \o c \o d \o e)
  PROVE  IsInjective(c) /\ IsInjective(d) /\ IsInjective(e)
<1> DEFINE X == ToSet(a) \cup ToSet(b) \cup ToSet(c) \cup ToSet(d) \cup ToSet(e)
<1>1. a \in Seq(X) /\ b \in Seq(X) /\ c \in Seq(X) /\ d \in Seq(X) /\ e \in Seq(X)
  BY ListIn
<1> HIDE DEF X
<1> DEFINE ab == a \o b
           abc == ab \o c
           abcd == abc \o d
<1>2. ab \in Seq(X) /\ abc \in Seq(X) /\ abcd \in Seq(X)
  BY <1>1
<1>3. IsInjective(abcd \o e)
  OBVIOUS
<1>4. IsInjective(abcd) /\ IsInjective(e)
  <2> HIDE DEF abcd
  <2> QED
    BY <1>1, <1>2, <1>3, InjectiveParts
<1>5. IsInjective(abc) /\ IsInjective(d)
  <2>1. IsInjective(abc \o d)
    BY <1>4
  <2> HIDE DEF abc
  <2> QED
    BY <1>1, <1>2, <2>1, InjectiveParts
<1>6. IsInjective(c)
  <2>1. IsInjective(ab \o c)
    BY <1>5
  <2> HIDE DEF ab
  <2> QED
    BY <1>1, <1>2, <2>1, InjectiveParts
<1> QED
  BY <1>4, <1>5, <1>6

LEMMA NamesAreList ==
  ASSUME NEW X, NEW list \in Seq(X)
  PROVE  IsList(IdsOf(list)) /\ IsList(Keys(list))
BY DEF IsList, IdsOf, Keys, ToSet

\* What is unique in a manifest as a whole is unique in each of its levels.
LEMMA LevelNames ==
  ASSUME NEW course, Parsed(course), Unique(course.manifest)
  PROVE  LET m == course.manifest
         IN  \A list \in {IterModules(m), IterLessons(m), IterExercises(m)} :
               IsInjective(IdsOf(list)) /\ IsInjective(Keys(list))
<1> DEFINE m == course.manifest
           M == IterModules(m)
           L == IterLessons(m)
           E == IterExercises(m)
<1>1. PICK X, Y, Z, W : M \in Seq(X) /\ L \in Seq(Y) /\ E \in Seq(Z) /\ m.blocks \in Seq(W)
  BY ViewsAreLists DEF Parsed, IsList
<1>2. IsInjective(<<m.id>> \o IdsOf(m.blocks) \o IdsOf(M) \o IdsOf(L) \o IdsOf(E))
      /\ IsInjective(<<m.id>> \o IdsOf(m.blocks) \o Keys(M) \o Keys(L) \o Keys(E))
  BY DEF Unique
<1>3. /\ IsList(<<m.id>>) /\ IsList(IdsOf(m.blocks))
      /\ IsList(IdsOf(M)) /\ IsList(IdsOf(L)) /\ IsList(IdsOf(E))
      /\ IsList(Keys(M)) /\ IsList(Keys(L)) /\ IsList(Keys(E))
  <2>1. IsList(<<m.id>>)
    BY DEF IsList, ToSet
  <2> HIDE DEF m, M, L, E
  <2> QED
    BY <1>1, <2>1, NamesAreList
<1>4. /\ IsInjective(IdsOf(M)) /\ IsInjective(IdsOf(L)) /\ IsInjective(IdsOf(E))
      /\ IsInjective(Keys(M)) /\ IsInjective(Keys(L)) /\ IsInjective(Keys(E))
  <2> HIDE DEF m, M, L, E
  <2> QED
    BY <1>2, <1>3, InjectiveLevels
<1> QED
  BY <1>4

----------------------------------------------------------------------------
(* What a valid course promises its readers.                               *)

LEMMA DistinctIds ==
  ASSUME NEW list, IsList(list), Distinct(list)
  PROVE  \A i, j \in DOMAIN list : list[i].id = list[j].id => i = j
<1> DEFINE f == [i \in DOMAIN list |-> list[i].id]
<1>1. DOMAIN list = 1..Len(list) /\ Len(list) \in Nat
  BY ListMembers
<1>2. IsFiniteSet(DOMAIN list) /\ Cardinality(DOMAIN list) = Len(list)
  <2>1. IsFiniteSet(1..Len(list))
        /\ Cardinality(1..Len(list)) = IF 1 > Len(list) THEN 0 ELSE Len(list) - 1 + 1
    BY <1>1, FS_Interval
  <2> QED
    BY <1>1, <2>1
<1>3. f \in Surjection(DOMAIN list, Ids(list))
  BY DEF Surjection, Ids
<1>4. Cardinality(DOMAIN list) = Cardinality(Ids(list))
  BY <1>2 DEF Distinct
<1>5. f \in Injection(DOMAIN list, Ids(list))
  <2> HIDE DEF f
  <2> QED
    BY <1>2, <1>3, <1>4, FS_SurjSameCardinalityImpliesInj
<1> QED
  BY <1>5 DEF Injection, IsInjective

\* Some of the texts of a course.
LEMMA TextsContain ==
  ASSUME NEW course
  PROVE  LET m == course.manifest
         IN  /\ m.title \in Texts(course)
             /\ \A b \in ToSet(m.blocks) : b.title \in Texts(course)
             /\ \A x \in ToSet(IterModules(m)) \cup ToSet(IterLessons(m)) :
                  x.title \in Texts(course) /\ x.summary \in Texts(course)
             /\ \A id \in DOMAIN course.configs : course.configs[id].prompt \in Texts(course)
             /\ \A t \in ToSet(course.glossary) : TermTexts(t) \subseteq Texts(course)
BY DEF Texts

LEMMA CourseCanBeRead ==
  ASSUME NEW course, ValidCourse(course), NEW l \in Languages(course)
  PROVE  CourseReads(course, l)
<1> DEFINE m == course.manifest
<1>1. \A text \in Texts(course) : l \in text
  BY DEF ValidCourse, LanguagesAgree
<1>2. l \in m.title /\ \A b \in ToSet(m.blocks) : l \in b.title
  BY <1>1, TextsContain
<1>3. \A x \in ToSet(IterModules(m)) \cup ToSet(IterLessons(m)) : l \in x.title /\ l \in x.summary
  BY <1>1, TextsContain
<1>4. \A x \in ToSet(IterModules(m)) : x.assumes \subseteq Ids(IterModules(m))
  BY DEF ValidCourse, ValidManifest, Assumptions, ToSet, Range
<1>5. \A x \in ToSet(IterLessons(m)) : x.id \in DOMAIN course.prose[l]
  BY DEF ValidCourse, ProseGiven, ToSet, Ids
<1> QED
  BY <1>2, <1>3, <1>4, <1>5 DEF CourseReads

LEMMA TermCanBeRead ==
  ASSUME NEW course, Parsed(course), ValidCourse(course), NEW l \in Languages(course),
         NEW term \in ToSet(course.glossary)
  PROVE  TermReads(course, term, l)
<1> DEFINE terms == course.glossary
           lessons == IterLessons(course.manifest)
           target == CHOOSE t \in ToSet(terms) : t.id = term.alias_of
<1>1. \A t \in ToSet(terms) : l \in DOMAIN t.term
  BY DEF ValidCourse, LanguagesAgree
<1>2. l \in Locales
  BY DEF Parsed, Languages, Range, ToSet
<1>3. Origins(term) \cup term.link_except[l] \subseteq DOMAIN IdsByKey(lessons)
  <2>1. DOMAIN IdsByKey(lessons) = LessonKeys(course.manifest)
    BY DEF IdsByKey, Index, LessonKeys, Keys, Range
  <2>2. Origins(term) \cup Excluded(term) \subseteq LessonKeys(course.manifest)
    BY DEF ValidCourse, ValidGlossary
  <2>3. term.link_except[l] \subseteq Excluded(term)
    BY <1>2 DEF Excluded
  <2> QED
    BY <2>1, <2>2, <2>3
<1>4. \A text \in TermTexts(term) : l \in text
  <2>1. TermTexts(term) \subseteq Texts(course)
    BY TextsContain
  <2> QED
    BY <2>1 DEF ValidCourse, LanguagesAgree
<1>5. ASSUME term.alias_of # Absent
      PROVE  l \in DOMAIN target.term /\ TermTexts(target) # {}
  <2>1. PICK t \in ToSet(terms) : t.id = term.alias_of /\ t.alias_of = Absent
    BY <1>5 DEF ValidCourse, ValidGlossary, ValidAliases
  <2>2. target \in ToSet(terms) /\ target.id = term.alias_of
    BY <2>1
  <2>3. target = t
    <3>1. \A i, j \in DOMAIN terms : terms[i].id = terms[j].id => i = j
      BY DistinctIds DEF ValidCourse, ValidGlossary, Parsed
    <3> HIDE DEF target
    <3> QED
      BY <2>1, <2>2, <3>1 DEF ToSet
  <2>4. t.definition # Absent \/ t.senses # {}
    BY <2>1 DEF ValidCourse, ValidGlossary, ValidTerm
  <2>5. TermTexts(t) # {}
    BY <2>4 DEF TermTexts
  <2> QED
    BY <1>1, <2>1, <2>3, <2>5
<1> QED
  BY <1>1, <1>3, <1>4, <1>5 DEF TermReads

\* A course that is not turned away has been found valid.
LoadInvariant ==
  /\ bundle \in DOMAIN Bundles
  /\ stage \notin {"shipped", "refused"} => ValidBundle(Course)

LEMMA LoadInvariantHolds == Spec => []LoadInvariant
<1>1. Init => LoadInvariant
  BY DEF Init, LoadInvariant
<1>2. LoadInvariant /\ [Next]_vars => LoadInvariant'
  <2> SUFFICES ASSUME LoadInvariant, [Next]_vars PROVE LoadInvariant'
    OBVIOUS
  <2>1. bundle' = bundle /\ Course' = Course
    BY DEF Next, vars, Load, Open, Begin, Retry, OpenFails, Click, Submit, Export,
           ShowFigure, Leave, Course
  <2>2. stage' \notin {"shipped", "refused"} =>
          stage \notin {"shipped", "refused"} \/ ValidBundle(Course)
    BY DEF Next, vars, Load, Open, Begin, Retry, OpenFails, Click, Submit, Export,
           ShowFigure, Leave
  <2>3. ValidBundle(Course) => ValidBundle(Course)'
    BY <2>1 DEF ValidBundle
  <2> QED
    BY <2>1, <2>2, <2>3 DEF LoadInvariant
<1> QED
  BY <1>1, <1>2, PTL DEF Spec

\* A course that is served can be read in every language it declares, and the
\* ids and keys of its parts lead to each other, whatever courses are shipped
\* (registry.py, load_registry; schema.py, Manifest; glossary.py).
THEOREM LoadingIsSound == Spec => []LoadedIsSound
<1>1. LoadInvariant => LoadedIsSound
  <2> SUFFICES ASSUME LoadInvariant, stage = "served" PROVE LoadedIsSound
    BY DEF LoadedIsSound
  <2> DEFINE m == Course.manifest
  <2>1. ValidBundle(Course) /\ ValidCourse(Course) /\ Parsed(Course)
    BY BundlesAssumption DEF LoadInvariant, ValidBundle, Course
  <2>2. RoundTrip(IterModules(m)) /\ RoundTrip(IterLessons(m)) /\ RoundTrip(IterExercises(m))
    <3>1. \A list \in {IterModules(m), IterLessons(m), IterExercises(m)} :
            IsInjective(IdsOf(list)) /\ IsInjective(Keys(list))
      BY <2>1, LevelNames DEF ValidCourse, ValidManifest
    <3> QED
      BY <2>1, <3>1, ViewsAreLists, NamesLeadBack
  <2>3. RoundTrip(Course.figures)
    <3>1. IsInjective(IdsOf(Course.figures))
      BY <2>1 DEF Parsed, ValidCourse, FiguresGiven, IdsOf, IsInjective, ToSet
    <3>2. IsInjective(Keys(Course.figures))
      BY <2>1 DEF ValidCourse, FiguresGiven
    <3>3. Course.figures \in Seq(ToSet(Course.figures))
      BY <2>1 DEF Parsed, IsList
    <3> QED
      BY <3>1, <3>2, <3>3, NamesLeadBack
  <2>4. ASSUME NEW l \in Languages(Course)
        PROVE  /\ CourseReads(Course, l)
               /\ \A t \in ToSet(Course.glossary) : TermReads(Course, t, l)
               /\ \A id \in DOMAIN Course.configs : l \in Course.configs[id].prompt
    <3>1. \A id \in DOMAIN Course.configs : Course.configs[id].prompt \in Texts(Course)
      BY TextsContain
    <3>2. \A id \in DOMAIN Course.configs : l \in Course.configs[id].prompt
      BY <2>1, <3>1 DEF ValidCourse, LanguagesAgree
    <3> QED
      BY <2>1, <3>2, CourseCanBeRead, TermCanBeRead
  <2> QED
    BY <2>2, <2>3, <2>4 DEF LoadedIsSound, RoundTrip
<1> QED
  BY <1>1, LoadInvariantHolds, PTL

----------------------------------------------------------------------------
(* The shape of a chart.                                                   *)

\* What the proof needs to know of a chart that an injector builds.
Shaped(chart, injector) ==
  /\ chart.warmup \in Nat /\ chart.bars \in Nat
  /\ chart.own \in BOOLEAN
  /\ \A i \in DOMAIN chart.diagonals :
       LET line == chart.diagonals[i]
       IN  /\ line.start \in Int /\ line.end \in Int
           /\ chart.warmup <= line.start /\ line.start < line.end
           /\ line.end = Length(chart) - 1
  /\ chart.position # "none" =>
       injector = "multi_timeframe" /\ Length(chart) % 4 = 0 /\ chart.warmup % 4 = 0
  /\ injector # "volatility_bands" =>
       chart.panes \cap {"momentum", "momentum_state"} = {}
       /\ chart.overlays \subseteq {"ema20", "ema50"}

LEMMA BareIsShaped ==
  ASSUME NEW n \in Nat, NEW injector
  PROVE  Shaped(Bare(n), injector)
BY DEF Shaped, Bare, WARMUP, Length

LEMMA LineStartsInside ==
  ASSUME NEW n \in Nat, n >= 2, NEW t \in 0..400
  PROVE  /\ Bar(n, t) \in Int /\ WARMUP <= Bar(n, t) /\ Bar(n, t) < End(n) - 1
<1>1. At(n, t) \in Nat /\ At(n, t) < n - 1
  BY DEF At
<1> QED
  BY <1>1 DEF Bar, End, WARMUP

\* Most injectors draw over the usual warm-up, without lines or a second frame.
PlainChart(chart, n) ==
  /\ chart.warmup = WARMUP /\ chart.bars = n /\ chart.own \in BOOLEAN
  /\ chart.diagonals = << >> /\ chart.position = "none"
  /\ chart.panes \cap {"momentum", "momentum_state"} = {}
  /\ chart.overlays \subseteq {"ema20", "ema50"}

LEMMA PlainIsShaped ==
  ASSUME NEW n \in Nat, NEW chart, PlainChart(chart, n), NEW injector
  PROVE  Shaped(chart, injector)
BY DEF Shaped, PlainChart, WARMUP, Length

LEMMA BuildIsShaped ==
  ASSUME NEW n \in Nat, n >= 2, NEW injector \in DOMAIN Labels, NEW target, NEW draw
  PROVE  Shaped(Build(injector, n, target, draw), injector)
<1>1. CASE injector = "fakeout"
  <2>1. Build(injector, n, target, draw) = Fakeout(n, target, draw)
    BY <1>1 DEF Build
  <2>2. PlainChart(Fakeout(n, target, draw), n)
    BY DEF PlainChart, Fakeout, Breakout, Bare
  <2> QED
    BY <2>1, <2>2, PlainIsShaped
<1>2. CASE injector = "wyckoff"
  <2>1. Build(injector, n, target, draw) = Wyckoff(n, target)
    BY <1>2 DEF Build
  <2>2. PlainChart(Wyckoff(n, target), n)
    BY DEF PlainChart, Wyckoff, Bare
  <2> QED
    BY <2>1, <2>2, PlainIsShaped
<1>3. CASE injector = "liquidity_sweep"
  <2>1. Build(injector, n, target, draw) = LiquiditySweep(n, target)
    BY <1>3 DEF Build
  <2>2. PlainChart(LiquiditySweep(n, target), n)
    BY DEF PlainChart, LiquiditySweep, Bare
  <2> QED
    BY <2>1, <2>2, PlainIsShaped
<1>4. CASE injector = "origin_zone"
  <2>1. Build(injector, n, target, draw) = OriginZone(n, target)
    BY <1>4 DEF Build
  <2>2. PlainChart(OriginZone(n, target), n)
    BY DEF PlainChart, OriginZone, Bare
  <2> QED
    BY <2>1, <2>2, PlainIsShaped
<1>5. CASE injector = "imbalance"
  <2>1. Build(injector, n, target, draw) = Imbalance(n, target)
    BY <1>5 DEF Build
  <2>2. PlainChart(Imbalance(n, target), n)
    BY DEF PlainChart, Imbalance, Bare
  <2> QED
    BY <2>1, <2>2, PlainIsShaped
<1>6. CASE injector = "cvd_divergence"
  <2>1. Build(injector, n, target, draw) = CvdDivergence(n)
    BY <1>6 DEF Build
  <2>2. PlainChart(CvdDivergence(n), n)
    BY DEF PlainChart, CvdDivergence, Bare
  <2> QED
    BY <2>1, <2>2, PlainIsShaped
<1>7. CASE injector = "derivatives"
  <2>1. Build(injector, n, target, draw) = Derivatives(n)
    BY <1>7 DEF Build
  <2>2. PlainChart(Derivatives(n), n)
    BY DEF PlainChart, Derivatives, Bare
  <2> QED
    BY <2>1, <2>2, PlainIsShaped
<1>8. CASE injector = "candle_reaction"
  <2>1. Build(injector, n, target, draw) = CandleReaction(n, target, draw)
    BY <1>8 DEF Build
  <2>2. PlainChart(CandleReaction(n, target, draw), n)
    BY DEF PlainChart, CandleReaction, Bare
  <2> QED
    BY <2>1, <2>2, PlainIsShaped
<1>9. CASE injector = "fibonacci"
  <2>1. Build(injector, n, target, draw) = Fibonacci(n)
    BY <1>9 DEF Build
  <2>2. PlainChart(Fibonacci(n), n)
    BY DEF PlainChart, Fibonacci, Bare
  <2> QED
    BY <2>1, <2>2, PlainIsShaped
<1>10. CASE injector = "ma_context"
  <2>1. Build(injector, n, target, draw) = MaContext(n)
    BY <1>10 DEF Build
  <2>2. PlainChart(MaContext(n), n)
    BY DEF PlainChart, MaContext, Bare
  <2> QED
    BY <2>1, <2>2, PlainIsShaped
<1>11. CASE injector = "macd_cross"
  <2>1. Build(injector, n, target, draw) = MacdCross(n)
    BY <1>11 DEF Build
  <2>2. PlainChart(MacdCross(n), n)
    BY DEF PlainChart, MacdCross, Bare
  <2> QED
    BY <2>1, <2>2, PlainIsShaped
<1>12. CASE injector = "oscillator_reading"
  <2>1. Build(injector, n, target, draw) = OscillatorReading(n)
    BY <1>12 DEF Build
  <2>2. PlainChart(OscillatorReading(n), n)
    BY DEF PlainChart, OscillatorReading, Bare
  <2> QED
    BY <2>1, <2>2, PlainIsShaped
<1>13. CASE injector = "multi_timeframe"
  <2>1. Build(injector, n, target, draw) = MultiTimeframe(n, target, draw)
    BY <1>13 DEF Build
  <2>2. /\ MultiTimeframe(n, target, draw).warmup = 32
        /\ MultiTimeframe(n, target, draw).bars = n - (n % RATIO)
        /\ MultiTimeframe(n, target, draw).own \in BOOLEAN
        /\ MultiTimeframe(n, target, draw).diagonals = << >>
        /\ MultiTimeframe(n, target, draw).panes = {} /\ MultiTimeframe(n, target, draw).overlays = {}
    BY DEF MultiTimeframe, Bare
  <2>3. n - (n % RATIO) \in Nat /\ (n - (n % RATIO)) % 4 = 0
        /\ (32 + (n - (n % RATIO))) % 4 = 0
    BY DEF RATIO
  <2> QED
    BY <1>13, <2>1, <2>2, <2>3 DEF Shaped, Length
<1>14. CASE injector = "volatility_bands"
  <2>1. Build(injector, n, target, draw) = VolatilityBands(n, target)
    BY <1>14 DEF Build
  <2>2. /\ VolatilityBands(n, target).warmup = WARMUP /\ VolatilityBands(n, target).bars = n
        /\ VolatilityBands(n, target).own \in BOOLEAN
        /\ VolatilityBands(n, target).diagonals = << >>
        /\ VolatilityBands(n, target).position = "none"
    BY DEF VolatilityBands, Bare
  <2> QED
    BY <1>14, <2>1, <2>2 DEF Shaped, WARMUP, Length
<1>15. CASE injector = "volume_confirmation"
  <2>1. Build(injector, n, target, draw) = VolumeConfirmation(n, draw)
    BY <1>15 DEF Build
  <2>2. PlainChart(VolumeConfirmation(n, draw), n)
    BY DEF PlainChart, VolumeConfirmation, Breakout, Bare
  <2> QED
    BY <2>1, <2>2, PlainIsShaped
<1>16. CASE injector = "trend_channel"
  <2>1. Build(injector, n, target, draw) = TrendChannel(n, target)
    BY <1>16 DEF Build
  <2>2. /\ TrendChannel(n, target).warmup = WARMUP /\ TrendChannel(n, target).bars = n
        /\ TrendChannel(n, target).own \in BOOLEAN /\ TrendChannel(n, target).position = "none"
        /\ TrendChannel(n, target).panes = {"volume"} /\ TrendChannel(n, target).overlays = {}
    BY DEF TrendChannel, Bare
  <2>3. \A i \in DOMAIN TrendChannel(n, target).diagonals :
          LET line == TrendChannel(n, target).diagonals[i]
          IN  line.start = Bar(n, 60) /\ line.end = End(n) - 1
    BY DEF TrendChannel, Bare, Line
  <2>4. Bar(n, 60) \in Int /\ WARMUP <= Bar(n, 60) /\ Bar(n, 60) < End(n) - 1
    BY LineStartsInside
  <2> QED
    BY <1>16, <2>1, <2>2, <2>3, <2>4 DEF Shaped, WARMUP, Length, End
<1>17. CASE injector = "converging_lines"
  <2>1. Build(injector, n, target, draw) = ConvergingLines(n, target)
    BY <1>17 DEF Build
  <2>2. /\ ConvergingLines(n, target).warmup = WARMUP /\ ConvergingLines(n, target).bars = n
        /\ ConvergingLines(n, target).own \in BOOLEAN /\ ConvergingLines(n, target).position = "none"
        /\ ConvergingLines(n, target).panes = {"volume"} /\ ConvergingLines(n, target).overlays = {}
    BY DEF ConvergingLines, Bare
  <2>3. \A i \in DOMAIN ConvergingLines(n, target).diagonals :
          LET line == ConvergingLines(n, target).diagonals[i]
          IN  line.start \in {Bar(n, 70), Bar(n, 170)} /\ line.end = End(n) - 1
    BY DEF ConvergingLines, Bare, Line
  <2>4. \A t \in {70, 170} :
          Bar(n, t) \in Int /\ WARMUP <= Bar(n, t) /\ Bar(n, t) < End(n) - 1
    <3> TAKE t \in {70, 170}
    <3>1. t \in 0..400
      OBVIOUS
    <3> QED
      BY <3>1, LineStartsInside
  <2> QED
    BY <1>17, <2>1, <2>2, <2>3, <2>4 DEF Shaped, WARMUP, Length, End
<1>18. CASE injector = "market_structure"
  <2>1. Build(injector, n, target, draw) = MarketStructure(n, target)
    BY <1>18 DEF Build
  <2>2. PlainChart(MarketStructure(n, target), n)
    BY DEF PlainChart, MarketStructure, Bare
  <2> QED
    BY <2>1, <2>2, PlainIsShaped
<1>19. CASE injector = "stop_limit_gap"
  <2>1. Build(injector, n, target, draw) = StopLimitGap(n)
    BY <1>19 DEF Build
  <2>2. PlainChart(StopLimitGap(n), n)
    BY DEF PlainChart, StopLimitGap, Bare
  <2> QED
    BY <2>1, <2>2, PlainIsShaped
<1>20. CASE injector = "trade_anatomy"
  <2>1. Build(injector, n, target, draw) = TradeAnatomy(n)
    BY <1>20 DEF Build
  <2>2. PlainChart(TradeAnatomy(n), n)
    BY DEF PlainChart, TradeAnatomy, Bare
  <2> QED
    BY <2>1, <2>2, PlainIsShaped
<1> QED
  BY <1>1, <1>2, <1>3, <1>4, <1>5, <1>6, <1>7, <1>8, <1>9, <1>10, <1>11, <1>12, <1>13,
     <1>14, <1>15, <1>16, <1>17, <1>18, <1>19, <1>20 DEF Labels

LEMMA JoinedFields ==
  ASSUME NEW f, NEW g
  PROVE  /\ DOMAIN Joined(f, g) = DOMAIN f \cup DOMAIN g
         /\ \A x \in DOMAIN f : Joined(f, g)[x] = f[x]
         /\ \A x \in DOMAIN g \ DOMAIN f : Joined(f, g)[x] = g[x]
BY DEF Joined

\* A second frame adds two fields and leaves the others.
LEMMA FramedFields ==
  ASSUME NEW payload, NEW chart, NEW candles,
         "context" \notin DOMAIN payload, "position" \notin DOMAIN payload
  PROVE  LET framed == Framed(payload, chart, candles)
         IN  /\ \A x \in DOMAIN payload : x \in DOMAIN framed /\ framed[x] = payload[x]
             /\ \A x \in DOMAIN framed \ DOMAIN payload : x \in {"context", "position"}
             /\ "context" \in DOMAIN framed =>
                  chart.position # "none" /\ framed.context = candles
<1>1. CASE chart.position = "none"
  BY <1>1 DEF Framed
<1>2. CASE chart.position # "none"
  <2> DEFINE extra == [context |-> candles, position |-> chart.position]
  <2>1. Framed(payload, chart, candles) = Joined(payload, extra)
    BY <1>2 DEF Framed
  <2>2. DOMAIN extra = {"context", "position"} /\ extra["context"] = candles
    OBVIOUS
  <2>3. /\ DOMAIN Joined(payload, extra) = DOMAIN payload \cup DOMAIN extra
        /\ \A x \in DOMAIN payload : Joined(payload, extra)[x] = payload[x]
        /\ \A x \in DOMAIN extra \ DOMAIN payload : Joined(payload, extra)[x] = extra[x]
    BY JoinedFields
  <2> QED
    BY <1>2, <2>1, <2>2, <2>3
<1> QED
  BY <1>1, <1>2

\* Lines that end at the last of `length` candles, seen from the bar w on.
LEMMA LinesStayInside ==
  ASSUME NEW lines, NEW w \in Int, NEW length \in Int,
         \A i \in DOMAIN lines :
           /\ lines[i].start \in Int /\ w <= lines[i].start
           /\ lines[i].start < lines[i].end /\ lines[i].end = length - 1
  PROVE  \A i \in DOMAIN LinesShown(lines, w) :
           LET line == LinesShown(lines, w)[i]
           IN  /\ 0 <= line.start /\ line.start < line.end
               /\ line.end = (length - w) - 1
BY DEF LinesShown, Line

LEMMA WholeFrames ==
  ASSUME NEW length \in Int, NEW w \in Int, length % 4 = 0, w % 4 = 0
  PROVE  ((length \div 4) - (w \div 4)) * 4 = length - w
OBVIOUS

\* What a payload is drawn from, field by field.
LEMMA AlignedByField ==
  ASSUME NEW payload,
         "panes" \in DOMAIN payload =>
           \A p \in DOMAIN payload.panes : payload.panes[p] = payload.candles,
         "overlays" \in DOMAIN payload =>
           \A o \in DOMAIN payload.overlays : payload.overlays[o] = payload.candles,
         "diagonals" \in DOMAIN payload =>
           \A i \in DOMAIN payload.diagonals :
             LET line == payload.diagonals[i]
             IN  /\ 0 <= line.start /\ line.start < line.end
                 /\ line.end = payload.candles - 1,
         "context" \in DOMAIN payload => payload.context * RATIO = payload.candles
  PROVE  Aligned(payload)
BY DEF Aligned

\* What a seed of a pattern chart draws.
LEMMA PatternSeed ==
  ASSUME NEW config, ValidPattern(config), NEW seed \in PatternSeeds(config)
  PROVE  /\ config.injector \in DOMAIN Labels
         /\ seed.target \in ToSet(config.targets)
         /\ seed.target \in Labels[config.injector]
         /\ \E draw \in Draws(config.injector, seed.target) :
              seed.chart = Build(config.injector, config.n, seed.target, draw)
<1>1. PICK target \in ToSet(config.targets) :
        seed \in {[target |-> target, chart |-> c] :
                  c \in ChartsFor(config.injector, config.n, target)}
  BY DEF PatternSeeds
<1>2. seed.target = target /\ seed.chart \in ChartsFor(config.injector, config.n, target)
  BY <1>1
<1> QED
  BY <1>2 DEF ValidPattern, ChartsFor

LEMMA PatternIsAligned ==
  ASSUME NEW config, ValidPattern(config), config.n \in Nat, config.n >= 2,
         NEW seed \in PatternSeeds(config)
  PROVE  Aligned(PatternPayload(config, seed))
<1> DEFINE chart == seed.chart
           w == chart.warmup
           candles == Length(chart) - w
           series == [choices  |-> config.choices,
                      candles  |-> candles,
                      panes    |-> [pane \in chart.panes \cup {"rsi", "macd"} |-> candles],
                      overlays |-> [name \in chart.overlays |-> candles]]
           both == Joined(series, Shapes(chart))
           context == (Length(chart) \div RATIO) - (w \div RATIO)
           payload == Framed(both, chart, context)
<1>1. PatternPayload(config, seed) = payload
  BY DEF PatternPayload
<1>2. Shaped(chart, config.injector)
  BY PatternSeed, BuildIsShaped
<1>3. Length(chart) \in Int /\ w \in Int
  BY <1>2 DEF Shaped, Length
<1> HIDE DEF chart
<1>4. /\ DOMAIN series = {"choices", "candles", "panes", "overlays"}
      /\ series["candles"] = candles
      /\ series["panes"] = [pane \in chart.panes \cup {"rsi", "macd"} |-> candles]
      /\ series["overlays"] = [name \in chart.overlays |-> candles]
      /\ DOMAIN Shapes(chart) = {"levels", "diagonals"}
      /\ Shapes(chart)["diagonals"] = LinesShown(chart.diagonals, w)
  BY DEF Shapes
<1> HIDE DEF series
<1>5. /\ DOMAIN both = {"choices", "candles", "panes", "overlays", "levels", "diagonals"}
      /\ both["candles"] = candles
      /\ both["panes"] = [pane \in chart.panes \cup {"rsi", "macd"} |-> candles]
      /\ both["overlays"] = [name \in chart.overlays |-> candles]
      /\ both["diagonals"] = LinesShown(chart.diagonals, w)
  <2>1. /\ DOMAIN both = DOMAIN series \cup DOMAIN Shapes(chart)
        /\ \A x \in DOMAIN series : both[x] = series[x]
        /\ \A x \in DOMAIN Shapes(chart) \ DOMAIN series : both[x] = Shapes(chart)[x]
    BY JoinedFields
  <2> HIDE DEF both
  <2> QED
    BY <1>4, <2>1
<1> HIDE DEF both
<1>6. /\ \A x \in DOMAIN both : x \in DOMAIN payload /\ payload[x] = both[x]
      /\ "context" \in DOMAIN payload => chart.position # "none" /\ payload.context = context
  BY <1>5, FramedFields
<1>7. /\ payload.candles = candles
      /\ payload.panes = [pane \in chart.panes \cup {"rsi", "macd"} |-> candles]
      /\ payload.overlays = [name \in chart.overlays |-> candles]
      /\ payload.diagonals = LinesShown(chart.diagonals, w)
  BY <1>5, <1>6
<1>8. \A i \in DOMAIN payload.diagonals :
        LET line == payload.diagonals[i]
        IN  /\ 0 <= line.start /\ line.start < line.end
            /\ line.end = payload.candles - 1
  <2>1. \A i \in DOMAIN chart.diagonals :
          /\ chart.diagonals[i].start \in Int /\ w <= chart.diagonals[i].start
          /\ chart.diagonals[i].start < chart.diagonals[i].end
          /\ chart.diagonals[i].end = Length(chart) - 1
    BY <1>2 DEF Shaped
  <2>2. \A i \in DOMAIN LinesShown(chart.diagonals, w) :
          LET line == LinesShown(chart.diagonals, w)[i]
          IN  /\ 0 <= line.start /\ line.start < line.end
              /\ line.end = (Length(chart) - w) - 1
    BY <1>3, <2>1, LinesStayInside
  <2> QED
    BY <1>7, <2>2
<1>9. "context" \in DOMAIN payload => payload.context * RATIO = payload.candles
  <2> SUFFICES ASSUME "context" \in DOMAIN payload PROVE context * RATIO = candles
    BY <1>6, <1>7
  <2>1. Length(chart) % 4 = 0 /\ w % 4 = 0
    BY <1>2, <1>6 DEF Shaped
  <2> QED
    BY <1>3, <2>1, WholeFrames DEF RATIO
<1> HIDE DEF payload
<1>10. /\ \A p \in DOMAIN payload.panes : payload.panes[p] = payload.candles
       /\ \A o \in DOMAIN payload.overlays : payload.overlays[o] = payload.candles
  BY <1>7
<1>11. Aligned(payload)
  BY <1>8, <1>9, <1>10, AlignedByField
<1> QED
  BY <1>1, <1>11

\* A figure: the line ends and the frames move with the candles it adds.
LEMMA PanelIsAligned ==
  ASSUME NEW panel, ValidPanel(panel), panel.n \in Nat, panel.n >= 2,
         NEW chart \in PanelCharts(panel)
  PROVE  Aligned(PanelPayload(panel, chart))
<1> DEFINE w == chart.warmup
           path == Length(chart) + (IF panel.show_resolution THEN ResolutionCandles ELSE 0)
           length == IF chart.own /\ ~panel.show_resolution THEN Length(chart) ELSE path
           pane(p) == IF p \notin {"momentum", "momentum_state"} THEN path
                      ELSE IF panel.injector \in FigureMomentum THEN length
                      ELSE Length(chart)
           overlay(name) == IF panel.injector \in FigureOverlays THEN length
                            ELSE IF name \in {"ema20", "ema50"} THEN path ELSE Length(chart)
           lines == [i \in DOMAIN chart.diagonals |->
                       Extended(chart.diagonals[i], length - 1)]
           panes == [p \in chart.panes \cup {"rsi", "macd"} |-> pane(p) - w]
           overlays == [name \in chart.overlays |-> overlay(name) - w]
           drawn == [candles     |-> length - w,
                     panes       |-> panes,
                     overlays    |-> overlays,
                     levels      |-> chart.levels,
                     bands       |-> chart.bands,
                     diagonals   |-> LinesShown(lines, w),
                     annotations |-> MarksShown(PanelMarks(panel, chart), w)]
           context == PanelContext(panel, chart, length) - (w \div RATIO)
           payload == Framed(drawn, chart, context)
<1>1. PanelPayload(panel, chart) = payload
  BY DEF PanelPayload
<1>2. /\ Shaped(chart, panel.injector)
      /\ chart.position # "none" => panel.injector = "multi_timeframe"
      /\ panel.injector # "volatility_bands" =>
           /\ chart.panes \cap {"momentum", "momentum_state"} = {}
           /\ chart.overlays \subseteq {"ema20", "ema50"}
  <2>1. CASE panel.generator = "synthetic_chart"
    <3>1. PlainChart(chart, panel.n)
      BY <2>1 DEF PanelCharts, PlainChart, Bare
    <3> QED
      BY <3>1, PlainIsShaped DEF Shaped
  <2>2. CASE panel.generator # "synthetic_chart"
    <3>1. panel.injector \in DOMAIN Labels
      BY <2>2 DEF ValidPanel
    <3> QED
      BY <2>2, <3>1, BuildIsShaped DEF PanelCharts, ChartsFor, Shaped
  <2> QED
    BY <2>1, <2>2
<1>3. Length(chart) \in Int /\ w \in Int
  BY <1>2 DEF Shaped, Length
<1>4. /\ length \in Int /\ length = path /\ length >= Length(chart)
      /\ length = Length(chart) \/ length = Length(chart) + 24
  BY <1>2, <1>3 DEF ResolutionCandles
<1>5. \A p \in DOMAIN panes : panes[p] = length - w
  BY <1>2, <1>4 DEF FigureMomentum
<1>6. \A o \in DOMAIN overlays : overlays[o] = length - w
  BY <1>2, <1>4 DEF FigureOverlays
<1>7. \A i \in DOMAIN LinesShown(lines, w) :
        LET line == LinesShown(lines, w)[i]
        IN  /\ 0 <= line.start /\ line.start < line.end
            /\ line.end = (length - w) - 1
  <2>1. \A i \in DOMAIN lines :
          /\ lines[i].start \in Int /\ w <= lines[i].start
          /\ lines[i].start < lines[i].end /\ lines[i].end = length - 1
    <3>1. \A i \in DOMAIN chart.diagonals :
            /\ chart.diagonals[i].start \in Int /\ w <= chart.diagonals[i].start
            /\ chart.diagonals[i].start < Length(chart) - 1
      BY <1>2 DEF Shaped
    <3> HIDE DEF length
    <3> QED
      BY <1>3, <1>4, <3>1 DEF Extended, Line
  <2>2. length \in Int
    BY <1>4
  <2> HIDE DEF lines, length
  <2> QED
    BY <1>3, <2>1, <2>2, LinesStayInside
<1>8. chart.position # "none" => context * RATIO = length - w
  <2> SUFFICES ASSUME chart.position # "none" PROVE context * RATIO = length - w
    OBVIOUS
  <2>1. Length(chart) % 4 = 0 /\ w % 4 = 0 /\ panel.injector = "multi_timeframe"
    BY <1>2 DEF Shaped
  <2>2. length % 4 = 0
    BY <1>3, <1>4, <2>1
  <2>3. context = (length \div 4) - (w \div 4)
    BY <2>1 DEF PanelContext, FigureContext, RATIO
  <2> HIDE DEF length, context
  <2> QED
    BY <1>3, <1>4, <2>1, <2>2, <2>3, WholeFrames DEF RATIO
<1> HIDE DEF length, panes, overlays, lines, context
<1>9. /\ DOMAIN drawn = {"candles", "panes", "overlays", "levels", "bands", "diagonals",
                         "annotations"}
      /\ drawn["candles"] = length - w /\ drawn["panes"] = panes
      /\ drawn["overlays"] = overlays /\ drawn["diagonals"] = LinesShown(lines, w)
  OBVIOUS
<1> HIDE DEF drawn
<1>10. /\ \A x \in DOMAIN drawn : x \in DOMAIN payload /\ payload[x] = drawn[x]
       /\ "context" \in DOMAIN payload => chart.position # "none" /\ payload.context = context
  BY <1>9, FramedFields
<1> HIDE DEF payload
<1>11. /\ payload.candles = length - w /\ payload.panes = panes
       /\ payload.overlays = overlays /\ payload.diagonals = LinesShown(lines, w)
  BY <1>9, <1>10
<1>12. Aligned(payload)
  BY <1>5, <1>6, <1>7, <1>8, <1>10, <1>11, AlignedByField
<1> QED
  BY <1>1, <1>12

LEMMA QuizHasNoCandles ==
  ASSUME NEW config, ValidQuiz(config), NEW seed \in QuizSeeds(config)
  PROVE  "candles" \notin DOMAIN QuizPayload(config, seed)
<1>1. ValidVariant(VariantOf(config, seed))
  BY DEF QuizSeeds, ValidQuiz, VariantOf
<1>2. VariantOf(config, seed).kind \in
        {"single_choice", "multi_select", "true_false", "ordering", "matching"}
  BY <1>1 DEF ValidVariant, Choosing
<1> QED
  BY <1>2 DEF QuizPayload, Choosing

\* Every instance that is drawn is aligned.
LEMMA PayloadIsAligned ==
  ASSUME NEW config, ValidConfig(config), config.type \in ExerciseTypes,
         config.type \in {"pattern_chart", "synthetic_chart"} =>
           config.n \in Nat /\ config.n >= 2,
         config.type = "fixture_chart" =>
           \A i \in DOMAIN config.fixtures : \A p \in DOMAIN config.fixtures[i].panes :
             config.fixtures[i].panes[p] = config.fixtures[i].candles,
         NEW seed \in Seeds(config), "candles" \in DOMAIN Payload(config, seed)
  PROVE  Aligned(Payload(config, seed))
<1>1. CASE config.type = "quiz"
  <2>1. Payload(config, seed) = QuizPayload(config, seed)
    BY <1>1 DEF Payload
  <2>2. seed \in QuizSeeds(config) /\ ValidQuiz(config)
    BY <1>1 DEF Seeds, ValidConfig
  <2> QED
    BY <2>1, <2>2, QuizHasNoCandles
<1>2. CASE config.type = "calculation"
  <2>1. Payload(config, seed) = CalculationPayload(config, seed)
    BY <1>2 DEF Payload
  <2>2. "candles" \notin DOMAIN CalculationPayload(config, seed)
    BY DEF CalculationPayload, OptionsPage
  <2> QED
    BY <2>1, <2>2
<1>3. CASE config.type = "synthetic_chart"
  <2>1. Payload(config, seed) = SyntheticPayload(config, seed)
    BY <1>3 DEF Payload
  <2> DEFINE page == SyntheticPayload(config, seed)
  <2>2. /\ DOMAIN page = {"choices", "candles", "panes"}
        /\ \A p \in DOMAIN page.panes : page.panes[p] = page.candles
    BY DEF SyntheticPayload
  <2>3. Aligned(page)
    BY <2>2, AlignedByField
  <2> QED
    BY <2>1, <2>3
<1>4. CASE config.type = "fixture_chart"
  <2>1. Payload(config, seed) = FixturePayload(config, seed)
    BY <1>4 DEF Payload
  <2>2. seed \in DOMAIN config.fixtures
    BY <1>4 DEF Seeds, FixtureSeeds
  <2> DEFINE page == FixturePayload(config, seed)
  <2>3. /\ DOMAIN page = {"choices", "candles", "panes"}
        /\ page.panes = config.fixtures[seed].panes
        /\ page.candles = config.fixtures[seed].candles
    BY DEF FixturePayload
  <2>4. \A p \in DOMAIN page.panes : page.panes[p] = page.candles
    BY <1>4, <2>2, <2>3
  <2>5. Aligned(page)
    BY <2>3, <2>4, AlignedByField
  <2> QED
    BY <2>1, <2>5
<1>5. CASE config.type = "pattern_chart"
  <2>1. Payload(config, seed) = PatternPayload(config, seed)
    BY <1>5 DEF Payload
  <2>2. ValidPattern(config) /\ seed \in PatternSeeds(config)
    BY <1>5 DEF ValidConfig, Seeds
  <2> QED
    BY <1>5, <2>1, <2>2, PatternIsAligned
<1> QED
  BY <1>1, <1>2, <1>3, <1>4, <1>5 DEF ExerciseTypes

\* What is on the page is what the generator makes of the exercise and the seed
\* that grading goes by, or a panel of a figure of the course.
PageInvariant ==
  /\ LoadInvariant
  /\ stage \in {"open", "answered", "printed"} =>
       /\ work.exercise \in DOMAIN Course.configs
       /\ work.seed \in Seeds(Config)
       /\ shown = Payload(Config, work.seed)
  /\ stage = "figure" =>
       \E f \in ToSet(Course.figures) : \E i \in DOMAIN f.panels :
         /\ work.panel = f.panels[i]
         /\ work.chart \in PanelCharts(f.panels[i])
         /\ shown = PanelPayload(f.panels[i], work.chart)

LEMMA PageInvariantHolds == Spec => []PageInvariant
<1>1. Init => PageInvariant
  BY DEF Init, PageInvariant, LoadInvariant
<1>2. LoadInvariant /\ LoadInvariant' /\ PageInvariant /\ [Next]_vars => PageInvariant'
  <2> SUFFICES ASSUME LoadInvariant, LoadInvariant', PageInvariant, [Next]_vars
               PROVE  PageInvariant'
    OBVIOUS
  <2>1. ASSUME NEW exercise \in DOMAIN Course.configs, NEW kept, Begin(exercise, kept)
        PROVE  PageInvariant'
    <3>1. PICK seed \in Seeds(Course.configs[exercise]) :
            /\ stage' = "open" /\ bundle' = bundle
            /\ work' = [exercise |-> exercise, seed |-> seed]
            /\ shown' = Payload(Course.configs[exercise], seed)
      BY <2>1 DEF Begin
    <3>2. Course' = Course /\ Config' = Course.configs[exercise]
          /\ work'.exercise = exercise /\ work'.seed = seed
      BY <3>1 DEF Course, Config
    <3> QED
      BY <3>1, <3>2 DEF PageInvariant
  <2>2. CASE Load
    BY <2>2 DEF Load, PageInvariant
  <2>3. CASE Open
    BY <2>1, <2>3 DEF Open, PlayableHere
  <2>4. CASE Retry
    BY <2>1, <2>4 DEF Retry, PageInvariant
  <2>5. CASE OpenFails
    BY <2>5 DEF OpenFails, PageInvariant
  <2>6. CASE Click
    <3>1. UNCHANGED <<bundle, stage, work, shown>>
      BY <2>6 DEF Click
    <3> QED
      BY <3>1 DEF PageInvariant, Course, Config
  <2>7. CASE Submit
    <3>1. stage = "open" /\ stage' = "answered" /\ UNCHANGED <<bundle, work, shown>>
      BY <2>7 DEF Submit
    <3> QED
      BY <3>1 DEF PageInvariant, Course, Config
  <2>8. CASE Export
    <3>1. PICK e \in PlayableHere : \E seed \in Seeds(Course.configs[e.id]) :
            /\ work' = [exercise |-> e.id, seed |-> seed]
            /\ shown' = Payload(Course.configs[e.id], seed)
      BY <2>8 DEF Export
    <3>2. PICK seed \in Seeds(Course.configs[e.id]) :
            /\ work' = [exercise |-> e.id, seed |-> seed]
            /\ shown' = Payload(Course.configs[e.id], seed)
      BY <3>1
    <3>3. stage' = "printed" /\ bundle' = bundle /\ e.id \in DOMAIN Course.configs
      BY <2>8 DEF Export, PlayableHere
    <3>4. Course' = Course /\ Config' = Course.configs[e.id]
          /\ work'.exercise = e.id /\ work'.seed = seed
      BY <3>2, <3>3 DEF Course, Config
    <3> QED
      BY <3>2, <3>3, <3>4 DEF PageInvariant
  <2>9. CASE ShowFigure
    <3>1. stage' = "figure" /\ bundle' = bundle
      BY <2>9 DEF ShowFigure
    <3>2. \E f \in ToSet(Course.figures) : \E i \in DOMAIN f.panels :
            /\ work'.panel = f.panels[i]
            /\ work'.chart \in PanelCharts(f.panels[i])
            /\ shown' = PanelPayload(f.panels[i], work'.chart)
      BY <2>9 DEF ShowFigure
    <3> QED
      BY <3>1, <3>2 DEF PageInvariant, Course
  <2>10. CASE Leave
    BY <2>10 DEF Leave, PageInvariant
  <2>11. CASE UNCHANGED vars
    BY <2>11 DEF vars, PageInvariant, Course, Config
  <2> QED
    BY <2>2, <2>3, <2>4, <2>5, <2>6, <2>7, <2>8, <2>9, <2>10, <2>11 DEF Next
<1> QED
  BY <1>1, <1>2, LoadInvariantHolds, PTL DEF Spec

\* In every course whose charts have two candles or more, and whose recorded
\* charts come with as many values as candles, everything drawn is as long as
\* the candles are: panes, overlays, lines and second frames, in exercises, in
\* prints and in figures that go on after the pattern (figures.py:174-296,
\* pattern_chart.py:150-208).
THEOREM PanesStayAligned ==
  ASSUME \A b \in DOMAIN Bundles : Charted(Bundles[b])
  PROVE  Spec => []PanesAligned
<1>1. PageInvariant => PanesAligned
  <2> SUFFICES ASSUME PageInvariant, stage \in {"open", "printed", "figure"},
                      "candles" \in DOMAIN shown
               PROVE  Aligned(shown)
    BY DEF PanesAligned, Drawn
  <2>1. ValidBundle(Course) /\ Parsed(Course) /\ Charted(Course)
    BY BundlesAssumption DEF PageInvariant, LoadInvariant, Course
  <2>2. CASE stage = "figure"
    <3> PICK f \in ToSet(Course.figures) : \E i \in DOMAIN f.panels :
             /\ work.chart \in PanelCharts(f.panels[i])
             /\ shown = PanelPayload(f.panels[i], work.chart)
      BY <2>2 DEF PageInvariant
    <3>1. PICK i \in DOMAIN f.panels :
             /\ work.chart \in PanelCharts(f.panels[i])
             /\ shown = PanelPayload(f.panels[i], work.chart)
      OBVIOUS
    <3>2. ValidPanel(f.panels[i]) /\ f.panels[i].n \in Nat /\ f.panels[i].n >= 2
      BY <2>1 DEF ValidBundle, ValidFigure, Charted
    <3> QED
      BY <3>1, <3>2, PanelIsAligned
  <2>3. CASE stage \in {"open", "printed"}
    <3>1. /\ work.exercise \in DOMAIN Course.configs /\ work.seed \in Seeds(Config)
          /\ shown = Payload(Config, work.seed)
      BY <2>3 DEF PageInvariant
    <3>2. ValidConfig(Config) /\ Config.type \in ExerciseTypes
      BY <2>1, <3>1 DEF ValidBundle, Parsed, Config
    <3>3. /\ Config.type \in {"pattern_chart", "synthetic_chart"} =>
               Config.n \in Nat /\ Config.n >= 2
          /\ Config.type = "fixture_chart" =>
               \A i \in DOMAIN Config.fixtures : \A p \in DOMAIN Config.fixtures[i].panes :
                 Config.fixtures[i].panes[p] = Config.fixtures[i].candles
      BY <2>1, <3>1 DEF Charted, Config
    <3> QED
      BY <3>1, <3>2, <3>3, PayloadIsAligned
  <2> QED
    BY <2>2, <2>3
<1> QED
  BY <1>1, PageInvariantHolds, PTL

----------------------------------------------------------------------------
(* Where marks are.                                                        *)

LEMMA MaxOfTwo ==
  ASSUME NEW a \in Int, NEW b \in Int
  PROVE  Max({a, b}) = IF a >= b THEN a ELSE b
BY DEF Max

LEMMA MinOfTwo ==
  ASSUME NEW a \in Int, NEW b \in Int
  PROVE  Min({a, b}) = IF a <= b THEN a ELSE b
BY DEF Min

\* Where the code puts something, as it writes it.
Thousandths == 0..999

LEMMA AtBounds ==
  ASSUME NEW n \in Nat, n > 0, NEW t \in Thousandths
  PROVE  At(n, t) \in Int /\ 0 <= At(n, t) /\ At(n, t) < n
<1>1. t * n \in Nat /\ t * n < 1000 * n
  BY DEF Thousandths
<1> QED
  BY <1>1 DEF At

\* Some bars, from lo on and before hi.
Inside(S, lo, hi) == S # {} /\ \A x \in S : x \in Int /\ lo <= x /\ x < hi

LEMMA InsideWider ==
  ASSUME NEW a \in Int, NEW b \in Int, NEW c \in Int, NEW d \in Int, c <= a, b <= d,
         NEW S, Inside(S, a, b)
  PROVE  Inside(S, c, d)
BY DEF Inside

LEMMA InsideApart ==
  ASSUME NEW a, NEW b \in Int, NEW c \in Int, NEW d, b <= c,
         NEW S, Inside(S, a, b), NEW T, Inside(T, c, d)
  PROVE  S \cap T = {} /\ T \cap S = {}
BY DEF Inside

LEMMA SpanInside ==
  ASSUME NEW lo \in Int, NEW hi \in Int, lo < hi
  PROVE  Inside(Span(lo, hi), lo, hi)
<1>1. lo \in Span(lo, hi)
  BY DEF Span
<1>2. \A x \in Span(lo, hi) : x \in Int /\ lo <= x /\ x < hi
  BY DEF Span
<1> QED
  BY <1>1, <1>2, Zenon DEF Inside

LEMMA OneInside ==
  ASSUME NEW a \in Int, NEW lo \in Int, NEW hi \in Int, lo <= a, a < hi
  PROVE  Inside({a}, lo, hi)
BY DEF Inside

\* The window of a search for a swing.
SwingSound(n, t) ==
  /\ Inside(Swing(n, t), WARMUP, End(n))
  /\ Inside(Swing(n, t), Bar(n, t) - 3, Bar(n, t) + 4)

LEMMA SwingWindow ==
  ASSUME NEW n \in Nat, n > 0, NEW t \in Thousandths
  PROVE  SwingSound(n, t)
<1> DEFINE at == At(n, t)
           lo == Max({0, at - 3})
           hi == Min({n - 1, at + 3})
<1>1. at \in Int /\ 0 <= at /\ at < n
  BY AtBounds, Zenon
<1>2. Swing(n, t) = (30 + lo)..(30 + hi) /\ Bar(n, t) = 30 + at
  BY DEF Swing, SwingNear, WARMUP, Bar
<1> HIDE DEF at
<1>3. /\ lo \in Int /\ 0 <= lo /\ at - 3 <= lo /\ lo <= at
      /\ hi \in Int /\ hi <= n - 1 /\ hi <= at + 3 /\ at <= hi
  <2>1. lo = IF 0 >= at - 3 THEN 0 ELSE at - 3
    BY <1>1, MaxOfTwo
  <2>2. hi = IF n - 1 <= at + 3 THEN n - 1 ELSE at + 3
    BY <1>1, MinOfTwo
  <2> HIDE DEF lo, hi
  <2> QED
    BY <1>1, <2>1, <2>2
<1> HIDE DEF lo, hi
<1>4. Swing(n, t) = Span(30 + lo, 31 + hi)
  BY <1>2, <1>3 DEF Span
<1>5. Inside(Swing(n, t), 30 + lo, 31 + hi)
  BY <1>1, <1>3, <1>4, SpanInside
<1>6. Inside(Swing(n, t), 30, 30 + n)
  BY <1>1, <1>3, <1>5, InsideWider
<1>7. Inside(Swing(n, t), (30 + at) - 3, (30 + at) + 4)
  BY <1>1, <1>3, <1>5, InsideWider
<1> QED
  BY <1>2, <1>6, <1>7 DEF WARMUP, End, SwingSound

\* The window of a search for the highest or lowest candle.
LEMMA ExtremeWindow ==
  ASSUME NEW n \in Nat, NEW lo \in Int, NEW hi \in Int, 0 <= lo, lo < hi, hi <= End(n)
  PROVE  Extreme(n, lo, hi) = Span(lo, hi) /\ Inside(Extreme(n, lo, hi), lo, hi)
<1>1. End(n) \in Int
  BY DEF End, WARMUP
<1>2. Max({0, lo}) = lo
  BY MaxOfTwo
<1>3. Min({End(n), hi}) = hi
  BY <1>1, MinOfTwo
<1>4. Extreme(n, lo, hi) = Span(lo, hi)
  BY <1>2, <1>3 DEF Extreme
<1> QED
  BY <1>4, SpanInside

\* Marks on bars of their own, from lo on and before hi.
Clear(marks, lo, hi) ==
  /\ \A i \in DOMAIN marks : Inside(marks[i].at, lo, hi)
  /\ \A i, j \in DOMAIN marks : i # j => marks[i].at \cap marks[j].at = {}

\* No mark of a candle that goes through a level is where the level is shut.
Guarded(chart) ==
  \A i \in DOMAIN chart.marks : \A g \in chart.guards :
    chart.marks[i].past = g.level => chart.marks[i].at \cap g.shut = {}

LEMMA OneMark ==
  ASSUME NEW m, NEW lo, NEW hi, Inside(m.at, lo, hi)
  PROVE  Clear(<<m>>, lo, hi)
BY DEF Clear

LEMMA TwoMarks ==
  ASSUME NEW m, NEW k, NEW lo, NEW hi, Inside(m.at, lo, hi), Inside(k.at, lo, hi),
         m.at \cap k.at = {}
  PROVE  Clear(<<m, k>>, lo, hi)
BY DEF Clear

\* Searches within half a margin of a position.
SearchSound(n, t, half) ==
  LET at == Extreme(n, Bar(n, t) - half, Bar(n, t) + half)
  IN  /\ Inside(at, WARMUP, End(n))
      /\ Inside(at, Bar(n, t) - half, Bar(n, t) + half)

LEMMA AroundWindow ==
  ASSUME NEW n \in Nat, n > 0, NEW t \in Thousandths, NEW half \in Int, 0 < half,
         half <= At(n, t), At(n, t) + half <= n
  PROVE  SearchSound(n, t, half)
<1>1. At(n, t) \in Int
  BY AtBounds
<1> DEFINE bar == Bar(n, t)
<1>2. bar = 30 + At(n, t) /\ End(n) = 30 + n /\ WARMUP = 30
  BY DEF Bar, End, WARMUP
<1> HIDE DEF bar
<1>3. /\ bar - half \in Int /\ bar + half \in Int
      /\ 30 <= bar - half /\ bar - half < bar + half /\ bar + half <= 30 + n
  BY <1>1, <1>2
<1>4. Inside(Extreme(n, bar - half, bar + half), bar - half, bar + half)
  BY <1>2, <1>3, ExtremeWindow
<1>5. Inside(Extreme(n, bar - half, bar + half), 30, 30 + n)
  BY <1>3, <1>4, InsideWider
<1> QED
  BY <1>2, <1>4, <1>5 DEF bar, SearchSound

\* The swings that marks are put at.
LEMMA SwingsInside ==
  ASSUME NEW n \in Nat, n > 0
  PROVE  /\ SwingSound(n, 330) /\ SwingSound(n, 460) /\ SwingSound(n, 500)
         /\ SwingSound(n, 740) /\ SwingSound(n, 800) /\ SwingSound(n, 880)
         /\ SwingSound(n, 900)
<1>1. \A t \in Thousandths : SwingSound(n, t)
  BY SwingWindow, Zenon
<1> QED
  BY <1>1 DEF Thousandths

\* No bar of the one is a bar of the other.
LEMMA Between ==
  ASSUME NEW a \in Int, NEW b \in Int, NEW S, Inside(S, a, b), NEW T,
         \A x \in T : x < a \/ b <= x
  PROVE  S \cap T = {}
BY DEF Inside

\* One mark, past a level that one guard keeps.
LEMMA GuardOfOne ==
  ASSUME NEW chart, NEW m, chart.marks = <<m>>, NEW g, chart.guards = {g},
         m.past = g.level => m.at \cap g.shut = {}
  PROVE  Guarded(chart)
BY DEF Guarded

LEMMA GuardOfTwo ==
  ASSUME NEW chart, NEW m, chart.marks = <<m>>, NEW g, NEW h, chart.guards = {g, h},
         m.past = g.level => m.at \cap g.shut = {},
         m.past = h.level => m.at \cap h.shut = {}
  PROVE  Guarded(chart)
BY DEF Guarded

LEMMA Unguarded ==
  ASSUME NEW chart, chart.guards = {}
  PROVE  Guarded(chart)
BY DEF Guarded

\* The candles that a breakout shuts in are before its test or after it.
LEMMA ShutAroundTest ==
  ASSUME NEW n \in Nat, n >= 48, At(n, 780) + 3 <= At(n, 800)
  PROVE  \A x \in Span(0, Bar(n, 780)) \cup Span(Bar(n, 880), End(n)) :
           x < Bar(n, 800) - 3 \/ Bar(n, 800) + 4 <= x
<1>1. /\ Bar(n, 780) \in Int /\ Bar(n, 800) \in Int /\ Bar(n, 880) \in Int
      /\ Bar(n, 780) <= Bar(n, 800) - 3 /\ Bar(n, 800) + 4 <= Bar(n, 880)
  BY DEF Bar, WARMUP, At
<1> QED
  BY <1>1 DEF Span, End, WARMUP

\* A breakout marks a test after the candles that are shut in.
LEMMA BreakoutIsMarked ==
  ASSUME NEW n \in Nat, n >= 48, NEW label, NEW side, NEW past \in BOOLEAN,
         side # "nothing", NEW shut,
         past => Swing(n, 800) \cap shut = {}
  PROVE  Clear(Breakout(n, label, side, past, shut).marks, WARMUP, End(n))
         /\ Guarded(Breakout(n, label, side, past, shut))
<1> DEFINE test == Swing(n, 800)
           mark == IF past THEN MarkPast(label, test, side) ELSE Mark(label, test)
           guard == Guard(side, Visits(n, {280, 500, 710}, At(n, 22)) \cup test, shut)
           chart == Breakout(n, label, side, past, shut)
<1>1. chart.marks = <<mark>> /\ chart.guards = {guard}
  BY DEF Breakout, Bare
<1>2. /\ mark.at = test /\ mark.past = IF past THEN side ELSE "nothing"
      /\ guard.level = side /\ guard.shut = shut
  BY DEF Mark, MarkPast, Guard
<1> HIDE DEF mark, guard, chart
<1>3. Inside(test, WARMUP, End(n))
  BY SwingsInside DEF SwingSound
<1>4. Clear(chart.marks, WARMUP, End(n))
  BY <1>1, <1>2, <1>3, OneMark
<1>5. mark.past = guard.level => mark.at \cap guard.shut = {}
  BY <1>2
<1>6. Guarded(chart)
  BY <1>1, <1>5, GuardOfOne
<1> QED
  BY <1>4, <1>6 DEF chart

LEMMA FakeoutIsMarked ==
  ASSUME NEW n, Roomy("fakeout", n), NEW target, NEW side \in Sides
  PROVE  Clear(Fakeout(n, target, side).marks, WARMUP, End(n))
         /\ Guarded(Fakeout(n, target, side))
<1> DEFINE held == Span(0, Bar(n, 780))
           shut == CASE target = "no_break"    -> Span(0, End(n))
                     [] target = "false_break" -> held \cup Span(Bar(n, 880), End(n))
                     [] OTHER                  -> held
           past == target # "no_break"
<1>1. Fakeout(n, target, side) = Breakout(n, "test", side, past, shut)
  BY DEF Fakeout
<1>2. past => shut \subseteq held \cup Span(Bar(n, 880), End(n))
  OBVIOUS
<1>3. side # "nothing" /\ n \in Nat /\ n >= 48 /\ At(n, 780) + 3 <= At(n, 800)
  BY DEF Sides, Roomy
<1>4. past \in BOOLEAN
  OBVIOUS
<1>5. past => Swing(n, 800) \cap shut = {}
  <2>1. \A x \in held \cup Span(Bar(n, 880), End(n)) :
           x < Bar(n, 800) - 3 \/ Bar(n, 800) + 4 <= x
    BY <1>3, ShutAroundTest
  <2>2. Inside(Swing(n, 800), Bar(n, 800) - 3, Bar(n, 800) + 4)
    BY <1>3, SwingsInside DEF SwingSound
  <2>3. Bar(n, 800) - 3 \in Int /\ Bar(n, 800) + 4 \in Int
    BY <1>3 DEF Bar, At, WARMUP
  <2> HIDE DEF past, shut, held
  <2>4. past => \A x \in shut : x < Bar(n, 800) - 3 \/ Bar(n, 800) + 4 <= x
    BY <1>2, <2>1
  <2> QED
    BY <2>2, <2>3, <2>4, Between
<1> HIDE DEF shut, past
<1>6. /\ Clear(Breakout(n, "test", side, past, shut).marks, WARMUP, End(n))
      /\ Guarded(Breakout(n, "test", side, past, shut))
  BY <1>3, <1>4, <1>5, BreakoutIsMarked
<1> QED
  BY <1>1, <1>6

LEMMA VolumeIsMarked ==
  ASSUME NEW n, Roomy("volume_confirmation", n), NEW side \in Sides
  PROVE  Clear(VolumeConfirmation(n, side).marks, WARMUP, End(n))
         /\ Guarded(VolumeConfirmation(n, side))
<1> DEFINE held == Span(0, Bar(n, 780))
           chart == Breakout(n, "break", side, TRUE, held)
<1>1. side # "nothing" /\ n \in Nat /\ n >= 48 /\ At(n, 780) + 3 <= At(n, 800)
  BY DEF Sides, Roomy
<1>2. /\ VolumeConfirmation(n, side).marks = chart.marks
      /\ VolumeConfirmation(n, side).guards = chart.guards
  BY DEF VolumeConfirmation, Breakout, Bare
<1>3. Swing(n, 800) \cap held = {}
  <2>1. \A x \in held : x < Bar(n, 800) - 3 \/ Bar(n, 800) + 4 <= x
    BY <1>1, ShutAroundTest
  <2>2. Inside(Swing(n, 800), Bar(n, 800) - 3, Bar(n, 800) + 4)
    BY <1>1, SwingsInside DEF SwingSound
  <2>3. Bar(n, 800) - 3 \in Int /\ Bar(n, 800) + 4 \in Int
    BY <1>1 DEF Bar, At, WARMUP
  <2> HIDE DEF held
  <2> QED
    BY <2>1, <2>2, <2>3, Between
<1> HIDE DEF held
<1>4. Clear(chart.marks, WARMUP, End(n)) /\ Guarded(chart)
  BY <1>1, <1>3, BreakoutIsMarked
<1> HIDE DEF chart
<1> QED
  BY <1>2, <1>4 DEF Guarded

LEMMA WyckoffIsMarked ==
  ASSUME NEW n, Roomy("wyckoff", n), NEW target
  PROVE  Clear(Wyckoff(n, target).marks, WARMUP, End(n)) /\ Guarded(Wyckoff(n, target))
<1> DEFINE swings(ts) == UNION {Swing(n, t) : t \in ts}
           near == IF target = "accumulation" THEN "resistance" ELSE "support"
           far == IF target = "accumulation" THEN "support" ELSE "resistance"
           event == IF target = "accumulation" THEN "spring" ELSE "upthrust"
           inside == Span(Bar(n, 240), End(n))
           outside == inside \ Span(Bar(n, 660), Bar(n, 790))
           mark == MarkPast(event, Swing(n, 740), far)
           first == Guard(near, swings({220, 400, 600}), inside)
           second == Guard(far, swings({300, 500, 680}), outside)
           chart == Wyckoff(n, target)
<1>1. n \in Nat /\ n >= 80 /\ n > 0
  BY DEF Roomy
<1>2. CASE target = "none"
  <2>1. chart.marks = << >>
    BY <1>2 DEF Wyckoff, Bare
  <2> QED
    BY <2>1 DEF Clear, Guarded
<1>3. CASE target # "none"
  <2>1. chart.marks = <<mark>> /\ chart.guards = {first, second}
    BY <1>3 DEF Wyckoff, Bare
  <2>2. /\ mark.at = Swing(n, 740) /\ mark.past = far
        /\ first.level = near /\ near # far
        /\ second.shut = outside
    BY DEF MarkPast, Guard
  <2>3. Inside(Swing(n, 740), WARMUP, End(n))
        /\ Inside(Swing(n, 740), Bar(n, 740) - 3, Bar(n, 740) + 4)
    <3>1. SwingSound(n, 740)
      BY <1>1, SwingsInside
    <3> QED
      BY <3>1 DEF SwingSound
  <2>4. /\ Bar(n, 660) \in Int /\ Bar(n, 740) \in Int /\ Bar(n, 790) \in Int
        /\ Bar(n, 660) <= Bar(n, 740) - 3 /\ Bar(n, 740) + 4 <= Bar(n, 790)
        /\ Bar(n, 740) - 3 \in Int /\ Bar(n, 740) + 4 \in Int
    BY <1>1 DEF Bar, WARMUP, At
  <2>5. \A x \in outside : x < Bar(n, 740) - 3 \/ Bar(n, 740) + 4 <= x
    <3>1. Bar(n, 240) \in Int /\ End(n) \in Int
      BY <1>1 DEF Bar, WARMUP, At, End
    <3> QED
      BY <2>4, <3>1 DEF Span
  <2> HIDE DEF mark, first, second, chart, near, far, outside
  <2>6. Clear(chart.marks, WARMUP, End(n))
    BY <2>1, <2>2, <2>3, OneMark
  <2>7. mark.at \cap second.shut = {}
    BY <2>2, <2>3, <2>4, <2>5, Between
  <2>8. mark.past # first.level
    BY <2>2
  <2>9. Guarded(chart)
    BY <2>1, <2>7, <2>8, GuardOfTwo
  <2> QED
    BY <2>6, <2>9 DEF chart
<1> QED
  BY <1>2, <1>3

LEMMA BarBounds ==
  ASSUME NEW n \in Nat, n > 0, NEW t \in Thousandths
  PROVE  /\ Bar(n, t) \in Int /\ WARMUP <= Bar(n, t) /\ Bar(n, t) < End(n)
         /\ Inside({Bar(n, t)}, WARMUP, End(n))
<1>1. At(n, t) \in Int /\ 0 <= At(n, t) /\ At(n, t) < n
  BY AtBounds
<1>2. Bar(n, t) \in Int /\ WARMUP <= Bar(n, t) /\ Bar(n, t) < End(n)
  BY <1>1 DEF Bar, WARMUP, End
<1> QED
  BY <1>2 DEF Inside

\* The bars that events are put at.
LEMMA EventsInside ==
  ASSUME NEW n \in Nat, n > 0
  PROVE  /\ Inside({Bar(n, 800)}, WARMUP, End(n))
         /\ Inside({Bar(n, 810)}, WARMUP, End(n))
         /\ Inside({Bar(n, 840)}, WARMUP, End(n))
<1> DEFINE inside(t) == Inside({Bar(n, t)}, WARMUP, End(n))
<1>1. \A t \in Thousandths : inside(t)
  BY BarBounds, Zenon
<1> HIDE DEF inside
<1>2. inside(800) /\ inside(810) /\ inside(840)
  BY <1>1 DEF Thousandths
<1> QED
  BY <1>2 DEF inside

LEMMA LiquidityIsMarked ==
  ASSUME NEW n \in Nat, n >= 48, NEW target
  PROVE  Clear(LiquiditySweep(n, target).marks, WARMUP, End(n))
         /\ Guarded(LiquiditySweep(n, target))
<1> DEFINE sweep == Bar(n, 800)
           event == IF target = "liquidity_sweep" THEN "sweep" ELSE "liquidation"
           mark == MarkPast(event, {sweep}, "support")
           guard == Guard("support", Visits(n, {220, 480, 720}, At(n, 20)),
                          Span(0, End(n)) \ {sweep})
           chart == LiquiditySweep(n, target)
<1>1. chart.marks = <<mark>> /\ chart.guards = {guard}
  BY DEF LiquiditySweep, Bare
<1>2. mark.at = {sweep} /\ guard.shut = Span(0, End(n)) \ {sweep}
  BY DEF MarkPast, Guard
<1>3. Inside({sweep}, WARMUP, End(n))
  <2>1. n > 0
    OBVIOUS
  <2> QED
    BY <2>1, EventsInside
<1> HIDE DEF mark, guard, chart, sweep
<1>4. Clear(chart.marks, WARMUP, End(n))
  BY <1>1, <1>2, <1>3, OneMark
<1>5. mark.at \cap guard.shut = {}
  BY <1>2
<1>6. Guarded(chart)
  BY <1>1, <1>5, GuardOfOne
<1> QED
  BY <1>4, <1>6 DEF chart

LEMMA ThreeMarks ==
  ASSUME NEW m, NEW k, NEW j, NEW lo \in Int, NEW hi \in Int, NEW a \in Int, NEW b \in Int,
         lo <= a, a <= b, b <= hi,
         Inside(m.at, lo, a), Inside(k.at, a, b), Inside(j.at, b, hi)
  PROVE  Clear(<<m, k, j>>, lo, hi)
<1>1. Inside(m.at, lo, hi) /\ Inside(k.at, lo, hi) /\ Inside(j.at, lo, hi)
  BY InsideWider
<1>2. /\ m.at \cap k.at = {} /\ k.at \cap m.at = {}
      /\ k.at \cap j.at = {} /\ j.at \cap k.at = {}
  BY InsideApart
<1>3. Inside(j.at, a, hi)
  BY InsideWider
<1>4. m.at \cap j.at = {} /\ j.at \cap m.at = {}
  BY <1>3, InsideApart
<1> QED
  BY <1>1, <1>2, <1>4 DEF Clear

\* The greatest of the bars of a window.
LEMMA MaxOfSpan ==
  ASSUME NEW lo \in Int, NEW hi \in Int, lo < hi
  PROVE  Max(Span(lo, hi)) = hi - 1
<1>1. hi - 1 \in Span(lo, hi) /\ \A x \in Span(lo, hi) : x \in Int /\ x <= hi - 1
  BY DEF Span
<1>2. \A y \in Span(lo, hi) : (\A x \in Span(lo, hi) : y >= x) => y = hi - 1
  BY <1>1
<1> QED
  BY <1>1, <1>2 DEF Max

LEMMA OriginIsMarked ==
  ASSUME NEW n \in Nat, n >= 48, NEW target
  PROVE  Clear(OriginZone(n, target).marks, WARMUP, End(n)) /\ Guarded(OriginZone(n, target))
<1> DEFINE search == Max({2, At(n, 50)})
           start == Bar(n, 470) - search
           stop == Bar(n, 470) + search + 1
           low == Extreme(n, start, stop)
           retest == Bar(n, 800)
           early == Extreme(n, Bar(n, 600), Bar(n, 720))
           failed == Mark("failed_break", early)
           origin == Mark("origin", low)
           bos == Mark("BOS", Span(Max(low) + 1, retest))
           touch == Mark("retest", {retest})
           chart == OriginZone(n, target)
<1>1. /\ WARMUP \in Int /\ End(n) \in Int /\ 0 <= WARMUP /\ WARMUP < End(n)
      /\ Bar(n, 600) \in Int /\ Bar(n, 720) \in Int /\ Bar(n, 800) \in Int /\ Bar(n, 470) \in Int
      /\ WARMUP <= Bar(n, 600) /\ Bar(n, 600) < Bar(n, 720) /\ Bar(n, 720) <= End(n)
  BY DEF WARMUP, End, Bar, At
<1>2. /\ start \in Int /\ stop \in Int /\ WARMUP <= start /\ start < stop
      /\ stop < Bar(n, 800) /\ stop <= End(n)
  <2>1. At(n, 50) \in Int /\ search = IF 2 >= At(n, 50) THEN 2 ELSE At(n, 50)
    BY MaxOfTwo DEF At
  <2> HIDE DEF search
  <2> QED
    BY <2>1 DEF WARMUP, End, Bar, At
<1>3. chart.guards = {}
  BY DEF OriginZone, Bare
<1>4. CASE target = "no_zone"
  <2>1. chart.marks = <<failed>>
    BY <1>4 DEF OriginZone, Bare
  <2>2. failed.at = early
    BY DEF Mark
  <2>3. Inside(early, Bar(n, 600), Bar(n, 720))
    BY <1>1, ExtremeWindow
  <2>4. Inside(early, WARMUP, End(n))
    BY <1>1, <2>3, InsideWider
  <2> HIDE DEF failed, early, chart
  <2>5. Clear(chart.marks, WARMUP, End(n))
    BY <2>1, <2>2, <2>4, OneMark
  <2> QED
    BY <1>3, <2>5, Unguarded DEF chart
<1>5. CASE target # "no_zone"
  <2>1. chart.marks = <<origin, bos, touch>>
    BY <1>5 DEF OriginZone, Bare
  <2>2. origin.at = low /\ bos.at = Span(Max(low) + 1, retest) /\ touch.at = {retest}
    BY DEF Mark
  <2> HIDE DEF start, stop
  <2>3. low = Span(start, stop) /\ Inside(low, start, stop)
    BY <1>1, <1>2, ExtremeWindow
  <2>4. Max(low) = stop - 1
    BY <1>2, <2>3, MaxOfSpan
  <2> HIDE DEF low, retest, origin, bos, touch, chart
  <2>5. bos.at = Span(stop, retest)
    BY <1>2, <2>2, <2>4
  <2>6. Inside(bos.at, stop, retest)
    BY <1>1, <1>2, <2>5, SpanInside DEF retest
  <2>7. Inside(origin.at, WARMUP, stop)
    BY <1>1, <1>2, <2>2, <2>3, InsideWider
  <2>8. Inside(touch.at, retest, End(n))
    <3>1. retest < End(n)
      BY DEF retest, Bar, At, End, WARMUP
    <3> QED
      BY <1>1, <2>2, <3>1, OneInside DEF retest
  <2>9. Clear(chart.marks, WARMUP, End(n))
    <3>1. WARMUP <= stop /\ stop <= retest /\ retest <= End(n) /\ retest \in Int
      BY <1>1, <1>2 DEF retest, Bar, At, End, WARMUP
    <3> QED
      BY <1>1, <1>2, <2>1, <2>6, <2>7, <2>8, <3>1, ThreeMarks
  <2> QED
    BY <1>3, <2>9, Unguarded DEF chart
<1> QED
  BY <1>4, <1>5

\* A mark and guards that name other levels, or keep the others from it.
LEMMA ImbalanceIsMarked ==
  ASSUME NEW n \in Nat, n >= 48, NEW target
  PROVE  Clear(Imbalance(n, target).marks, WARMUP, End(n)) /\ Guarded(Imbalance(n, target))
<1> DEFINE g == Bar(n, 440)
           after == Span(g + 2, End(n))
           gap == Guard("low", {}, Span(0, g))
           high == Guard("high", {}, after)
           zone == Mark("imbalance", {g})
           revisit == MarkPast("revisit", after, "low")
           through == Mark("traded_through", {g + 2})
           chart == Imbalance(n, target)
<1>1. /\ WARMUP \in Int /\ End(n) \in Int /\ g \in Int /\ 0 <= WARMUP
      /\ WARMUP <= g /\ g + 2 < End(n)
  BY DEF WARMUP, End, Bar, At
<1>2. /\ gap.level = "low" /\ gap.shut = Span(0, g) /\ high.level = "high"
      /\ zone.at = {g} /\ zone.past = "nothing"
      /\ revisit.at = after /\ revisit.past = "low"
      /\ through.at = {g + 2} /\ through.past = "nothing"
  BY DEF Mark, MarkPast, Guard
<1>3. CASE target = "no_imbalance"
  <2>1. chart.marks = <<through>> /\ chart.guards = {}
    BY <1>3 DEF Imbalance, Bare
  <2> HIDE DEF g
  <2>2. Inside({g + 2}, WARMUP, End(n))
    BY <1>1, OneInside
  <2> HIDE DEF through, chart
  <2>3. Inside(through.at, WARMUP, End(n))
    BY <1>2, <2>2
  <2> QED
    BY <2>1, <2>3, OneMark, Unguarded DEF chart
<1>4. CASE target = "imbalance_unfilled"
  <2>1. chart.marks = <<zone>> /\ chart.guards = {gap, high}
    BY <1>4 DEF Imbalance, Bare
  <2> HIDE DEF g, zone, gap, high, chart
  <2>2. Inside(zone.at, WARMUP, End(n))
    BY <1>1, <1>2, OneInside
  <2>3. Clear(chart.marks, WARMUP, End(n))
    BY <2>1, <2>2, OneMark
  <2>4. zone.past # gap.level /\ zone.past # high.level
    BY <1>2
  <2>5. Guarded(chart)
    BY <2>1, <2>4, GuardOfTwo
  <2> QED
    BY <2>3, <2>5 DEF chart
<1>5. CASE target \notin {"no_imbalance", "imbalance_unfilled"}
  <2>1. chart.marks = <<zone, revisit>> /\ chart.guards = {gap}
    BY <1>5 DEF Imbalance, Bare
  <2> HIDE DEF g
  <2>2. Inside(after, g + 2, End(n))
    BY <1>1, SpanInside
  <2>3. Inside(zone.at, WARMUP, g + 2)
    BY <1>1, <1>2 DEF Inside
  <2> HIDE DEF after, zone, revisit, gap, chart
  <2>4. Inside(zone.at, WARMUP, End(n)) /\ Inside(revisit.at, WARMUP, End(n))
    BY <1>1, <1>2, <2>2, <2>3, InsideWider
  <2>5. zone.at \cap revisit.at = {}
    BY <1>1, <1>2, <2>2, <2>3, InsideApart
  <2>6. Clear(chart.marks, WARMUP, End(n))
    BY <2>1, <2>4, <2>5, TwoMarks
  <2>7. revisit.at \cap gap.shut = {}
    <3>1. \A x \in gap.shut : x < g + 2 \/ End(n) <= x
      BY <1>1, <1>2 DEF Span
    <3> QED
      BY <1>1, <1>2, <2>2, <3>1, Between
  <2>8. Guarded(chart)
    BY <1>2, <2>1, <2>7 DEF Guarded
  <2> QED
    BY <2>6, <2>8 DEF chart
<1> QED
  BY <1>3, <1>4, <1>5

LEMMA Swings460And900 ==
  ASSUME NEW n \in Nat, n >= 48
  PROVE  /\ Inside(Swing(n, 460), WARMUP, End(n)) /\ Inside(Swing(n, 900), WARMUP, End(n))
         /\ Swing(n, 460) \cap Swing(n, 900) = {}
<1>1. /\ Bar(n, 460) + 4 \in Int /\ Bar(n, 900) - 3 \in Int
      /\ Bar(n, 460) + 4 <= Bar(n, 900) - 3
  BY DEF Bar, WARMUP, At
<1> QED
  BY <1>1, SwingsInside, InsideApart DEF SwingSound

LEMMA Swings500And800 ==
  ASSUME NEW n \in Nat, n >= 48
  PROVE  /\ Inside(Swing(n, 500), WARMUP, End(n)) /\ Inside(Swing(n, 800), WARMUP, End(n))
         /\ Swing(n, 500) \cap Swing(n, 800) = {}
<1>1. /\ Bar(n, 500) + 4 \in Int /\ Bar(n, 800) - 3 \in Int
      /\ Bar(n, 500) + 4 <= Bar(n, 800) - 3
  BY DEF Bar, WARMUP, At
<1> QED
  BY <1>1, SwingsInside, InsideApart DEF SwingSound

LEMMA Swings330And880 ==
  ASSUME NEW n \in Nat, n >= 48
  PROVE  /\ Inside(Swing(n, 330), WARMUP, End(n)) /\ Inside(Swing(n, 880), WARMUP, End(n))
         /\ Swing(n, 330) \cap Swing(n, 880) = {}
<1>1. /\ Bar(n, 330) + 4 \in Int /\ Bar(n, 880) - 3 \in Int
      /\ Bar(n, 330) + 4 <= Bar(n, 880) - 3
  BY DEF Bar, WARMUP, At
<1> QED
  BY <1>1, SwingsInside, InsideApart DEF SwingSound

LEMMA CvdIsMarked ==
  ASSUME NEW n \in Nat, n >= 48
  PROVE  Clear(CvdDivergence(n).marks, WARMUP, End(n)) /\ Guarded(CvdDivergence(n))
<1> DEFINE chart == CvdDivergence(n)
           first == Mark("1", Swing(n, 460))
           second == Mark("2", Swing(n, 900))
<1>1. chart.marks = <<first, second>> /\ chart.guards = {}
  BY DEF CvdDivergence, Bare
<1>2. first.at = Swing(n, 460) /\ second.at = Swing(n, 900)
  BY DEF Mark
<1> HIDE DEF chart, first, second
<1> QED
  BY <1>1, <1>2, Swings460And900, TwoMarks, Unguarded DEF chart

LEMMA FibonacciIsMarked ==
  ASSUME NEW n \in Nat, n >= 48
  PROVE  Clear(Fibonacci(n).marks, WARMUP, End(n)) /\ Guarded(Fibonacci(n))
<1> DEFINE chart == Fibonacci(n)
           first == Mark("swing", Swing(n, 500))
           second == Mark("pullback", Swing(n, 800))
<1>1. chart.marks = <<first, second>> /\ chart.guards = {}
  BY DEF Fibonacci, Bare
<1>2. first.at = Swing(n, 500) /\ second.at = Swing(n, 800)
  BY DEF Mark
<1> HIDE DEF chart, first, second
<1> QED
  BY <1>1, <1>2, Swings500And800, TwoMarks, Unguarded DEF chart

LEMMA UnmarkedCharts ==
  ASSUME NEW n
  PROVE  /\ Clear(Bare(n).marks, WARMUP, End(n)) /\ Guarded(Bare(n))
         /\ Clear(Derivatives(n).marks, WARMUP, End(n)) /\ Guarded(Derivatives(n))
         /\ Clear(MaContext(n).marks, WARMUP, End(n)) /\ Guarded(MaContext(n))
<1>1. /\ Bare(n).marks = << >> /\ Derivatives(n).marks = << >> /\ MaContext(n).marks = << >>
      /\ Bare(n).guards = {} /\ Derivatives(n).guards = {} /\ MaContext(n).guards = {}
  BY DEF Bare, Derivatives, MaContext
<1> QED
  BY <1>1 DEF Clear, Guarded

LEMMA CandleIsMarked ==
  ASSUME NEW n \in Nat, n >= 3, NEW target, NEW form \in DOMAIN Forms
  PROVE  Clear(CandleReaction(n, target, form).marks, WARMUP, End(n))
         /\ Guarded(CandleReaction(n, target, form))
<1> DEFINE side == Forms[form][3]
           first == End(n) - Forms[form][1]
           bar == first + Forms[form][2]
           atLevel == side # "none" /\ target \notin {"open_space", "indecision"}
           past == MarkPast(form, {bar}, side)
           plain == Mark(form, {bar})
           guard == Guard(side, Swing(n, 300) \cup Swing(n, 660) \cup {first - 1}, Span(0, first))
           chart == CandleReaction(n, target, form)
<1>1. /\ Forms[form][1] \in 1..3 /\ Forms[form][2] \in 0..2 /\ Forms[form][2] < Forms[form][1]
  BY DEF Forms
<1>2. /\ first \in Int /\ bar \in Int /\ first <= bar
      /\ WARMUP <= bar /\ bar < End(n) /\ WARMUP \in Int /\ End(n) \in Int
  BY <1>1 DEF End, WARMUP
<1>3. past.at = {bar} /\ plain.at = {bar} /\ guard.shut = Span(0, first)
  BY DEF Mark, MarkPast, Guard
<1>4. chart.marks = IF atLevel THEN <<past>> ELSE <<plain>>
  BY DEF CandleReaction, Bare
<1>5. chart.guards = IF atLevel THEN {guard} ELSE {}
  BY DEF CandleReaction, Bare
<1> HIDE DEF bar, first, past, plain, guard, chart, atLevel, side
<1>6. Inside({bar}, WARMUP, End(n))
  BY <1>2, OneInside
<1>7. Clear(chart.marks, WARMUP, End(n))
  BY <1>3, <1>4, <1>6, OneMark
<1>8. {bar} \cap Span(0, first) = {}
  BY <1>2 DEF Span
<1>9. Guarded(chart)
  BY <1>3, <1>4, <1>5, <1>8, GuardOfOne, Unguarded
<1> QED
  BY <1>7, <1>9 DEF chart

LEMMA FramesAreMarked ==
  ASSUME NEW n \in Nat, n >= 48, NEW target, NEW shape \in DOMAIN Turns
  PROVE  LET chart == MultiTimeframe(n, target, shape)
         IN  Clear(chart.marks, chart.warmup, Length(chart)) /\ Guarded(chart)
<1> DEFINE bars == n - (n % RATIO)
           half == Max({2, At(bars, 30)})
           turn == 32 + At(bars, Turns[shape])
           mark == Mark("turn", Span(turn - half, turn + half))
           chart == MultiTimeframe(n, target, shape)
<1>1. bars \in Nat /\ bars >= 48
  BY DEF RATIO
<1>2. Turns[shape] \in {640, 720, 800}
  BY DEF Turns
<1>3. /\ chart.marks = <<mark>> /\ chart.guards = {} /\ chart.warmup = 32 /\ chart.bars = bars
  BY DEF MultiTimeframe, Bare
<1> HIDE DEF bars
<1>4. half \in Int /\ 2 <= half /\ turn \in Int /\ 32 <= turn - half /\ turn + half <= 32 + bars
  <2>1. At(bars, 30) \in Int /\ half = IF 2 >= At(bars, 30) THEN 2 ELSE At(bars, 30)
    BY <1>1, MaxOfTwo DEF At
  <2> HIDE DEF half
  <2>2. CASE Turns[shape] = 640
    BY <1>1, <2>1, <2>2 DEF At
  <2>3. CASE Turns[shape] = 720
    BY <1>1, <2>1, <2>3 DEF At
  <2>4. CASE Turns[shape] = 800
    BY <1>1, <2>1, <2>4 DEF At
  <2> QED
    BY <1>2, <2>2, <2>3, <2>4
<1> HIDE DEF half, turn
<1>5. mark.at = Span(turn - half, turn + half)
  BY DEF Mark
<1>6. Inside(mark.at, turn - half, turn + half)
  BY <1>4, <1>5, SpanInside
<1>7. Inside(mark.at, 32, 32 + bars)
  BY <1>1, <1>4, <1>6, InsideWider
<1> HIDE DEF mark, chart
<1>8. Clear(chart.marks, chart.warmup, Length(chart))
  BY <1>3, <1>7, OneMark DEF Length
<1> QED
  BY <1>3, <1>8, Unguarded DEF chart

LEMMA BandsAreMarked ==
  ASSUME NEW n \in Nat, n >= 48, NEW target
  PROVE  Clear(VolatilityBands(n, target).marks, WARMUP, End(n))
         /\ Guarded(VolatilityBands(n, target))
<1> DEFINE chart == VolatilityBands(n, target)
           mark == Mark(target, {Bar(n, 810)})
<1>1. chart.marks = <<mark>> /\ chart.guards = {}
  BY DEF VolatilityBands, Bare
<1>2. mark.at = {Bar(n, 810)}
  BY DEF Mark
<1>3. n > 0
  OBVIOUS
<1>4. Inside({Bar(n, 810)}, WARMUP, End(n))
  BY <1>3, EventsInside
<1> HIDE DEF mark, chart
<1> QED
  BY <1>1, <1>2, <1>4, OneMark, Unguarded DEF chart

LEMMA GapIsMarked ==
  ASSUME NEW n \in Nat, n >= 48
  PROVE  Clear(StopLimitGap(n).marks, WARMUP, End(n)) /\ Guarded(StopLimitGap(n))
<1> DEFINE s == Bar(n, 720)
           later == Min({s + 4, End(n) - 1})
           gap == MarkPast("gap", {s}, "trigger")
           unfilled == Mark("unfilled", {later})
           trigger == Guard("trigger", {s - 1}, Span(0, s))
           limit == Guard("limit", {}, Span(s + 1, End(n)))
           chart == StopLimitGap(n)
<1>1. /\ WARMUP \in Int /\ End(n) \in Int /\ s \in Int /\ WARMUP <= s /\ s + 1 < End(n)
  BY DEF WARMUP, End, Bar, At
<1>2. /\ gap.at = {s} /\ gap.past = "trigger" /\ unfilled.at = {later}
      /\ unfilled.past = "nothing" /\ trigger.level = "trigger" /\ trigger.shut = Span(0, s)
      /\ limit.level = "limit"
  BY DEF Mark, MarkPast, Guard
<1>3. chart.marks = <<gap, unfilled>> /\ chart.guards = {trigger, limit}
  BY DEF StopLimitGap, Bare
<1> HIDE DEF s
<1>4. later \in Int /\ s < later /\ later < End(n)
  <2>1. later = IF s + 4 <= End(n) - 1 THEN s + 4 ELSE End(n) - 1
    BY <1>1, MinOfTwo
  <2> HIDE DEF later
  <2> QED
    BY <1>1, <2>1
<1> HIDE DEF later, gap, unfilled, trigger, limit, chart
<1>5. Inside(gap.at, WARMUP, End(n)) /\ Inside(unfilled.at, WARMUP, End(n))
  BY <1>1, <1>2, <1>4 DEF Inside
<1>6. gap.at \cap unfilled.at = {}
  BY <1>1, <1>2, <1>4
<1>7. Clear(chart.marks, WARMUP, End(n))
  BY <1>3, <1>5, <1>6, TwoMarks
<1>8. gap.at \cap trigger.shut = {}
  BY <1>1, <1>2 DEF Span
<1>9. Guarded(chart)
  BY <1>2, <1>3, <1>8 DEF Guarded
<1> QED
  BY <1>7, <1>9 DEF chart

LEMMA AnatomyIsMarked ==
  ASSUME NEW n \in Nat, n >= 48
  PROVE  Clear(TradeAnatomy(n).marks, WARMUP, End(n)) /\ Guarded(TradeAnatomy(n))
<1> DEFINE r == Bar(n, 840)
           mark == MarkPast("rejection", {r}, "confluence")
           early == Guard("confluence", Visits(n, {150, 310}, At(n, 20)), Span(0, Bar(n, 370)))
           late == Guard("confluence", Swing(n, 800), Span(Bar(n, 480), End(n)) \ {r})
           tip == Guard("tip", {}, Span(0, End(n)) \ {r})
           chart == TradeAnatomy(n)
<1>1. chart.marks = <<mark>> /\ chart.guards = {early, late, tip}
  BY DEF TradeAnatomy, Bare
<1>2. /\ mark.at = {r} /\ early.shut = Span(0, Bar(n, 370))
      /\ late.shut = Span(Bar(n, 480), End(n)) \ {r} /\ tip.shut = Span(0, End(n)) \ {r}
  BY DEF MarkPast, Guard
<1>3. r \in Int /\ Bar(n, 370) \in Int /\ Bar(n, 370) < r
  BY DEF Bar, WARMUP, At
<1>4. n > 0
  OBVIOUS
<1>5. Inside({r}, WARMUP, End(n))
  BY <1>4, EventsInside
<1> HIDE DEF r, mark, early, late, tip, chart
<1>6. r \notin early.shut
  BY <1>2, <1>3 DEF Span
<1>7. /\ mark.at \cap early.shut = {} /\ mark.at \cap late.shut = {}
      /\ mark.at \cap tip.shut = {}
  BY <1>2, <1>6
<1>8. Guarded(chart)
  BY <1>1, <1>7 DEF Guarded
<1> QED
  BY <1>1, <1>2, <1>5, <1>8, OneMark DEF chart

\* Where searches are, and when one is far enough after another.
Places == 60..900
Later(t, u) == t + 80 <= u

\* How far a search goes to each side of a position, and its candles.
Searching(n, half) ==
  /\ n \in Nat /\ n >= 50
  /\ half \in Int /\ 0 < half /\ (half = 2 \/ half <= At(n, 30))

Around(n, half, t) == Extreme(n, Bar(n, t) - half, Bar(n, t) + half)

\* Two searches are apart when their positions are.
LEMMA SearchesApart ==
  ASSUME NEW n, NEW half, Searching(n, half),
         NEW t \in Places, NEW u \in Places, Later(t, u)
  PROVE  At(n, t) + half <= At(n, u) - half
<1> n \in Nat /\ n >= 50 /\ half \in Int /\ 0 < half /\ (half = 2 \/ half <= At(n, 30))
  BY DEF Searching
<1>1. t * n + 80 * n <= u * n
  <2>1. t \in Int /\ u \in Int /\ t + 80 <= u
    BY DEF Places, Later
  <2>2. (u - t - 80) * n >= 0
    BY <2>1
  <2> QED
    BY <2>1, <2>2
<1> DEFINE a == t * n
           b == u * n
<1>2. a \in Int /\ b \in Int
  BY DEF Places
<1> HIDE DEF a, b
<1>3. At(n, t) = a \div 1000 /\ At(n, u) = b \div 1000 /\ At(n, 30) = (30 * n) \div 1000
  BY DEF At, a, b
<1>4. a + 80 * n <= b
  BY <1>1 DEF a, b
<1>5. CASE half = 2
  BY <1>2, <1>3, <1>4, <1>5
<1>6. CASE half <= At(n, 30)
  BY <1>2, <1>3, <1>4, <1>6
<1> QED
  BY <1>5, <1>6

LEMMA SearchOnPage ==
  ASSUME NEW n, NEW half, Searching(n, half), NEW t \in Places
  PROVE  half <= At(n, t) /\ At(n, t) + half <= n
<1> n \in Nat /\ n >= 50 /\ half \in Int /\ 0 < half /\ (half = 2 \/ half <= At(n, 30))
  BY DEF Searching
<1>1. 60 * n <= t * n /\ t * n <= 900 * n
  BY DEF Places
<1> DEFINE a == t * n
<1>2. a \in Int
  BY DEF Places
<1> HIDE DEF a
<1>3. At(n, t) = a \div 1000 /\ At(n, 30) = (30 * n) \div 1000
  BY DEF At, a
<1>4. 60 * n <= a /\ a <= 900 * n
  BY <1>1 DEF a
<1>5. CASE half = 2
  BY <1>2, <1>3, <1>4, <1>5
<1>6. CASE half <= At(n, 30)
  BY <1>2, <1>3, <1>4, <1>6
<1> QED
  BY <1>5, <1>6

LEMMA OneSearch ==
  ASSUME NEW n, NEW half, Searching(n, half), NEW t \in Places
  PROVE  SearchSound(n, t, half)
<1>1. half <= At(n, t) /\ At(n, t) + half <= n
  BY SearchOnPage, Zenon
<1>2. n \in Nat /\ n > 0 /\ half \in Int /\ 0 < half
  BY DEF Searching
<1>3. t \in Thousandths
  BY DEF Places, Thousandths
<1> QED
  BY <1>1, <1>2, <1>3, AroundWindow, Zenon

LEMMA TwoSearches ==
  ASSUME NEW n, NEW half, Searching(n, half),
         NEW t \in Places, NEW u \in Places, Later(t, u)
  PROVE  Around(n, half, t) \cap Around(n, half, u) = {}
<1> DEFINE a == Bar(n, t) - half
           b == Bar(n, t) + half
           c == Bar(n, u) - half
           d == Bar(n, u) + half
<1>1. At(n, t) + half <= At(n, u) - half
  BY SearchesApart, Zenon
<1>2. At(n, t) \in Int /\ At(n, u) \in Int /\ half \in Int
  BY DEF At, Searching, Places
<1>3. b \in Int /\ c \in Int /\ b <= c
  BY <1>1, <1>2 DEF Bar, WARMUP
<1>4. SearchSound(n, t, half) /\ SearchSound(n, u, half)
  BY OneSearch, Zenon
<1>5. Inside(Around(n, half, t), a, b) /\ Inside(Around(n, half, u), c, d)
  BY <1>4, Zenon DEF SearchSound, Around
<1> HIDE DEF a, b, c, d
<1> QED
  BY <1>3, <1>5, InsideApart

\* Positions of searches that are apart.
Positions(N, t) ==
  /\ \A i \in 1..N : t[i] \in Places
  /\ \A i, j \in 1..N : i < j => Later(t[i], t[j])

\* A mark for each of some searches that are apart.
LEMMA SearchesInOrder ==
  ASSUME NEW n, NEW half, Searching(n, half),
         NEW N \in Nat, NEW t, Positions(N, t),
         NEW marks, DOMAIN marks = 1..N,
         \A i \in 1..N : marks[i].at = Around(n, half, t[i])
  PROVE  Clear(marks, WARMUP, End(n))
<1> DEFINE at(u) == Around(n, half, u)
<1>1. \A u \in Places : Inside(at(u), WARMUP, End(n))
  <2> SUFFICES ASSUME NEW u \in Places PROVE Inside(Around(n, half, u), WARMUP, End(n))
    OBVIOUS
  <2>1. SearchSound(n, u, half)
    BY OneSearch, Zenon
  <2> QED
    BY <2>1, Zenon DEF SearchSound, Around
<1>2. \A u, v \in Places : Later(u, v) => at(u) \cap at(v) = {}
  BY TwoSearches, Zenon
<1> HIDE DEF at
<1>3. \A i \in 1..N : marks[i].at = at(t[i])
  BY DEF at
<1>4. \A i \in 1..N : t[i] \in Places
  BY DEF Positions
<1>5. \A i \in DOMAIN marks : Inside(marks[i].at, WARMUP, End(n))
  BY <1>1, <1>3, <1>4
<1>6. ASSUME NEW i \in 1..N, NEW j \in 1..N, i < j
      PROVE  marks[i].at \cap marks[j].at = {}
  <2>1. Later(t[i], t[j])
    BY <1>6 DEF Positions
  <2>2. at(t[i]) \cap at(t[j]) = {}
    BY <1>2, <1>4, <2>1
  <2> QED
    BY <1>3, <2>2
<1>7. \A i, j \in 1..N : i # j => i < j \/ j < i
  OBVIOUS
<1>8. \A i, j \in DOMAIN marks : i # j => marks[i].at \cap marks[j].at = {}
  BY <1>6, <1>7
<1> QED
  BY <1>5, <1>8 DEF Clear

LEMMA ChannelIsMarked ==
  ASSUME NEW n \in Nat, n >= 50, NEW target
  PROVE  Clear(TrendChannel(n, target).marks, WARMUP, End(n)) /\ Guarded(TrendChannel(n, target))
<1> DEFINE half == Max({2, At(n, 30)})
           around(t) == Around(n, half, t)
           t == <<60, 300, 540, 720, 800>>
           marks == <<Mark("touch", around(60)), Mark("touch", around(300)),
                      Mark("touch", around(540)), Mark("touch", around(720)),
                      Mark("test", around(800))>>
           chart == TrendChannel(n, target)
<1>1. chart.marks = marks /\ chart.guards = {}
  BY DEF TrendChannel, Bare, Around
<1>2. Searching(n, half)
  <2>1. At(n, 30) \in Int /\ half = IF 2 >= At(n, 30) THEN 2 ELSE At(n, 30)
    BY MaxOfTwo DEF At
  <2> HIDE DEF half
  <2> QED
    BY <2>1 DEF Searching
<1> HIDE DEF half, chart
<1>3. Positions(5, t)
  BY DEF Positions, Places, Later
<1>4. DOMAIN marks = 1..5 /\ \A i \in 1..5 : marks[i].at = around(t[i])
  <2>1. \A i \in 1..5 : i = 1 \/ i = 2 \/ i = 3 \/ i = 4 \/ i = 5
    OBVIOUS
  <2>2. /\ marks[1].at = around(60) /\ marks[2].at = around(300) /\ marks[3].at = around(540)
        /\ marks[4].at = around(720) /\ marks[5].at = around(800)
    BY DEF Mark
  <2> QED
    BY <2>1, <2>2
<1> HIDE DEF marks, t
<1>5. Clear(marks, WARMUP, End(n))
  BY <1>2, <1>3, <1>4, SearchesInOrder
<1> QED
  BY <1>1, <1>5, Unguarded DEF chart

LEMMA AppendEntries ==
  ASSUME NEW S, NEW s \in Seq(S), NEW x \in S
  PROVE  /\ DOMAIN Append(s, x) = 1..(Len(s) + 1)
         /\ Append(s, x)[Len(s) + 1] = x
         /\ \A i \in 1..Len(s) : Append(s, x)[i] = s[i]
OBVIOUS

LEMMA LinesAreMarked ==
  ASSUME NEW n \in Nat, n >= 50, NEW target
  PROVE  Clear(ConvergingLines(n, target).marks, WARMUP, End(n))
         /\ Guarded(ConvergingLines(n, target))
<1> DEFINE half == Max({2, At(n, 25)})
           around(u) == Around(n, half, u)
           swings == <<70, 170, 270, 370, 470, 570, 660, 740>>
           t == <<70, 170, 270, 370, 470, 570, 660, 740, 820>>
           touches == [i \in DOMAIN swings |-> Mark("touch", around(swings[i]))]
           test == Mark("test", around(820))
           tested == target \in {"break_confirmed", "break_unconfirmed", "compression_holding"}
           chart == ConvergingLines(n, target)
<1>1. chart.marks = (IF tested THEN Append(touches, test) ELSE touches) /\ chart.guards = {}
  BY DEF ConvergingLines, Bare, Around
<1>2. Searching(n, half)
  <2>1. /\ At(n, 25) \in Int /\ half = (IF 2 >= At(n, 25) THEN 2 ELSE At(n, 25))
        /\ At(n, 25) <= At(n, 30) /\ At(n, 30) \in Int
    BY MaxOfTwo DEF At
  <2> HIDE DEF half
  <2> QED
    BY <2>1 DEF Searching
<1> HIDE DEF half
<1>3. Positions(8, t) /\ Positions(9, t)
  BY DEF Positions, Places, Later
<1>4. DOMAIN swings = 1..8 /\ \A i \in 1..8 : swings[i] = t[i]
  OBVIOUS
<1>5. t[9] = 820
  OBVIOUS
<1> HIDE DEF chart, around, swings, t, tested
<1>6. DOMAIN touches = 1..8 /\ \A i \in 1..8 : touches[i].at = around(t[i])
  BY <1>4 DEF Mark
<1>7. test.at = around(t[9])
  BY <1>5 DEF Mark
<1> DEFINE S == {test} \cup {touches[i] : i \in 1..8}
<1>8. touches \in Seq(S) /\ Len(touches) = 8 /\ test \in S
  BY <1>6
<1> HIDE DEF touches, test, S
<1>9. DOMAIN Append(touches, test) = 1..9
      /\ \A i \in 1..9 : Append(touches, test)[i] = IF i = 9 THEN test ELSE touches[i]
  <2> DEFINE r == Append(touches, test)
  <2>1. /\ DOMAIN r = 1..(Len(touches) + 1)
        /\ r[Len(touches) + 1] = test
        /\ \A i \in 1..Len(touches) : r[i] = touches[i]
    <3>1. touches \in Seq(S) /\ test \in S
      BY <1>8
    <3> HIDE DEF r
    <3>2. r = Append(touches, test)
      BY DEF r
    <3> QED
      BY <3>1, <3>2, AppendEntries
  <2> HIDE DEF r
  <2>2. DOMAIN r = 1..9 /\ r[9] = test /\ \A i \in 1..8 : r[i] = touches[i]
    BY <1>8, <2>1
  <2>3. \A i \in 1..9 : i = 9 \/ i \in 1..8
    OBVIOUS
  <2>4. \A i \in 1..8 : i # 9
    OBVIOUS
  <2> QED
    BY <2>2, <2>3, <2>4 DEF r
<1>10. \A i \in 1..9 : Append(touches, test)[i].at = around(t[i])
  BY <1>6, <1>7, <1>9
<1>11. Clear(touches, WARMUP, End(n))
  BY <1>2, <1>3, <1>6, SearchesInOrder, Zenon DEF around
<1>12. Clear(Append(touches, test), WARMUP, End(n))
  <2> DEFINE marks == Append(touches, test)
  <2>1. 9 \in Nat /\ DOMAIN marks = 1..9
    BY <1>9
  <2>2. \A i \in 1..9 : marks[i].at = around(t[i])
    BY <1>10
  <2> HIDE DEF marks
  <2>3. Clear(marks, WARMUP, End(n))
    BY <1>2, <1>3, <2>1, <2>2, SearchesInOrder, Zenon DEF around
  <2> QED
    BY <2>3 DEF marks
<1> QED
  BY <1>1, <1>11, <1>12, Unguarded DEF chart

\* The first k marks are clear.
ClearTo(marks, k, lo, hi) ==
  /\ \A i \in 1..k : Inside(marks[i].at, lo, hi)
  /\ \A i, j \in 1..k : i # j => marks[i].at \cap marks[j].at = {}

\* And so is the next one when it comes after them.
LEMMA OneMore ==
  ASSUME NEW marks, NEW k \in Nat, NEW m \in Nat, m = k + 1,
         NEW lo \in Int, NEW mid \in Int, NEW hi \in Int, lo <= mid, mid <= hi,
         ClearTo(marks, k, lo, mid), Inside(marks[m].at, mid, hi)
  PROVE  ClearTo(marks, m, lo, hi)
<1>1. \A i \in 1..k : Inside(marks[i].at, lo, mid)
  BY DEF ClearTo
<1>2. \A i \in 1..m : i \in 1..k \/ i = m
  OBVIOUS
<1>3. ASSUME NEW i \in 1..k
      PROVE  /\ Inside(marks[i].at, lo, hi)
             /\ marks[i].at \cap marks[m].at = {} /\ marks[m].at \cap marks[i].at = {}
  <2>1. Inside(marks[i].at, lo, mid)
    BY <1>1
  <2> QED
    BY <2>1, InsideWider, InsideApart
<1>4. Inside(marks[m].at, lo, hi)
  BY InsideWider
<1>5. \A i, j \in 1..k : i # j => marks[i].at \cap marks[j].at = {}
  BY DEF ClearTo
<1> QED
  BY <1>2, <1>3, <1>4, <1>5, Zenon DEF ClearTo

\* Windows between the middles of the legs around each pivot.
Legs(n, N, marks) ==
  /\ DOMAIN marks = 1..N
  /\ marks[1].at = Span(Bar(n, 130) + 1, Bar(n, 260))
  /\ marks[2].at = Span(Bar(n, 260) + 1, Bar(n, 390))
  /\ marks[3].at = Span(Bar(n, 390) + 1, Bar(n, 520))
  /\ marks[4].at = Span(Bar(n, 520) + 1, Bar(n, 650))
  /\ marks[5].at = Span(Bar(n, 650) + 1, IF N = 6 THEN Bar(n, 800) ELSE End(n) - TAIL)
  /\ N = 6 => marks[6].at = Span(Bar(n, 800) + 1, End(n) - TAIL)

LEMMA LegsInOrder ==
  ASSUME NEW n \in Nat, n >= 50, NEW N \in {5, 6}, NEW marks, Legs(n, N, marks)
  PROVE  Clear(marks, WARMUP, End(n))
<1> DEFINE x1 == Bar(n, 130)
           x2 == Bar(n, 260)
           x3 == Bar(n, 390)
           x4 == Bar(n, 520)
           x5 == Bar(n, 650)
           x6 == IF N = 6 THEN Bar(n, 800) ELSE End(n)
           lo == WARMUP
           hi == End(n)
<1>1. /\ lo \in Int /\ x1 \in Int /\ x2 \in Int /\ x3 \in Int /\ x4 \in Int
      /\ x5 \in Int /\ x6 \in Int /\ hi \in Int /\ TAIL = 8
      /\ lo <= x1 /\ x1 + 1 < x2 /\ x2 + 1 < x3 /\ x3 + 1 < x4 /\ x4 + 1 < x5
      /\ x5 + 1 < x6 - 8 + (IF N = 6 THEN 8 ELSE 0) /\ x6 <= hi
      /\ N = 6 => x6 + 1 < hi - 8
      /\ N = 5 => x6 = hi
  BY DEF Bar, WARMUP, At, End, TAIL
<1>2. /\ marks[1].at = Span(x1 + 1, x2) /\ marks[2].at = Span(x2 + 1, x3)
      /\ marks[3].at = Span(x3 + 1, x4) /\ marks[4].at = Span(x4 + 1, x5)
      /\ N = 6 => marks[5].at = Span(x5 + 1, x6)
      /\ N = 5 => marks[5].at = Span(x5 + 1, x6 - 8)
      /\ N = 6 => marks[6].at = Span(x6 + 1, hi - 8)
      /\ DOMAIN marks = 1..N
  BY <1>1 DEF Legs
<1> HIDE DEF x1, x2, x3, x4, x5, x6, lo, hi
<1>3. Inside(marks[1].at, lo, x2)
  BY <1>1, <1>2, SpanInside, InsideWider
<1>4. Inside(marks[2].at, x2, x3)
  BY <1>1, <1>2, SpanInside, InsideWider
<1>5. Inside(marks[3].at, x3, x4)
  BY <1>1, <1>2, SpanInside, InsideWider
<1>6. Inside(marks[4].at, x4, x5)
  BY <1>1, <1>2, SpanInside, InsideWider
<1>7. Inside(marks[5].at, x5, x6)
  <2>1. CASE N = 5
    <3>1. marks[5].at = Span(x5 + 1, x6 - 8) /\ x5 + 1 < x6 - 8
      BY <1>1, <1>2, <2>1
    <3> QED
      BY <1>1, <3>1, SpanInside, InsideWider
  <2>2. CASE N = 6
    <3>1. marks[5].at = Span(x5 + 1, x6) /\ x5 + 1 < x6
      BY <1>1, <1>2, <2>2
    <3> QED
      BY <1>1, <3>1, SpanInside, InsideWider
  <2> QED
    BY <2>1, <2>2
<1>8. ASSUME N = 6 PROVE Inside(marks[6].at, x6, hi)
  <2>1. marks[6].at = Span(x6 + 1, hi - 8) /\ x6 + 1 < hi - 8
    BY <1>1, <1>2, <1>8
  <2> QED
    BY <1>1, <2>1, SpanInside, InsideWider
<1>9. ClearTo(marks, 1, lo, x2)
  BY <1>3 DEF ClearTo
<1>10. ClearTo(marks, 2, lo, x3)
  BY <1>1, <1>4, <1>9, OneMore
<1>11. ClearTo(marks, 3, lo, x4)
  BY <1>1, <1>5, <1>10, OneMore
<1>12. ClearTo(marks, 4, lo, x5)
  BY <1>1, <1>6, <1>11, OneMore
<1>13. ClearTo(marks, 5, lo, x6)
  BY <1>1, <1>7, <1>12, OneMore
<1>14. N = 6 => ClearTo(marks, 6, lo, hi)
  BY <1>1, <1>8, <1>13, OneMore
<1>15. ClearTo(marks, N, lo, hi)
  BY <1>1, <1>13, <1>14
<1> QED
  BY <1>2, <1>15 DEF ClearTo, Clear, lo, hi

LEMMA StructureIsMarked ==
  ASSUME NEW n \in Nat, n >= 50, NEW target
  PROVE  Clear(MarketStructure(n, target).marks, WARMUP, End(n))
         /\ Guarded(MarketStructure(n, target))
<1> DEFINE turned == target = "choch_after_uptrend"
           six == <<60, 200, 320, 460, 580, 720>>
           seven == <<60, 200, 320, 460, 580, 720, 880>>
           pivots == IF turned THEN seven ELSE six
           labels == <<"", "HH", "HL", "HH", "HL", "HH", "CHoCH">>
           middle(i) == Bar(n, (pivots[i] + pivots[i + 1]) \div 2)
           window(i) == Span(middle(i - 1) + 1,
                             IF i = Len(pivots) THEN End(n) - TAIL ELSE middle(i))
           marks == [k \in 1..(Len(pivots) - 1) |-> Mark(labels[k + 1], window(k + 1))]
           N == IF turned THEN 6 ELSE 5
           chart == MarketStructure(n, target)
<1>1. chart = [Bare(n) EXCEPT !.own = TRUE, !.marks = marks]
  BY Zenon DEF MarketStructure
<1>2. Len(pivots) = N + 1
  OBVIOUS
<1>3. /\ middle(1) = Bar(n, 130) /\ middle(2) = Bar(n, 260) /\ middle(3) = Bar(n, 390)
      /\ middle(4) = Bar(n, 520) /\ middle(5) = Bar(n, 650)
      /\ turned => middle(6) = Bar(n, 800)
  OBVIOUS
<1> HIDE DEF pivots, middle, labels, chart
<1>5. DOMAIN marks = 1..N
      /\ \A k \in 1..N : marks[k].at = Span(middle(k) + 1, IF k = N THEN End(n) - TAIL
                                                           ELSE middle(k + 1))
  BY <1>2 DEF Mark
<1> HIDE DEF marks
<1>6. chart.marks = marks /\ chart.guards = {}
  BY <1>1 DEF Bare
<1>7. /\ N \in {5, 6} /\ (N = 6 <=> turned)
      /\ 1 \in 1..N /\ 2 \in 1..N /\ 3 \in 1..N /\ 4 \in 1..N /\ 5 \in 1..N
      /\ N = 6 => 6 \in 1..N
  OBVIOUS
<1> HIDE DEF N, turned
<1>8. Legs(n, N, marks)
  BY <1>3, <1>5, <1>7 DEF Legs
<1>9. Clear(marks, WARMUP, End(n))
  BY <1>7, <1>8, LegsInOrder
<1> QED
  BY <1>6, <1>9, Unguarded DEF chart

LEMMA PhasesAreMarked ==
  ASSUME NEW n \in Nat, n >= 50, NEW target
  PROVE  Clear(WyckoffFigureMarks(n, target), WARMUP, End(n))
<1> DEFINE a == Bar(n, 140)
           b == Bar(n, 450)
           c == Bar(n, 740)
           d == Bar(n, 860)
           e == Bar(n, 970)
           marks == <<Mark("A", {a}), Mark("B", {b}), Mark("C", {c}), Mark("D", {d}), Mark("E", {e})>>
           bars == <<a, b, c, d, e>>
<1>1. /\ a \in Int /\ b \in Int /\ c \in Int /\ d \in Int /\ e \in Int
      /\ WARMUP \in Int /\ End(n) \in Int
      /\ WARMUP <= a /\ a < b /\ b < c /\ c < d /\ d < e /\ e < End(n)
  BY DEF Bar, WARMUP, At, End
<1> HIDE DEF a, b, c, d, e
<1>2. CASE target = "none"
  BY <1>2 DEF WyckoffFigureMarks, Clear
<1>3. CASE target # "none"
  <2>1. WyckoffFigureMarks(n, target) = marks
    BY <1>3 DEF WyckoffFigureMarks, a, b, c, d, e
  <2>2. DOMAIN marks = 1..5 /\ \A i \in 1..5 : marks[i].at = {bars[i]}
    <3>1. \A i \in 1..5 : i = 1 \/ i = 2 \/ i = 3 \/ i = 4 \/ i = 5
      OBVIOUS
    <3>2. /\ marks[1].at = {a} /\ marks[2].at = {b} /\ marks[3].at = {c}
          /\ marks[4].at = {d} /\ marks[5].at = {e}
      BY DEF Mark
    <3> QED
      BY <3>1, <3>2
  <2>3. \A i \in 1..5 : bars[i] \in Int /\ WARMUP <= bars[i] /\ bars[i] < End(n)
    BY <1>1
  <2>4. \A i, j \in 1..5 : i # j => bars[i] # bars[j]
    BY <1>1
  <2> HIDE DEF marks, bars
  <2>5. \A i \in DOMAIN marks : Inside(marks[i].at, WARMUP, End(n))
    BY <1>1, <2>2, <2>3 DEF Inside
  <2>6. \A i, j \in DOMAIN marks : i # j => marks[i].at \cap marks[j].at = {}
    BY <2>2, <2>4
  <2> QED
    BY <2>1, <2>5, <2>6 DEF Clear
<1> QED
  BY <1>2, <1>3

LEMMA DivergenceIsMarked ==
  ASSUME NEW n \in Nat, n >= 50, NEW target \in Divergences
  PROVE  Clear(DivergenceMarks(n, target), WARMUP, End(n))
<1> DEFINE near == Mark("1", Swing(n, 460))
           far == Mark("2", Swing(n, 900))
           hiddenNear == Mark("1", Swing(n, 330))
           hiddenFar == Mark("2", Swing(n, 880))
<1>1. /\ near.at = Swing(n, 460) /\ far.at = Swing(n, 900)
      /\ hiddenNear.at = Swing(n, 330) /\ hiddenFar.at = Swing(n, 880)
  BY DEF Mark
<1>2. CASE target = "none"
  BY <1>2 DEF DivergenceMarks, Clear
<1>3. CASE target \in {"bullish_regular", "bearish_regular"}
  <2>1. DivergenceMarks(n, target) = <<near, far>>
    BY <1>3 DEF DivergenceMarks
  <2> HIDE DEF near, far
  <2> QED
    BY <1>1, <2>1, Swings460And900, TwoMarks
<1>4. CASE target \in {"bullish_hidden", "bearish_hidden"}
  <2>1. DivergenceMarks(n, target) = <<hiddenNear, hiddenFar>>
    BY <1>4 DEF DivergenceMarks
  <2> HIDE DEF hiddenNear, hiddenFar
  <2> QED
    BY <1>1, <2>1, Swings330And880, TwoMarks
<1> QED
  BY <1>2, <1>3, <1>4 DEF Divergences

\* Every mark of a chart is on bars of its own that are shown, and away from the
\* levels it must not be drawn through.
Marked(chart) == Clear(chart.marks, chart.warmup, Length(chart)) /\ Guarded(chart)

LEMMA UsualIsMarked ==
  ASSUME NEW n, NEW chart, chart.warmup = WARMUP, chart.bars = n,
         Clear(chart.marks, WARMUP, End(n)), Guarded(chart)
  PROVE  Marked(chart)
BY DEF Marked, Length, End

LEMMA BuildIsMarked ==
  ASSUME NEW injector \in DOMAIN Labels, NEW n, Roomy(injector, n),
         NEW target \in Labels[injector], NEW draw \in Draws(injector, target)
  PROVE  Marked(Build(injector, n, target, draw))
<1>1. n \in Nat /\ n >= 3 /\ (injector # "candle_reaction" => n >= 50 /\ n >= 48)
  BY DEF Roomy
<1>2. CASE injector = "fakeout"
  <2>1. Build(injector, n, target, draw) = Fakeout(n, target, draw)
    BY <1>2 DEF Build
  <2> DEFINE chart == Fakeout(n, target, draw)
  <2>2. chart.warmup = WARMUP /\ chart.bars = n
    BY DEF Fakeout, Breakout, Bare
  <2>3. draw \in Sides /\ Roomy("fakeout", n)
    BY <1>2 DEF Draws
  <2>4. Clear(chart.marks, WARMUP, End(n)) /\ Guarded(chart)
    BY <1>1, <2>3, FakeoutIsMarked
  <2> HIDE DEF chart
  <2>5. Marked(chart)
    BY <2>2, <2>4, UsualIsMarked
  <2> QED
    BY <2>1, <2>5 DEF chart
<1>3. CASE injector = "wyckoff"
  <2>1. Build(injector, n, target, draw) = Wyckoff(n, target)
    BY <1>3 DEF Build
  <2> DEFINE chart == Wyckoff(n, target)
  <2>2. chart.warmup = WARMUP /\ chart.bars = n
    BY DEF Wyckoff, Bare
  <2>3. Roomy("wyckoff", n)
    BY <1>3
  <2>4. Clear(chart.marks, WARMUP, End(n)) /\ Guarded(chart)
    BY <1>1, <2>3, WyckoffIsMarked
  <2> HIDE DEF chart
  <2>5. Marked(chart)
    BY <2>2, <2>4, UsualIsMarked
  <2> QED
    BY <2>1, <2>5 DEF chart
<1>4. CASE injector = "liquidity_sweep"
  <2>1. Build(injector, n, target, draw) = LiquiditySweep(n, target)
    BY <1>4 DEF Build
  <2> DEFINE chart == LiquiditySweep(n, target)
  <2>2. chart.warmup = WARMUP /\ chart.bars = n
    BY DEF LiquiditySweep, Bare
  <2>3. n >= 50 /\ n >= 48
    BY <1>1, <1>4
  <2>4. Clear(chart.marks, WARMUP, End(n)) /\ Guarded(chart)
    BY <1>1, <2>3, LiquidityIsMarked
  <2> HIDE DEF chart
  <2>5. Marked(chart)
    BY <2>2, <2>4, UsualIsMarked
  <2> QED
    BY <2>1, <2>5 DEF chart
<1>5. CASE injector = "origin_zone"
  <2>1. Build(injector, n, target, draw) = OriginZone(n, target)
    BY <1>5 DEF Build
  <2> DEFINE chart == OriginZone(n, target)
  <2>2. chart.warmup = WARMUP /\ chart.bars = n
    BY DEF OriginZone, Bare
  <2>3. n >= 50 /\ n >= 48
    BY <1>1, <1>5
  <2>4. Clear(chart.marks, WARMUP, End(n)) /\ Guarded(chart)
    BY <1>1, <2>3, OriginIsMarked
  <2> HIDE DEF chart
  <2>5. Marked(chart)
    BY <2>2, <2>4, UsualIsMarked
  <2> QED
    BY <2>1, <2>5 DEF chart
<1>6. CASE injector = "imbalance"
  <2>1. Build(injector, n, target, draw) = Imbalance(n, target)
    BY <1>6 DEF Build
  <2> DEFINE chart == Imbalance(n, target)
  <2>2. chart.warmup = WARMUP /\ chart.bars = n
    BY DEF Imbalance, Bare
  <2>3. n >= 50 /\ n >= 48
    BY <1>1, <1>6
  <2>4. Clear(chart.marks, WARMUP, End(n)) /\ Guarded(chart)
    BY <1>1, <2>3, ImbalanceIsMarked
  <2> HIDE DEF chart
  <2>5. Marked(chart)
    BY <2>2, <2>4, UsualIsMarked
  <2> QED
    BY <2>1, <2>5 DEF chart
<1>7. CASE injector = "cvd_divergence"
  <2>1. Build(injector, n, target, draw) = CvdDivergence(n)
    BY <1>7 DEF Build
  <2> DEFINE chart == CvdDivergence(n)
  <2>2. chart.warmup = WARMUP /\ chart.bars = n
    BY DEF CvdDivergence, Bare
  <2>3. n >= 50 /\ n >= 48
    BY <1>1, <1>7
  <2>4. Clear(chart.marks, WARMUP, End(n)) /\ Guarded(chart)
    BY <1>1, <2>3, CvdIsMarked
  <2> HIDE DEF chart
  <2>5. Marked(chart)
    BY <2>2, <2>4, UsualIsMarked
  <2> QED
    BY <2>1, <2>5 DEF chart
<1>8. CASE injector = "derivatives"
  <2>1. Build(injector, n, target, draw) = Derivatives(n)
    BY <1>8 DEF Build
  <2> DEFINE chart == Derivatives(n)
  <2>2. chart.warmup = WARMUP /\ chart.bars = n
    BY DEF Derivatives, Bare
  <2>3. n >= 50 /\ n >= 48
    BY <1>1, <1>8
  <2>4. Clear(chart.marks, WARMUP, End(n)) /\ Guarded(chart)
    BY <1>1, <2>3, UnmarkedCharts
  <2> HIDE DEF chart
  <2>5. Marked(chart)
    BY <2>2, <2>4, UsualIsMarked
  <2> QED
    BY <2>1, <2>5 DEF chart
<1>9. CASE injector = "candle_reaction"
  <2>1. Build(injector, n, target, draw) = CandleReaction(n, target, draw)
    BY <1>9 DEF Build
  <2> DEFINE chart == CandleReaction(n, target, draw)
  <2>2. chart.warmup = WARMUP /\ chart.bars = n
    BY DEF CandleReaction, Bare
  <2>3. draw \in DOMAIN Forms
    BY <1>9 DEF Draws, Labels, Judgment, Forms
  <2>4. Clear(chart.marks, WARMUP, End(n)) /\ Guarded(chart)
    BY <1>1, <2>3, CandleIsMarked
  <2> HIDE DEF chart
  <2>5. Marked(chart)
    BY <2>2, <2>4, UsualIsMarked
  <2> QED
    BY <2>1, <2>5 DEF chart
<1>10. CASE injector = "fibonacci"
  <2>1. Build(injector, n, target, draw) = Fibonacci(n)
    BY <1>10 DEF Build
  <2> DEFINE chart == Fibonacci(n)
  <2>2. chart.warmup = WARMUP /\ chart.bars = n
    BY DEF Fibonacci, Bare
  <2>3. n >= 50 /\ n >= 48
    BY <1>1, <1>10
  <2>4. Clear(chart.marks, WARMUP, End(n)) /\ Guarded(chart)
    BY <1>1, <2>3, FibonacciIsMarked
  <2> HIDE DEF chart
  <2>5. Marked(chart)
    BY <2>2, <2>4, UsualIsMarked
  <2> QED
    BY <2>1, <2>5 DEF chart
<1>11. CASE injector = "ma_context"
  <2>1. Build(injector, n, target, draw) = MaContext(n)
    BY <1>11 DEF Build
  <2> DEFINE chart == MaContext(n)
  <2>2. chart.warmup = WARMUP /\ chart.bars = n
    BY DEF MaContext, Bare
  <2>3. n >= 50 /\ n >= 48
    BY <1>1, <1>11
  <2>4. Clear(chart.marks, WARMUP, End(n)) /\ Guarded(chart)
    BY <1>1, <2>3, UnmarkedCharts
  <2> HIDE DEF chart
  <2>5. Marked(chart)
    BY <2>2, <2>4, UsualIsMarked
  <2> QED
    BY <2>1, <2>5 DEF chart
<1>12. CASE injector = "macd_cross"
  <2>1. Build(injector, n, target, draw) = MacdCross(n)
    BY <1>12 DEF Build
  <2> DEFINE chart == MacdCross(n)
  <2>2. chart.warmup = WARMUP /\ chart.bars = n
    BY DEF MacdCross, Bare
  <2>3. n >= 50 /\ n >= 48
    BY <1>1, <1>12
  <2>4. Clear(chart.marks, WARMUP, End(n)) /\ Guarded(chart)
    BY <1>1, <2>3, UnmarkedCharts DEF MacdCross
  <2> HIDE DEF chart
  <2>5. Marked(chart)
    BY <2>2, <2>4, UsualIsMarked
  <2> QED
    BY <2>1, <2>5 DEF chart
<1>13. CASE injector = "oscillator_reading"
  <2>1. Build(injector, n, target, draw) = OscillatorReading(n)
    BY <1>13 DEF Build
  <2> DEFINE chart == OscillatorReading(n)
  <2>2. chart.warmup = WARMUP /\ chart.bars = n
    BY DEF OscillatorReading, Bare
  <2>3. n >= 50 /\ n >= 48
    BY <1>1, <1>13
  <2>4. Clear(chart.marks, WARMUP, End(n)) /\ Guarded(chart)
    BY <1>1, <2>3, UnmarkedCharts DEF OscillatorReading
  <2> HIDE DEF chart
  <2>5. Marked(chart)
    BY <2>2, <2>4, UsualIsMarked
  <2> QED
    BY <2>1, <2>5 DEF chart
<1>14. CASE injector = "multi_timeframe"
  <2>1. Build(injector, n, target, draw) = MultiTimeframe(n, target, draw)
    BY <1>14 DEF Build
  <2>2. draw \in DOMAIN Turns
    BY <1>14 DEF Draws
  <2> QED
    BY <1>1, <1>14, <2>1, <2>2, FramesAreMarked DEF Marked
<1>15. CASE injector = "volatility_bands"
  <2>1. Build(injector, n, target, draw) = VolatilityBands(n, target)
    BY <1>15 DEF Build
  <2> DEFINE chart == VolatilityBands(n, target)
  <2>2. chart.warmup = WARMUP /\ chart.bars = n
    BY DEF VolatilityBands, Bare
  <2>3. n >= 50 /\ n >= 48
    BY <1>1, <1>15
  <2>4. Clear(chart.marks, WARMUP, End(n)) /\ Guarded(chart)
    BY <1>1, <2>3, BandsAreMarked
  <2> HIDE DEF chart
  <2>5. Marked(chart)
    BY <2>2, <2>4, UsualIsMarked
  <2> QED
    BY <2>1, <2>5 DEF chart
<1>16. CASE injector = "volume_confirmation"
  <2>1. Build(injector, n, target, draw) = VolumeConfirmation(n, draw)
    BY <1>16 DEF Build
  <2> DEFINE chart == VolumeConfirmation(n, draw)
  <2>2. chart.warmup = WARMUP /\ chart.bars = n
    BY DEF VolumeConfirmation, Breakout, Bare
  <2>3. draw \in Sides /\ Roomy("volume_confirmation", n)
    BY <1>16 DEF Draws
  <2>4. Clear(chart.marks, WARMUP, End(n)) /\ Guarded(chart)
    BY <1>1, <2>3, VolumeIsMarked
  <2> HIDE DEF chart
  <2>5. Marked(chart)
    BY <2>2, <2>4, UsualIsMarked
  <2> QED
    BY <2>1, <2>5 DEF chart
<1>17. CASE injector = "trend_channel"
  <2>1. Build(injector, n, target, draw) = TrendChannel(n, target)
    BY <1>17 DEF Build
  <2> DEFINE chart == TrendChannel(n, target)
  <2>2. chart.warmup = WARMUP /\ chart.bars = n
    BY DEF TrendChannel, Bare
  <2>3. n >= 50 /\ n >= 48
    BY <1>1, <1>17
  <2>4. Clear(chart.marks, WARMUP, End(n)) /\ Guarded(chart)
    BY <1>1, <2>3, ChannelIsMarked
  <2> HIDE DEF chart
  <2>5. Marked(chart)
    BY <2>2, <2>4, UsualIsMarked
  <2> QED
    BY <2>1, <2>5 DEF chart
<1>18. CASE injector = "converging_lines"
  <2>1. Build(injector, n, target, draw) = ConvergingLines(n, target)
    BY <1>18 DEF Build
  <2> DEFINE chart == ConvergingLines(n, target)
  <2>2. chart.warmup = WARMUP /\ chart.bars = n
    BY DEF ConvergingLines, Bare
  <2>3. n >= 50 /\ n >= 48
    BY <1>1, <1>18
  <2>4. Clear(chart.marks, WARMUP, End(n)) /\ Guarded(chart)
    BY <1>1, <2>3, LinesAreMarked
  <2> HIDE DEF chart
  <2>5. Marked(chart)
    BY <2>2, <2>4, UsualIsMarked
  <2> QED
    BY <2>1, <2>5 DEF chart
<1>19. CASE injector = "market_structure"
  <2>1. Build(injector, n, target, draw) = MarketStructure(n, target)
    BY <1>19 DEF Build
  <2> DEFINE chart == MarketStructure(n, target)
  <2>2. chart.warmup = WARMUP /\ chart.bars = n
    BY DEF MarketStructure, Bare
  <2>3. n >= 50 /\ n >= 48
    BY <1>1, <1>19
  <2>4. Clear(chart.marks, WARMUP, End(n)) /\ Guarded(chart)
    BY <1>1, <2>3, StructureIsMarked
  <2> HIDE DEF chart
  <2>5. Marked(chart)
    BY <2>2, <2>4, UsualIsMarked
  <2> QED
    BY <2>1, <2>5 DEF chart
<1>20. CASE injector = "stop_limit_gap"
  <2>1. Build(injector, n, target, draw) = StopLimitGap(n)
    BY <1>20 DEF Build
  <2> DEFINE chart == StopLimitGap(n)
  <2>2. chart.warmup = WARMUP /\ chart.bars = n
    BY DEF StopLimitGap, Bare
  <2>3. n >= 50 /\ n >= 48
    BY <1>1, <1>20
  <2>4. Clear(chart.marks, WARMUP, End(n)) /\ Guarded(chart)
    BY <1>1, <2>3, GapIsMarked
  <2> HIDE DEF chart
  <2>5. Marked(chart)
    BY <2>2, <2>4, UsualIsMarked
  <2> QED
    BY <2>1, <2>5 DEF chart
<1>21. CASE injector = "trade_anatomy"
  <2>1. Build(injector, n, target, draw) = TradeAnatomy(n)
    BY <1>21 DEF Build
  <2> DEFINE chart == TradeAnatomy(n)
  <2>2. chart.warmup = WARMUP /\ chart.bars = n
    BY DEF TradeAnatomy, Bare
  <2>3. n >= 50 /\ n >= 48
    BY <1>1, <1>21
  <2>4. Clear(chart.marks, WARMUP, End(n)) /\ Guarded(chart)
    BY <1>1, <2>3, AnatomyIsMarked
  <2> HIDE DEF chart
  <2>5. Marked(chart)
    BY <2>2, <2>4, UsualIsMarked
  <2> QED
    BY <2>1, <2>5 DEF chart
<1> QED
  BY <1>2, <1>3, <1>4, <1>5, <1>6, <1>7, <1>8, <1>9, <1>10, <1>11, <1>12, <1>13, <1>14,
     <1>15, <1>16, <1>17, <1>18, <1>19, <1>20, <1>21 DEF Labels

\* Marks that are seen from the bar w on.
LEMMA ShownIsApart ==
  ASSUME NEW marks, NEW w \in Int, NEW length \in Int, NEW candles \in Int,
         length - w <= candles, Clear(marks, w, length)
  PROVE  Apart(MarksShown(marks, w), candles)
<1> DEFINE shownMarks == MarksShown(marks, w)
<1>1. \A i \in DOMAIN shownMarks :
        i \in DOMAIN marks /\ shownMarks[i].at = {bar - w : bar \in marks[i].at}
  BY DEF MarksShown
<1> HIDE DEF shownMarks
<1>2. ASSUME NEW i \in DOMAIN marks
      PROVE  {bar - w : bar \in marks[i].at} # {}
             /\ {bar - w : bar \in marks[i].at} \subseteq 0..(candles - 1)
  <2>1. marks[i].at # {} /\ \A x \in marks[i].at : x \in Int /\ w <= x /\ x < length
    BY DEF Clear, Inside
  <2> QED
    BY <2>1
<1>3. ASSUME NEW i \in DOMAIN marks, NEW j \in DOMAIN marks, i # j
      PROVE  {bar - w : bar \in marks[i].at} \cap {bar - w : bar \in marks[j].at} = {}
  <2>1. /\ \A x \in marks[i].at : x \in Int /\ x \notin marks[j].at
        /\ \A x \in marks[j].at : x \in Int
    BY <1>3 DEF Clear, Inside
  <2> QED
    BY <2>1
<1>4. \A i \in DOMAIN shownMarks :
        shownMarks[i].at # {} /\ shownMarks[i].at \subseteq 0..(candles - 1)
  BY <1>1, <1>2
<1>5. \A i, j \in DOMAIN shownMarks : i # j => shownMarks[i].at \cap shownMarks[j].at = {}
  BY <1>1, <1>3
<1> QED
  BY <1>4, <1>5 DEF Apart, shownMarks

\* What grading reveals of a chart does not depend on the answer.
LEMMA KeyOfChoice ==
  ASSUME NEW payload, "choices" \in DOMAIN payload, NEW field \in {"label", "divergence"}, NEW key
  PROVE  ChoiceGrade(field, key, DummyAnswer(payload)).key = key
<1>1. DOMAIN DummyAnswer(payload) = {"divergence", "label"}
  BY DEF DummyAnswer
<1> QED
  BY <1>1 DEF ChoiceGrade

LEMMA GuardsOfList ==
  ASSUME NEW chart, Guarded(chart)
  PROVE  \A m \in ToSet(chart.marks) : \A g \in chart.guards :
           m.past = g.level => m.at \cap g.shut = {}
BY DEF Guarded, ToSet

\* The marks that grading an exercise on the page reveals.
LEMMA PatternIsLegible ==
  ASSUME NEW config, ValidPattern(config), Roomy(config.injector, config.n),
         NEW seed \in PatternSeeds(config)
  PROVE  LET payload == PatternPayload(config, seed)
         IN  /\ Apart(PatternKey(config, seed).annotations, payload.candles)
             /\ "choices" \in DOMAIN payload
             /\ Guarded(seed.chart)
<1> DEFINE chart == seed.chart
           w == chart.warmup
           candles == Length(chart) - w
           series == [choices  |-> config.choices,
                      candles  |-> candles,
                      panes    |-> [pane \in chart.panes \cup {"rsi", "macd"} |-> candles],
                      overlays |-> [name \in chart.overlays |-> candles]]
           both == Joined(series, Shapes(chart))
           context == (Length(chart) \div RATIO) - (w \div RATIO)
           payload == Framed(both, chart, context)
           key == [label |-> seed.target, annotations |-> MarksShown(chart.marks, w)]
<1>1. /\ config.injector \in DOMAIN Labels /\ seed.target \in Labels[config.injector]
      /\ \E draw \in Draws(config.injector, seed.target) :
           seed.chart = Build(config.injector, config.n, seed.target, draw)
  BY PatternSeed
<1>2. PICK draw \in Draws(config.injector, seed.target) :
        chart = Build(config.injector, config.n, seed.target, draw)
  BY <1>1
<1>3. Marked(chart)
  BY <1>1, <1>2, BuildIsMarked
<1>4. Length(chart) \in Int /\ w \in Int
  <2>1. config.n \in Nat /\ config.n >= 2
    BY DEF Roomy
  <2>2. Shaped(chart, config.injector)
    BY <1>1, <1>2, <2>1, BuildIsShaped
  <2> QED
    BY <2>2 DEF Shaped, Length
<1>5. PatternPayload(config, seed) = payload
  BY DEF PatternPayload
<1> HIDE DEF chart
<1>6. /\ DOMAIN series = {"choices", "candles", "panes", "overlays"}
      /\ series["candles"] = candles
      /\ DOMAIN Shapes(chart) = {"levels", "diagonals"}
  BY DEF Shapes
<1> HIDE DEF series
<1>7. /\ DOMAIN both = {"choices", "candles", "panes", "overlays", "levels", "diagonals"}
      /\ both["candles"] = candles
  <2>1. /\ DOMAIN both = DOMAIN series \cup DOMAIN Shapes(chart)
        /\ \A x \in DOMAIN series : both[x] = series[x]
    BY JoinedFields
  <2> HIDE DEF both
  <2> QED
    BY <1>6, <2>1
<1> HIDE DEF both
<1>8. "choices" \in DOMAIN payload /\ payload.candles = candles
  BY <1>7, FramedFields
<1>9. PatternKey(config, seed).annotations = MarksShown(chart.marks, w)
  <2>1. PatternKey(config, seed) =
          IF chart.bands = {} THEN key ELSE Joined(key, [bands |-> chart.bands])
    BY DEF PatternKey, chart
  <2>2. DOMAIN key = {"label", "annotations"} /\ key["annotations"] = MarksShown(chart.marks, w)
    OBVIOUS
  <2> DEFINE extra == [bands |-> chart.bands]
             joined == Joined(key, extra)
  <2> HIDE DEF key, extra
  <2>3. \A x \in DOMAIN key : joined[x] = key[x]
    BY JoinedFields
  <2> HIDE DEF joined
  <2>4. PatternKey(config, seed) = IF chart.bands = {} THEN key ELSE joined
    BY <2>1 DEF joined, extra
  <2>5. joined["annotations"] = MarksShown(chart.marks, w)
    BY <2>2, <2>3
  <2> QED
    BY <2>2, <2>4, <2>5
<1> HIDE DEF payload
<1>10. Apart(MarksShown(chart.marks, w), candles)
  BY <1>3, <1>4, ShownIsApart DEF Marked
<1>11. Guarded(chart)
  BY <1>3 DEF Marked
<1> HIDE DEF candles, w
<1> QED
  BY <1>5, <1>8, <1>9, <1>10, <1>11 DEF chart

LEMMA SyntheticIsLegible ==
  ASSUME NEW config, ValidSynthetic(config), Roomy("none", config.n),
         NEW seed \in SyntheticSeeds(config)
  PROVE  LET payload == SyntheticPayload(config, seed)
         IN  /\ Apart(SyntheticKey(config, seed).annotations, payload.candles)
             /\ "choices" \in DOMAIN payload
<1> DEFINE n == config.n
           marks == DivergenceMarks(n, seed.target)
<1>1. n \in Nat /\ n >= 50
  BY DEF Roomy
<1>2. seed.target \in Divergences
  BY DEF SyntheticSeeds, ValidSynthetic
<1>3. Clear(marks, WARMUP, End(n))
  BY <1>1, <1>2, DivergenceIsMarked
<1>4. WARMUP \in Int /\ End(n) \in Int
  BY <1>1 DEF WARMUP, End
<1> HIDE DEF marks
<1>5. Apart(MarksShown(marks, WARMUP), End(n) - WARMUP)
  BY <1>3, <1>4, ShownIsApart
<1>6. /\ SyntheticPayload(config, seed).candles = End(n) - WARMUP
      /\ "choices" \in DOMAIN SyntheticPayload(config, seed)
      /\ SyntheticKey(config, seed).annotations = MarksShown(marks, WARMUP)
  BY DEF SyntheticPayload, SyntheticKey, marks
<1> QED
  BY <1>5, <1>6

\* A figure shows at least the candles of its chart, and its own marks.
LEMMA PanelIsLegible ==
  ASSUME NEW panel, ValidPanel(panel),
         Roomy(IF panel.generator = "pattern_chart" THEN panel.injector ELSE "none", panel.n),
         NEW chart \in PanelCharts(panel)
  PROVE  /\ Apart(PanelPayload(panel, chart).annotations, PanelPayload(panel, chart).candles)
         /\ Guarded(chart)
<1> DEFINE w == chart.warmup
           marks == PanelMarks(panel, chart)
           page == PanelPayload(panel, chart)
<1>1. panel.n \in Nat /\ panel.n >= 2
  BY DEF Roomy
<1>2. /\ Guarded(chart) /\ Clear(marks, w, Length(chart))
      /\ w \in Int /\ Length(chart) \in Int
  <2>1. CASE panel.generator = "synthetic_chart"
    <3>1. panel.n \in Nat /\ panel.n >= 50 /\ panel.target \in Divergences
      BY <2>1 DEF Roomy, ValidPanel
    <3>2. /\ chart.marks = DivergenceMarks(panel.n, panel.target) /\ chart.guards = {}
          /\ w = WARMUP /\ chart.bars = panel.n
      BY <2>1 DEF PanelCharts, Bare
    <3>3. marks = chart.marks
      BY <2>1 DEF PanelMarks
    <3> HIDE DEF marks
    <3>4. Length(chart) = End(panel.n) /\ w \in Int /\ End(panel.n) \in Int
      BY <3>1, <3>2 DEF Length, End, WARMUP
    <3>5. Clear(DivergenceMarks(panel.n, panel.target), WARMUP, End(panel.n))
      BY <3>1, DivergenceIsMarked
    <3> QED
      BY <3>2, <3>3, <3>4, <3>5, Unguarded
  <2>2. CASE panel.generator = "pattern_chart"
    <3>1. /\ panel.injector \in DOMAIN Labels /\ panel.target \in Labels[panel.injector]
          /\ Roomy(panel.injector, panel.n)
      BY <2>2 DEF ValidPanel
    <3>2. PICK draw \in Draws(panel.injector, panel.target) :
            chart = Build(panel.injector, panel.n, panel.target, draw)
      BY <2>2 DEF PanelCharts, ChartsFor
    <3>3. Marked(chart)
      BY <3>1, <3>2, BuildIsMarked
    <3>4. Shaped(chart, panel.injector)
      BY <1>1, <3>1, <3>2, BuildIsShaped
    <3>5. w \in Int /\ Length(chart) \in Int
      BY <3>4 DEF Shaped, Length
    <3>6. CASE panel.injector # "wyckoff"
      <4>1. marks = chart.marks
        BY <3>6 DEF PanelMarks, FigureAnnotations
      <4> QED
        BY <3>3, <3>5, <4>1 DEF Marked
    <3>7. CASE panel.injector = "wyckoff"
      <4>1. marks = WyckoffFigureMarks(panel.n, panel.target)
        BY <2>2, <3>7 DEF PanelMarks, FigureAnnotations
      <4>2. panel.n \in Nat /\ panel.n >= 50
        BY <3>1, <3>7 DEF Roomy
      <4>3. Clear(WyckoffFigureMarks(panel.n, panel.target), WARMUP, End(panel.n))
        BY <4>2, PhasesAreMarked
      <4>4. chart = Wyckoff(panel.n, panel.target)
        BY <3>2, <3>7 DEF Build
      <4>5. Wyckoff(panel.n, panel.target).warmup = WARMUP
            /\ Wyckoff(panel.n, panel.target).bars = panel.n
        BY DEF Wyckoff, Bare
      <4>6. w = WARMUP /\ Length(chart) = End(panel.n)
        BY <4>4, <4>5 DEF Length, End
      <4> HIDE DEF marks
      <4> QED
        BY <3>3, <3>5, <4>1, <4>3, <4>6 DEF Marked
    <3> QED
      BY <3>6, <3>7
  <2> QED
    BY <2>1, <2>2 DEF ValidPanel
<1> DEFINE path == Length(chart) + (IF panel.show_resolution THEN ResolutionCandles ELSE 0)
           length == IF chart.own /\ ~panel.show_resolution THEN Length(chart) ELSE path
           pane(p) == IF p \notin {"momentum", "momentum_state"} THEN path
                      ELSE IF panel.injector \in FigureMomentum THEN length
                      ELSE Length(chart)
           overlay(name) == IF panel.injector \in FigureOverlays THEN length
                            ELSE IF name \in {"ema20", "ema50"} THEN path ELSE Length(chart)
           lines == [i \in DOMAIN chart.diagonals |->
                       Extended(chart.diagonals[i], length - 1)]
           panes == [p \in chart.panes \cup {"rsi", "macd"} |-> pane(p) - w]
           overlays == [name \in chart.overlays |-> overlay(name) - w]
           drawn == [candles     |-> length - w,
                     panes       |-> panes,
                     overlays    |-> overlays,
                     levels      |-> chart.levels,
                     bands       |-> chart.bands,
                     diagonals   |-> LinesShown(lines, w),
                     annotations |-> MarksShown(marks, w)]
           context == PanelContext(panel, chart, length) - (w \div RATIO)
<1>3. page = Framed(drawn, chart, context)
  BY DEF PanelPayload
<1>4. length \in Int /\ Length(chart) - w <= length - w
  BY <1>2 DEF ResolutionCandles
<1> HIDE DEF marks, length, panes, overlays, lines, context
<1>5. /\ DOMAIN drawn = {"candles", "panes", "overlays", "levels", "bands", "diagonals",
                         "annotations"}
      /\ drawn["candles"] = length - w /\ drawn["annotations"] = MarksShown(marks, w)
  OBVIOUS
<1> HIDE DEF drawn
<1>6. page.candles = length - w /\ page.annotations = MarksShown(marks, w)
  BY <1>3, <1>5, FramedFields
<1>7. Apart(MarksShown(marks, w), length - w)
  BY <1>2, <1>4, ShownIsApart
<1> HIDE DEF page
<1>8. Apart(page.annotations, page.candles)
  BY <1>6, <1>7
<1> QED
  BY <1>2, <1>8 DEF page

\* In every course whose charts are long enough for their patterns, and whose
\* recorded charts have marks on bars of their own, every mark is on a bar that
\* is shown and that no other mark is on, and away from the candles whose wicks
\* are kept inside the level it goes through (common.py:156-186).
THEOREM MarksStayLegible ==
  ASSUME \A b \in DOMAIN Bundles : Uncrowded(Bundles[b])
  PROVE  Spec => []MarksLegible
<1>1. PageInvariant => MarksLegible
  <2> SUFFICES ASSUME PageInvariant, stage \in {"open", "printed", "figure"},
                      "candles" \in DOMAIN shown
               PROVE  Legible(MarksHere, ChartHere)
    BY DEF MarksLegible, Drawn
  <2>1. ValidBundle(Course) /\ Parsed(Course) /\ Uncrowded(Course)
    BY BundlesAssumption DEF PageInvariant, LoadInvariant, Course
  <2>2. CASE stage = "figure"
    <3> PICK f \in ToSet(Course.figures) : \E i \in DOMAIN f.panels :
             /\ work.panel = f.panels[i] /\ work.chart \in PanelCharts(f.panels[i])
             /\ shown = PanelPayload(f.panels[i], work.chart)
      BY <2>2 DEF PageInvariant
    <3>1. PICK i \in DOMAIN f.panels :
             /\ work.panel = f.panels[i] /\ work.chart \in PanelCharts(f.panels[i])
             /\ shown = PanelPayload(f.panels[i], work.chart)
      OBVIOUS
    <3> DEFINE panel == f.panels[i]
    <3>2. ValidPanel(panel)
          /\ Roomy(IF panel.generator = "pattern_chart" THEN panel.injector ELSE "none", panel.n)
      BY <2>1 DEF ValidBundle, ValidFigure, Uncrowded
    <3>3. /\ Apart(PanelPayload(panel, work.chart).annotations,
                   PanelPayload(panel, work.chart).candles)
          /\ Guarded(work.chart)
      BY <3>1, <3>2, PanelIsLegible
    <3>4. MarksHere = shown.annotations /\ ChartHere = work.chart
      BY <2>2, <3>1 DEF MarksHere, ChartHere
    <3> QED
      BY <3>1, <3>3, <3>4, GuardsOfList DEF Legible
  <2>3. CASE stage \in {"open", "printed"}
    <3>1. /\ work.exercise \in DOMAIN Course.configs /\ work.seed \in Seeds(Config)
          /\ shown = Payload(Config, work.seed)
      BY <2>3 DEF PageInvariant
    <3>2. ValidConfig(Config) /\ Config.type \in ExerciseTypes
      BY <2>1, <3>1 DEF ValidBundle, Parsed, Config
    <3>3. MarksHere = Grade(Config, work.seed, DummyAnswer(shown)).key.annotations
      BY <2>3 DEF MarksHere
    <3>4. Config.type # "pattern_chart" => ChartHere.guards = {}
      BY <2>3 DEF ChartHere, Bare
    <3>5. CASE Config.type = "pattern_chart"
      <4>1. /\ ValidPattern(Config) /\ Roomy(Config.injector, Config.n)
            /\ work.seed \in PatternSeeds(Config)
            /\ shown = PatternPayload(Config, work.seed)
        BY <2>1, <3>1, <3>2, <3>5 DEF ValidConfig, Uncrowded, Seeds, Payload, Config
      <4>2. /\ Apart(PatternKey(Config, work.seed).annotations, shown.candles)
            /\ "choices" \in DOMAIN shown
            /\ Guarded(work.seed.chart)
        BY <4>1, PatternIsLegible
      <4>3. Grade(Config, work.seed, DummyAnswer(shown)) =
              ChoiceGrade("label", PatternKey(Config, work.seed), DummyAnswer(shown))
        BY <3>5 DEF Grade
      <4>4. MarksHere = PatternKey(Config, work.seed).annotations
        BY <3>3, <4>2, <4>3, KeyOfChoice
      <4>5. ChartHere = work.seed.chart
        BY <2>3, <3>5 DEF ChartHere
      <4> QED
        BY <4>2, <4>4, <4>5, GuardsOfList DEF Legible
    <3>6. CASE Config.type = "synthetic_chart"
      <4>1. /\ ValidSynthetic(Config) /\ Roomy("none", Config.n)
            /\ work.seed \in SyntheticSeeds(Config)
            /\ shown = SyntheticPayload(Config, work.seed)
        BY <2>1, <3>1, <3>2, <3>6 DEF ValidConfig, Uncrowded, Seeds, Payload, Config
      <4>2. /\ Apart(SyntheticKey(Config, work.seed).annotations, shown.candles)
            /\ "choices" \in DOMAIN shown
        BY <4>1, SyntheticIsLegible
      <4>3. Grade(Config, work.seed, DummyAnswer(shown)) =
              ChoiceGrade("divergence", SyntheticKey(Config, work.seed), DummyAnswer(shown))
        BY <3>6 DEF Grade
      <4>4. MarksHere = SyntheticKey(Config, work.seed).annotations
        BY <3>3, <4>2, <4>3, KeyOfChoice
      <4> QED
        BY <3>4, <3>6, <4>2, <4>4 DEF Legible
    <3>7. CASE Config.type = "fixture_chart"
      <4>1. /\ work.seed \in DOMAIN Config.fixtures
            /\ shown = FixturePayload(Config, work.seed)
            /\ Apart(Config.fixtures[work.seed].marks, Config.fixtures[work.seed].candles)
        BY <2>1, <3>1, <3>7 DEF Uncrowded, Seeds, FixtureSeeds, Payload, Config
      <4>2. /\ "choices" \in DOMAIN shown
            /\ shown.candles = Config.fixtures[work.seed].candles
        BY <4>1 DEF FixturePayload
      <4>3. Grade(Config, work.seed, DummyAnswer(shown)) =
              ChoiceGrade("divergence", FixtureKey(Config, work.seed), DummyAnswer(shown))
        BY <3>7 DEF Grade
      <4>4. MarksHere = FixtureKey(Config, work.seed).annotations
        BY <3>3, <4>2, <4>3, KeyOfChoice
      <4>5. FixtureKey(Config, work.seed).annotations = Config.fixtures[work.seed].marks
        BY DEF FixtureKey
      <4> QED
        BY <3>4, <3>7, <4>1, <4>2, <4>4, <4>5 DEF Legible
    <3>8. Config.type \notin {"quiz", "calculation"}
      <4>1. CASE Config.type = "calculation"
        BY <3>1, <4>1 DEF Payload, CalculationPayload, OptionsPage
      <4>2. CASE Config.type = "quiz"
        BY <3>1, <3>2, <4>2, QuizHasNoCandles DEF Payload, Seeds, ValidConfig
      <4> QED
        BY <4>1, <4>2
    <3> QED
      BY <3>2, <3>5, <3>6, <3>7, <3>8 DEF ExerciseTypes
  <2> QED
    BY <2>2, <2>3
<1> QED
  BY <1>1, PageInvariantHolds, PTL

============================================================================
