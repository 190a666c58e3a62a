--------------------------- MODULE AnswersProofs ---------------------------
(***************************************************************************)
(* Exactly one answer to an exercise is right, and the page does not tell  *)
(* which, for every course, seed and sequence of clicks.                   *)
(***************************************************************************)
EXTENDS ExercisesProofs

----------------------------------------------------------------------------
(* Shuffles.                                                               *)

\* A shuffle of a finite set reaches each of its members.
LEMMA ShuffleIsOnto ==
  ASSUME NEW S, IsFiniteSet(S), NEW f \in Shuffles(S)
  PROVE  \A w \in S : \E v \in S : f[v] = w
<1>1. f \in Injection(S, S)
  BY DEF Shuffles, Injection
<1>2. f \in Surjection(S, S)
  BY <1>1, FS_Injection
<1> QED
  BY <1>2 DEF Surjection

LEMMA ShuffleIsOne ==
  ASSUME NEW S, NEW f \in Shuffles(S)
  PROVE  f \in [S -> S] /\ \A v, w \in S : f[v] = f[w] => v = w
BY DEF Shuffles, IsInjective

\* What is shown in the slot of f is found with f.
LEMMA InverseShuffle ==
  ASSUME NEW S, IsFiniteSet(S), NEW f \in Shuffles(S), NEW g \in Shuffles(S)
  PROVE  [s \in S |-> CHOOSE t \in S : g[t] = f[s]] \in Shuffles(S)
<1> DEFINE h == [s \in S |-> CHOOSE t \in S : g[t] = f[s]]
<1>1. ASSUME NEW s \in S PROVE h[s] \in S /\ g[h[s]] = f[s]
  <2>1. \E t \in S : g[t] = f[s]
    BY ShuffleIsOne, ShuffleIsOnto
  <2> QED
    BY <2>1
<1>2. h \in [S -> S]
  BY <1>1
<1>3. \A a, b \in S : h[a] = h[b] => a = b
  <2> HIDE DEF h
  <2> QED
    BY <1>1, ShuffleIsOne
<1> HIDE DEF h
<1>4. h \in Shuffles(S)
  BY <1>2, <1>3 DEF Shuffles, IsInjective
<1> QED
  BY <1>4 DEF h

\* A list has finitely many places.
LEMMA ListPlaces ==
  ASSUME NEW list, IsList(list)
  PROVE  /\ DOMAIN list = 1..Len(list) /\ Len(list) \in Nat
         /\ IsFiniteSet(DOMAIN list) /\ Cardinality(DOMAIN list) = Len(list)
<1>1. DOMAIN list = 1..Len(list) /\ Len(list) \in Nat
  BY ListMembers
<1> DEFINE n == Len(list)
<1>2. n \in Int /\ n \in Nat
  BY <1>1
<1> HIDE DEF n
<1>3. IsFiniteSet(1..n) /\ Cardinality(1..n) = IF 1 > n THEN 0 ELSE n - 1 + 1
  BY <1>2, FS_Interval
<1>4. Cardinality(1..n) = n
  BY <1>2, <1>3
<1> QED
  BY <1>1, <1>3, <1>4 DEF n

\* Each place of a list is shown in some slot.
LEMMA ListIsShown ==
  ASSUME NEW list, IsList(list), NEW f \in Shuffles(DOMAIN list)
  PROVE  \A w \in DOMAIN list : \E s \in DOMAIN list : f[s] = w
BY ListPlaces, ShuffleIsOnto

----------------------------------------------------------------------------
(* Answers and what grading reveals.                                       *)

\* What is not given is no mistake and no answer, and what is refused no grade.
Fresh ==
  /\ Absent # "slip"
  /\ \A formula \in DOMAIN Arguments : \A p :
       \A i \in 1..3 : Mistakes(formula, p)[i][1] # Absent
  /\ \A field, value : Absent # Single(field, value)
  /\ \A correct, key : Malformed # [correct |-> correct, key |-> key]

LEMMA SingleAnswer ==
  ASSUME NEW field, NEW value
  PROVE  DOMAIN Single(field, value) = {field} /\ Single(field, value)[field] = value
BY DEF Single

LEMMA SingleIsOne ==
  ASSUME NEW field, NEW v, NEW w, Single(field, v) = Single(field, w)
  PROVE  v = w
<1>1. Single(field, v)[field] = v /\ Single(field, w)[field] = w
  BY DEF Single
<1> QED
  BY <1>1

LEMMA FirstKey ==
  ASSUME NEW key, NEW i \in 1..7, AnswerKeys[i] \in DOMAIN key,
         \A j \in 1..7 : j < i => AnswerKeys[j] \notin DOMAIN key
  PROVE  SubmissionFor(key) = Single(AnswerKeys[i], key[AnswerKeys[i]])
<1> DEFINE known == {k \in DOMAIN AnswerKeys : AnswerKeys[k] \in DOMAIN key}
<1>1. DOMAIN AnswerKeys = 1..7
  BY DEF AnswerKeys
<1>2. i \in known /\ \A k \in known : k \in Int /\ i <= k
  BY <1>1
<1> HIDE DEF known
<1>3. \A k \in known : (\A y \in known : k <= y) => k = i
  BY <1>2
<1>4. Min(known) = i
  BY <1>2, <1>3 DEF Min
<1> QED
  BY <1>4 DEF SubmissionFor, known

\* The answers named before the field of a key are not among its fields.
LEMMA SubmissionOf ==
  ASSUME NEW key,
         NEW field \in {"optionId", "optionIds", "order", "pairs", "divergence", "label",
                        "value"},
         field \in DOMAIN key,
         DOMAIN key \ {field} \subseteq
           {"annotations", "bands"} \cup (IF field = "optionId" THEN {"value"} ELSE {})
  PROVE  SubmissionFor(key) = Single(field, key[field])
<1>1. /\ AnswerKeys[1] = "optionId" /\ AnswerKeys[2] = "optionIds" /\ AnswerKeys[3] = "order"
      /\ AnswerKeys[4] = "pairs" /\ AnswerKeys[5] = "divergence" /\ AnswerKeys[6] = "label"
      /\ AnswerKeys[7] = "value"
  BY DEF AnswerKeys
<1>2. PICK i \in 1..7 : AnswerKeys[i] = field
  BY <1>1
<1>3. \A j \in 1..7 : j < i => AnswerKeys[j] \notin DOMAIN key
  <2>1. \A j \in 1..7 : j < i => AnswerKeys[j] # field
    BY <1>1, <1>2
  <2>2. \A j \in 1..7 : AnswerKeys[j] \notin {"annotations", "bands"}
    BY <1>1
  <2>3. \A j \in 1..7 : j < i /\ field = "optionId" => AnswerKeys[j] # "value"
    BY <1>1, <1>2
  <2> QED
    BY <2>1, <2>2, <2>3
<1> QED
  BY <1>2, <1>3, FirstKey

\* How an answer in one field is graded, by either way of comparing.
HasOne(f, field) == DOMAIN f = {field}
IsGrade(grade, key, answer, field) ==
  /\ grade # Malformed /\ grade.key = key
  /\ grade.correct <=> answer[field] = key[field]

LEMMA GradeOfOne ==
  ASSUME Fresh, NEW key, NEW field, HasOne(key, field), NEW answer, HasOne(answer, field)
  PROVE  IsGrade(GradeBy(key, answer), key, answer, field)
<1> DOMAIN key = {field} /\ DOMAIN answer = {field}
  BY DEF HasOne
<1>1. GradeBy(key, answer)
        = [correct |-> \A k \in DOMAIN key : answer[k] = key[k], key |-> key]
  BY DEF GradeBy
<1>2. (\A k \in DOMAIN key : answer[k] = key[k]) <=> answer[field] = key[field]
  OBVIOUS
<1>3. GradeBy(key, answer) # Malformed
  BY <1>1, Zenon DEF Fresh
<1> QED
  BY <1>1, <1>2, <1>3 DEF IsGrade

LEMMA GradeOfChoice ==
  ASSUME Fresh, NEW key, NEW field, NEW answer, field \in DOMAIN answer
  PROVE  IsGrade(ChoiceGrade(field, key, answer), key, answer, field)
<1> DEFINE same == answer[field] = key[field]
           grade == ChoiceGrade(field, key, answer)
<1>1. grade = [correct |-> same, key |-> key]
  BY DEF ChoiceGrade
<1>2. same \in BOOLEAN
  OBVIOUS
<1> HIDE DEF same, grade
<1>3. grade # Malformed
  BY <1>1, Zenon DEF Fresh
<1>4. grade.key = key /\ (grade.correct <=> same)
  BY <1>1, <1>2
<1> QED
  BY <1>3, <1>4 DEF grade, same, IsGrade

----------------------------------------------------------------------------
(* The one answer that is right.                                           *)

\* Grading an answer reveals key, and of the answers on offer only v is right.
RightIs(config, seed, key, v) ==
  LET payload == Payload(config, seed)
      field == AnswerField(config.type, payload)
  IN  /\ v \in OnOffer(config.type, payload)
      /\ SubmissionFor(key) = Single(field, v)
      /\ \A x : LET grade == Grade(config, seed, Single(field, x))
                IN  grade # Malformed /\ grade.key = key /\ (grade.correct <=> x = v)
      /\ Grade(config, seed, DummyAnswer(payload)).key = key
      /\ Printable(payload, key)

AnswerFields == {"optionId", "optionIds", "order", "pairs", "divergence", "label", "value"}

\* A variant of a quiz, and the two shuffles of what it lists.
LEMMA QuizVariant ==
  ASSUME NEW config, ValidQuiz(config), IsList(config.variants),
         \A v \in ToSet(config.variants) : ParsedVariant(v),
         NEW seed \in QuizSeeds(config)
  PROVE  LET v == VariantOf(config, seed)
         IN  /\ ValidVariant(v) /\ ParsedVariant(v)
             /\ seed.order[1] \in Orders(v) /\ seed.order[2] \in Orders(v)
<1>1. PICK i \in DOMAIN config.variants :
        seed \in {[variant |-> i, order |-> <<f, g>>] :
                    f \in Orders(config.variants[i]), g \in Orders(config.variants[i])}
  BY DEF QuizSeeds
<1>2. PICK f \in Orders(config.variants[i]), g \in Orders(config.variants[i]) :
        seed = [variant |-> i, order |-> <<f, g>>]
  BY <1>1
<1>3. VariantOf(config, seed) = config.variants[i] /\ seed.order[1] = f /\ seed.order[2] = g
  BY <1>2 DEF VariantOf
<1>4. ValidVariant(config.variants[i]) /\ ParsedVariant(config.variants[i])
  BY DEF ValidQuiz, ToSet
<1> QED
  BY <1>3, <1>4

\* A quiz whose key has the one field of its answers.
LEMMA QuizBySingle ==
  ASSUME Fresh, NEW config, config.type = "quiz", NEW seed,
         NEW field \in AnswerFields, NEW v,
         AnswerField("quiz", QuizPayload(config, seed)) = field,
         DOMAIN DummyAnswer(QuizPayload(config, seed)) = {field},
         v \in OnOffer("quiz", QuizPayload(config, seed)),
         QuizKey(config, seed) = Single(field, v)
  PROVE  RightIs(config, seed, QuizKey(config, seed), v)
<1> DEFINE payload == QuizPayload(config, seed)
           key == QuizKey(config, seed)
<1>1. Payload(config, seed) = payload /\ \A answer : Grade(config, seed, answer) = GradeBy(key, answer)
  BY DEF Payload, Grade, QuizGrade
<1>2. DOMAIN key = {field} /\ key[field] = v
  BY SingleAnswer
<1> HIDE DEF payload, key
<1>3. SubmissionFor(key) = Single(field, v)
  BY <1>2, SubmissionOf DEF AnswerFields
<1>4. ASSUME NEW x
      PROVE  LET grade == GradeBy(key, Single(field, x))
             IN  grade # Malformed /\ grade.key = key /\ (grade.correct <=> x = v)
  <2> DEFINE answer == Single(field, x)
             grade == GradeBy(key, answer)
  <2>1. HasOne(answer, field) /\ answer[field] = x
    BY SingleAnswer DEF HasOne
  <2>2. HasOne(key, field) /\ key[field] = v
    BY <1>2 DEF HasOne
  <2> HIDE DEF answer
  <2>3. IsGrade(grade, key, answer, field)
    BY <2>1, <2>2, GradeOfOne, Zenon
  <2> HIDE DEF grade
  <2>4. grade # Malformed /\ grade.key = key /\ (grade.correct <=> x = v)
    BY <2>1, <2>2, <2>3 DEF IsGrade
  <2> QED
    BY <2>4 DEF grade, answer
<1>5. GradeBy(key, DummyAnswer(payload)).key = key
  <2>1. HasOne(DummyAnswer(payload), field)
    BY DEF payload, HasOne
  <2>2. HasOne(key, field)
    BY <1>2 DEF HasOne
  <2>3. IsGrade(GradeBy(key, DummyAnswer(payload)), key, DummyAnswer(payload), field)
    BY <2>1, <2>2, GradeOfOne, Zenon
  <2> QED
    BY <2>3, Zenon DEF IsGrade
<1>6. Printable(payload, key)
  BY <1>2 DEF Printable, AnswerFields
<1>7. v \in OnOffer(config.type, payload) /\ AnswerField(config.type, payload) = field
  BY DEF payload
<1> QED
  BY <1>1, <1>3, <1>4, <1>5, <1>6, <1>7 DEF RightIs, payload, key

\* Whatever the shuffle, every id of a list is on the page.
LEMMA ShownIds ==
  ASSUME NEW list, IsList(list), NEW f \in Shuffles(DOMAIN list)
  PROVE  \A i \in DOMAIN list :
           list[i].id \in ToSet([slot \in DOMAIN list |-> list[f[slot]].id])
<1> SUFFICES ASSUME NEW i \in DOMAIN list
             PROVE  list[i].id \in ToSet([slot \in DOMAIN list |-> list[f[slot]].id])
  OBVIOUS
<1>1. PICK slot \in DOMAIN list : f[slot] = i
  BY ListPlaces, ShuffleIsOnto
<1> QED
  BY <1>1 DEF ToSet

\* A quiz of each kind: the one right answer, on its page and under its field,
\* and the content says so.
QuizAnswer(config, seed, field, v) ==
  /\ AnswerField("quiz", QuizPayload(config, seed)) = field
  /\ DOMAIN DummyAnswer(QuizPayload(config, seed)) = {field}
  /\ v \in OnOffer("quiz", QuizPayload(config, seed))
  /\ QuizKey(config, seed) = Single(field, v)
  /\ SaidByContent(config, seed, Single(field, v))

LEMMA SaidOfOthers ==
  ASSUME NEW config, NEW seed, NEW field, field \notin {"pairs", "order"}, NEW v
  PROVE  SaidByContent(config, seed, Single(field, v))
<1> DEFINE answer == Single(field, v)
<1>1. "pairs" \notin DOMAIN answer /\ "order" \notin DOMAIN answer
  BY DEF Single
<1> HIDE DEF answer
<1>2. SaidByContent(config, seed, answer)
  BY <1>1 DEF SaidByContent
<1> QED
  BY <1>2 DEF answer

LEMMA SingleChoice ==
  ASSUME NEW config, NEW seed, NEW v, v = VariantOf(config, seed), v.kind = "single_choice",
         ValidVariant(v), ParsedVariant(v), seed.order[1] \in Orders(v)
  PROVE  \E x : QuizAnswer(config, seed, "optionId", x)
<1> DEFINE right == CHOOSE o \in RightOptions(v) : TRUE
           page == [slot \in DOMAIN v.options |-> v.options[seed.order[1][slot]].id]
           payload == [kind |-> v.kind, options |-> page]
           said == SaidByContent(config, seed, Single("optionId", right.id))
<1>1. right \in RightOptions(v)
  <2>1. Cardinality(RightOptions(v)) = 1
    BY DEF ValidVariant, Choosing
  <2> QED
    BY <2>1, FS_EmptySet
<1>2. IsList(v.options) /\ seed.order[1] \in Shuffles(DOMAIN v.options)
  BY DEF ParsedVariant, Orders, Shuffled, Choosing
<1>3. right.id \in ToSet(page)
  <2>1. PICK i \in DOMAIN v.options : v.options[i] = right
    BY <1>1 DEF RightOptions, ToSet
  <2> QED
    BY <1>2, <2>1, ShownIds
<1>4. QuizPayload(config, seed) = payload /\ QuizKey(config, seed) = [optionId |-> right.id]
  BY DEF QuizPayload, QuizKey, Choosing
<1>5. said
  BY SaidOfOthers
<1> HIDE DEF right, page, said
<1>6. [optionId |-> right.id] = Single("optionId", right.id)
  BY DEF Single
<1>7. /\ AnswerField("quiz", payload) = "optionId"
      /\ OnOffer("quiz", payload) = ToSet(page)
  BY DEF AnswerField, QuizField, OnOffer, Divergent, ChartTypes
<1>8. DOMAIN DummyAnswer(payload) = {"optionId"}
  BY DEF DummyAnswer
<1> QED
  BY <1>3, <1>4, <1>5, <1>6, <1>7, <1>8 DEF QuizAnswer, said

LEMMA MultiSelect ==
  ASSUME NEW config, NEW seed, NEW v, v = VariantOf(config, seed), v.kind = "multi_select",
         ValidVariant(v), ParsedVariant(v), seed.order[1] \in Orders(v)
  PROVE  \E x : QuizAnswer(config, seed, "optionIds", x)
<1> DEFINE right == {o.id : o \in RightOptions(v)}
           page == [slot \in DOMAIN v.options |-> v.options[seed.order[1][slot]].id]
           payload == [kind |-> v.kind, options |-> page]
           said == SaidByContent(config, seed, Single("optionIds", right))
<1>1. RightOptions(v) # {}
  <2>1. Cardinality(RightOptions(v)) \in 1..(Len(v.options) - 1)
    BY DEF ValidVariant, Choosing
  <2>2. Cardinality(RightOptions(v)) # 0
    BY <2>1
  <2> QED
    BY <2>2, FS_EmptySet
<1>2. IsList(v.options) /\ seed.order[1] \in Shuffles(DOMAIN v.options)
  BY DEF ParsedVariant, Orders, Shuffled, Choosing
<1>3. right \in (SUBSET ToSet(page)) \ {{}}
  <2>1. \A o \in RightOptions(v) : \E i \in DOMAIN v.options : v.options[i] = o
    BY DEF RightOptions, ToSet
  <2>2. \A o \in RightOptions(v) : o.id \in ToSet(page)
    BY <1>2, <2>1, ShownIds
  <2> QED
    BY <1>1, <2>2
<1>4. QuizPayload(config, seed) = payload /\ QuizKey(config, seed) = [optionIds |-> right]
  BY DEF QuizPayload, QuizKey, Choosing
<1>5. said
  BY SaidOfOthers
<1> HIDE DEF right, page, said
<1>6. [optionIds |-> right] = Single("optionIds", right)
  BY DEF Single
<1>7. /\ AnswerField("quiz", payload) = "optionIds"
      /\ OnOffer("quiz", payload) = (SUBSET ToSet(page)) \ {{}}
  BY DEF AnswerField, QuizField, OnOffer, Divergent, ChartTypes
<1>8. DOMAIN DummyAnswer(payload) = {"optionIds"}
  BY DEF DummyAnswer
<1> QED
  BY <1>3, <1>4, <1>5, <1>6, <1>7, <1>8 DEF QuizAnswer, said

LEMMA TrueFalse ==
  ASSUME NEW config, NEW seed, NEW v, v = VariantOf(config, seed), v.kind = "true_false",
         ValidVariant(v), ParsedVariant(v)
  PROVE  \E x : QuizAnswer(config, seed, "value", x)
<1> DEFINE payload == [kind |-> v.kind]
           said == SaidByContent(config, seed, Single("value", v.answer))
<1>1. v.answer \in BOOLEAN
  BY DEF ValidVariant, ParsedVariant, Choosing
<1>2. QuizPayload(config, seed) = payload /\ QuizKey(config, seed) = [value |-> v.answer]
  BY DEF QuizPayload, QuizKey, Choosing
<1>3. said
  BY SaidOfOthers
<1> HIDE DEF said
<1>4. [value |-> v.answer] = Single("value", v.answer)
  BY DEF Single
<1>5. AnswerField("quiz", payload) = "value" /\ OnOffer("quiz", payload) = BOOLEAN
  BY DEF AnswerField, QuizField, OnOffer, Divergent, ChartTypes
<1>6. DOMAIN DummyAnswer(payload) = {"value"}
  BY DEF DummyAnswer
<1> QED
  BY <1>1, <1>2, <1>3, <1>4, <1>5, <1>6 DEF QuizAnswer, said

\* The item of each position.
LEMMA OrderingAnswer ==
  ASSUME NEW config, NEW seed, NEW v, v = VariantOf(config, seed), v.kind = "ordering",
         ValidVariant(v), ParsedVariant(v), seed.order[1] \in Orders(v)
  PROVE  \E x : QuizAnswer(config, seed, "order", x)
<1> DEFINE D == DOMAIN v.items
           f == seed.order[1]
           item(p) == CHOOSE i \in ToSet(v.items) : i.position = p
           slot(p) == CHOOSE s \in D : v.items[f[s]] = item(p)
           right == [p \in D |-> item(p).id]
           page == [s \in D |-> v.items[f[s]].id]
           moves == [p \in D |-> slot(p)]
           payload == [kind |-> v.kind, items |-> page]
           said == SaidByContent(config, seed, Single("order", right))
<1>1. /\ IsList(v.items) /\ f \in Shuffles(D)
      /\ Distinct(v.items) /\ {i.position : i \in ToSet(v.items)} = 1..Len(v.items)
  BY DEF ParsedVariant, Orders, Shuffled, Choosing, ValidVariant
<1>2. D = 1..Len(v.items) /\ \A w \in D : \E s \in D : f[s] = w
  <2>1. IsList(v.items) /\ f \in Shuffles(DOMAIN v.items)
    BY <1>1
  <2>2. D = 1..Len(v.items)
    BY <2>1, ListPlaces
  <2> HIDE DEF f
  <2>3. \A w \in DOMAIN v.items : \E s \in DOMAIN v.items : f[s] = w
    BY <2>1, ListIsShown, Zenon
  <2> QED
    BY <2>2, <2>3
<1>3. ASSUME NEW p \in D PROVE item(p) \in ToSet(v.items) /\ item(p).position = p
  <2>1. \E i \in ToSet(v.items) : i.position = p
    BY <1>1, <1>2
  <2> QED
    BY <2>1
<1> HIDE DEF item
<1>4. ASSUME NEW p \in D PROVE slot(p) \in D /\ v.items[f[slot(p)]] = item(p)
  <2>1. PICK k \in D : v.items[k] = item(p)
    BY <1>3 DEF ToSet
  <2>2. PICK s \in D : f[s] = k
    BY <1>2
  <2>3. v.items[f[s]] = item(p)
    BY <2>1, <2>2
  <2> QED
    BY <2>3
<1> HIDE DEF slot
<1>5. moves \in Shuffles(D)
  <2>1. moves \in [D -> D]
    BY <1>4
  <2>2. ASSUME NEW p \in D, NEW q \in D, moves[p] = moves[q] PROVE p = q
    <3>1. slot(p) = slot(q)
      BY <2>2
    <3>2. item(p) = item(q)
      BY <1>4, <3>1
    <3> QED
      BY <1>3, <3>2
  <2> HIDE DEF moves
  <2> QED
    BY <2>1, <2>2 DEF Shuffles, IsInjective
<1>6. right = [p \in D |-> page[moves[p]]]
  <2>1. ASSUME NEW p \in D PROVE page[moves[p]] = item(p).id
    <3>1. page[slot(p)] = v.items[f[slot(p)]].id
      BY <1>4
    <3> QED
      BY <1>4, <3>1
  <2> HIDE DEF page, moves, D
  <2> QED
    BY <2>1
<1>7. said
  <2> DEFINE position(id) == (CHOOSE i \in ToSet(v.items) : i.id = id).position
  <2>1. ASSUME NEW p \in D PROVE position(right[p]) = p
    <3>1. \A i \in ToSet(v.items) : i.id = item(p).id => i = item(p)
      BY <1>1, <1>3, DistinctIds DEF ToSet
    <3>2. (CHOOSE i \in ToSet(v.items) : i.id = item(p).id) = item(p)
      BY <1>3, <3>1
    <3>3. right[p] = item(p).id
      OBVIOUS
    <3> QED
      BY <1>3, <3>2, <3>3
  <2> DEFINE answer == Single("order", right)
  <2>2. DOMAIN right = D
    OBVIOUS
  <2> HIDE DEF right
  <2>3. "pairs" \notin DOMAIN answer /\ answer.order = right
    BY DEF Single
  <2> HIDE DEF answer, position, D
  <2>4. \A i \in DOMAIN answer.order : position(answer.order[i]) = i
    BY <2>1, <2>2, <2>3
  <2>5. SaidByContent(config, seed, answer)
    BY <2>3, <2>4 DEF SaidByContent, position
  <2> QED
    BY <2>5 DEF answer
<1>8. QuizPayload(config, seed) = payload
  BY DEF QuizPayload, Choosing
<1>9. QuizKey(config, seed) = [order |-> right]
  BY DEF QuizKey, Choosing, item
<1> HIDE DEF right, said
<1>10. [order |-> right] = Single("order", right)
  BY DEF Single
<1>11. DOMAIN page = D
  OBVIOUS
<1> HIDE DEF page, D, moves
<1>12. AnswerField("quiz", payload) = "order"
  BY DEF AnswerField, QuizField, Divergent
<1>13. right \in OnOffer("quiz", payload)
  <2>1. OnOffer("quiz", payload) = {[i \in DOMAIN payload.items |-> payload.items[g[i]]] :
                                     g \in Shuffles(DOMAIN payload.items)}
    BY <1>12 DEF OnOffer, Divergent, ChartTypes
  <2>2. payload.items = page
    OBVIOUS
  <2> HIDE DEF payload
  <2> QED
    BY <1>5, <1>6, <1>11, <2>1, <2>2
<1>14. DOMAIN DummyAnswer(payload) = {"order"}
  BY DEF DummyAnswer
<1> HIDE DEF payload
<1> QED
  BY <1>7, <1>8, <1>9, <1>10, <1>12, <1>13, <1>14 DEF QuizAnswer, said

\* The right side of each left side.
LEMMA MatchingAnswer ==
  ASSUME NEW config, NEW seed, NEW v, v = VariantOf(config, seed), v.kind = "matching",
         ValidVariant(v), ParsedVariant(v), seed.order[1] \in Orders(v), seed.order[2] \in Orders(v)
  PROVE  QuizAnswer(config, seed, "pairs",
                    [s \in DOMAIN v.pairs |-> CHOOSE t \in DOMAIN v.pairs :
                                                seed.order[2][t] = seed.order[1][s]])
<1> DEFINE D == DOMAIN v.pairs
           f == seed.order[1]
           g == seed.order[2]
           right == [s \in D |-> CHOOSE t \in D : g[t] = f[s]]
           slots == [s \in D |-> s]
           payload == [kind |-> v.kind, lefts |-> slots, rights |-> slots]
           said == SaidByContent(config, seed, Single("pairs", right))
<1>1. IsList(v.pairs) /\ f \in Shuffles(D) /\ g \in Shuffles(D)
  BY DEF ParsedVariant, Orders, Shuffled, Choosing
<1>2. IsFiniteSet(D)
  BY <1>1, ListPlaces
<1>3. right \in Shuffles(D)
  <2> HIDE DEF D, f, g
  <2> QED
    BY <1>1, <1>2, InverseShuffle
<1>4. ASSUME NEW s \in D PROVE right[s] \in D /\ g[right[s]] = f[s]
  <2> HIDE DEF D, f, g
  <2>1. f[s] \in D
    BY <1>1, ShuffleIsOne
  <2>2. \E t \in D : g[t] = f[s]
    BY <1>1, <1>2, <2>1, ShuffleIsOnto
  <2> QED
    BY <2>2
<1>5. Rights(v, seed) = [s \in D |-> g[s]] /\ Lefts(v, seed) = [s \in D |-> f[s]]
  BY DEF Rights, Lefts
<1>6. said
  <2> DEFINE answer == Single("pairs", right)
  <2>1. DOMAIN right = D
    OBVIOUS
  <2> HIDE DEF right
  <2>2. "order" \notin DOMAIN answer /\ answer.pairs = right
    BY DEF Single
  <2> HIDE DEF answer
  <2>3. \A s \in DOMAIN answer.pairs : Rights(v, seed)[answer.pairs[s]] = Lefts(v, seed)[s]
    BY <1>4, <1>5, <2>1, <2>2
  <2>4. SaidByContent(config, seed, answer)
    BY <2>2, <2>3 DEF SaidByContent
  <2> QED
    BY <2>4 DEF answer
<1>7. QuizPayload(config, seed) = payload
  BY DEF QuizPayload, Choosing
<1>8. QuizKey(config, seed) = [pairs |-> right]
  <2>1. ASSUME NEW s \in D, NEW t \in D PROVE Rights(v, seed)[t] = Lefts(v, seed)[s] <=> g[t] = f[s]
    BY <1>5
  <2> DEFINE paired(s) == CHOOSE t \in D : Rights(v, seed)[t] = Lefts(v, seed)[s]
             drawn(s) == CHOOSE t \in D : g[t] = f[s]
             key == [s \in D |-> paired(s)]
  <2>2. ASSUME NEW s \in D PROVE paired(s) = drawn(s)
    BY <2>1
  <2>3. right = [s \in D |-> drawn(s)]
    OBVIOUS
  <2>4. QuizKey(config, seed) = [pairs |-> key]
    BY DEF QuizKey, Choosing
  <2> HIDE DEF paired, drawn, right
  <2>5. key = right
    BY <2>2, <2>3
  <2> QED
    BY <2>4, <2>5
<1> HIDE DEF right, said
<1>9. [pairs |-> right] = Single("pairs", right)
  BY DEF Single
<1>10. AnswerField("quiz", payload) = "pairs"
  BY DEF AnswerField, QuizField, Divergent
<1>11. right \in OnOffer("quiz", payload)
  <2>1. ToSet(slots) = D
    BY DEF ToSet
  <2>2. payload.lefts = slots
    OBVIOUS
  <2> HIDE DEF payload, slots
  <2>3. OnOffer("quiz", payload) = Shuffles(D)
    BY <1>10, <2>1, <2>2 DEF OnOffer, Divergent, ChartTypes
  <2> QED
    BY <1>3, <2>3
<1>12. DOMAIN DummyAnswer(payload) = {"pairs"}
  BY DEF DummyAnswer
<1> HIDE DEF payload
<1>13. QuizAnswer(config, seed, "pairs", right)
  BY <1>6, <1>7, <1>8, <1>9, <1>10, <1>11, <1>12 DEF QuizAnswer, said
<1> QED
  BY <1>13 DEF right

\* Whatever a quiz asks and however it is shuffled, one answer is right.
LEMMA QuizIsRight ==
  ASSUME Fresh, NEW config, config.type = "quiz", ValidQuiz(config), IsList(config.variants),
         \A v \in ToSet(config.variants) : ParsedVariant(v),
         NEW seed \in QuizSeeds(config)
  PROVE  \E v : /\ RightIs(config, seed, QuizKey(config, seed), v)
                /\ LET field == AnswerField("quiz", QuizPayload(config, seed))
                   IN  SaidByContent(config, seed, Single(field, v))
<1> DEFINE v == VariantOf(config, seed)
<1>1. /\ ValidVariant(v) /\ ParsedVariant(v)
      /\ seed.order[1] \in Orders(v) /\ seed.order[2] \in Orders(v)
  BY QuizVariant
<1>2. \/ v.kind = "single_choice" \/ v.kind = "multi_select" \/ v.kind = "true_false"
      \/ v.kind = "ordering" \/ v.kind = "matching"
  BY <1>1 DEF ValidVariant, Choosing
<1>3. \E field \in AnswerFields : \E x : QuizAnswer(config, seed, field, x)
  <2> HIDE DEF v
  <2>1. v = VariantOf(config, seed)
    BY DEF v
  <2> QED
    BY <1>1, <1>2, <2>1, SingleChoice, MultiSelect, TrueFalse, OrderingAnswer, MatchingAnswer
    DEF AnswerFields
<1>4. PICK field \in AnswerFields : \E x : QuizAnswer(config, seed, field, x)
  BY <1>3
<1>5. PICK x : QuizAnswer(config, seed, field, x)
  BY <1>4
<1>6. RightIs(config, seed, QuizKey(config, seed), x)
  BY <1>5, QuizBySingle DEF QuizAnswer
<1> QED
  BY <1>5, <1>6 DEF QuizAnswer

----------------------------------------------------------------------------
(* The options of a calculation.                                           *)

\* What taking the candidates of s in their order computes.
PartTakes(g, entries, cs, range, S) ==
  [s \in SUBSET S |->
     IF s = {} THEN entries ELSE Take(g[s \ {Max(s)}], cs[Max(s)], range)]
TakesTo(g, entries, cs, range, n) == g = PartTakes(g, entries, cs, range, 1..n)

LEMMA MaxOfTop ==
  ASSUME NEW m \in Nat, NEW s \in SUBSET (1..m), m \in s
  PROVE  Max(s) = m
<1>1. m \in s /\ \A y \in s : m >= y
  OBVIOUS
<1>2. \A x \in s : (\A y \in s : x >= y) => x = m
  OBVIOUS
<1> QED
  BY <1>1, <1>2 DEF Max

LEMMA TakesExist ==
  ASSUME NEW entries, NEW cs, NEW range, NEW n \in Nat
  PROVE  \E g : TakesTo(g, entries, cs, range, n)
<1> DEFINE Good(m) == \E g : TakesTo(g, entries, cs, range, m)
           Bad == {m \in Nat : ~Good(m)}
<1>1. SUFFICES ASSUME Bad # {} PROVE FALSE
  OBVIOUS
<1>2. PICK m \in Bad : \A k \in Bad : m <= k
  <2>1. Bad \subseteq Nat
    OBVIOUS
  <2> HIDE DEF Bad
  <2> QED
    BY <1>1, <2>1, LeastNumber
<1>3. m # 0
  <2> DEFINE g == [s \in SUBSET (1..0) |-> entries]
  <2>1. TakesTo(g, entries, cs, range, 0)
    <3>1. \A s \in SUBSET (1..0) : s = {}
      OBVIOUS
    <3> QED
      BY <3>1 DEF TakesTo, PartTakes
  <2> QED
    BY <2>1
<1>4. m \in Nat /\ m - 1 \in Nat /\ Good(m - 1)
  <2>1. m \in Nat /\ m - 1 \in Nat
    BY <1>3
  <2>2. m - 1 \notin Bad
    <3> HIDE DEF Bad
    <3> QED
      BY <1>2, <2>1
  <2> QED
    BY <2>1, <2>2
<1>5. PICK g : TakesTo(g, entries, cs, range, m - 1)
  BY <1>4
<1> DEFINE h == [s \in SUBSET (1..m) |->
                   IF m \in s THEN Take(g[s \ {m}], cs[m], range) ELSE g[s]]
<1>6. ASSUME NEW s \in SUBSET (1..m)
      PROVE  h[s] = IF s = {} THEN entries ELSE Take(h[s \ {Max(s)}], cs[Max(s)], range)
  <2>1. CASE m \in s
    <3>1. Max(s) = m
      BY <1>4, <2>1, MaxOfTop
    <3>2. h[s \ {m}] = g[s \ {m}]
      OBVIOUS
    <3>3. h[s] = Take(g[s \ {m}], cs[m], range)
      BY <2>1
    <3> HIDE DEF h
    <3> QED
      BY <2>1, <3>1, <3>2, <3>3
  <2>2. CASE m \notin s
    <3>1. s \in SUBSET (1..(m - 1))
      BY <1>4, <2>2
    <3>2. g[s] = IF s = {} THEN entries ELSE Take(g[s \ {Max(s)}], cs[Max(s)], range)
      BY <1>5, <3>1 DEF TakesTo, PartTakes
    <3>3. h[s] = g[s] /\ h[s \ {Max(s)}] = g[s \ {Max(s)}]
      BY <2>2
    <3> HIDE DEF h
    <3> QED
      BY <3>2, <3>3
  <2> QED
    BY <2>1, <2>2
<1>7. TakesTo(h, entries, cs, range, m)
  <2>1. h = [s \in SUBSET (1..m) |-> h[s]]
    OBVIOUS
  <2> HIDE DEF h
  <2> QED
    BY <1>6, <2>1 DEF TakesTo, PartTakes
<1> QED
  BY <1>4, <1>7

\* At most four options of different values: the first one and some of the wrong.
Spread(entries, first, wrong) ==
  /\ IsList(entries) /\ Len(entries) \in 1..4
  /\ entries[1] = first
  /\ \A i \in DOMAIN entries : i # 1 => entries[i] \in wrong
  /\ \A i, j \in DOMAIN entries : entries[i].value = entries[j].value => i = j

LEMMA TakeSpreads ==
  ASSUME NEW entries, NEW first, NEW wrong, Spread(entries, first, wrong),
         NEW c \in wrong, NEW range
  PROVE  Spread(Take(entries, c, range), first, wrong)
<1>1. CASE Take(entries, c, range) = entries
  BY <1>1
<1>2. CASE Take(entries, c, range) # entries
  <2>1. /\ Len(entries) # 4 /\ \A i \in DOMAIN entries : entries[i].value # c.value
        /\ Take(entries, c, range) = Append(entries, c)
    BY <1>2 DEF Take
  <2> DEFINE n == Len(entries)
             X == ToSet(entries) \cup {c}
             more == Append(entries, c)
  <2>2. entries \in Seq(X) /\ c \in X
    BY ListIn DEF Spread
  <2>3. n \in 1..3 /\ DOMAIN entries = 1..n
    BY <2>1, ListMembers DEF Spread
  <2> HIDE DEF X
  <2>4. /\ more \in Seq(X) /\ Len(more) = n + 1 /\ DOMAIN more = 1..(n + 1)
        /\ more[n + 1] = c /\ \A i \in 1..n : more[i] = entries[i]
    BY <2>2, <2>3
  <2> HIDE DEF more, n
  <2>5. more \in Seq(ToSet(more))
    BY <2>4 DEF ToSet
  <2>6. IsList(more) /\ Len(more) \in 1..4
    BY <2>3, <2>4, <2>5 DEF IsList
  <2>7. /\ more[1] = first
        /\ \A i \in DOMAIN more : i # 1 => more[i] \in wrong
    <3>1. \A i \in 1..(n + 1) : i \in 1..n \/ i = n + 1
      BY <2>3
    <3> QED
      BY <2>3, <2>4, <3>1 DEF Spread
  <2>8. ASSUME NEW i \in DOMAIN more, NEW j \in DOMAIN more, more[i].value = more[j].value
        PROVE  i = j
    <3>1. i \in 1..n \/ i = n + 1
      BY <2>3, <2>4
    <3>2. j \in 1..n \/ j = n + 1
      BY <2>3, <2>4
    <3> QED
      BY <2>1, <2>3, <2>4, <2>8, <3>1, <3>2 DEF Spread
  <2>9. Spread(more, first, wrong)
    BY <2>6, <2>7, <2>8 DEF Spread
  <2> QED
    BY <2>1, <2>9 DEF more
<1> QED
  BY <1>1, <1>2

LEMMA TakesSpread ==
  ASSUME NEW entries, NEW first, NEW wrong, Spread(entries, first, wrong),
         NEW cs, NEW range, NEW n \in Nat, \A i \in 1..n : cs[i] \in wrong,
         NEW g, TakesTo(g, entries, cs, range, n)
  PROVE  Spread(g[1..n], first, wrong)
<1> DEFINE Bad == {k \in 0..n : ~Spread(g[1..k], first, wrong)}
<1>1. SUFFICES ASSUME Bad # {} PROVE FALSE
  OBVIOUS
<1>2. PICK m \in Bad : \A k \in Bad : m <= k
  <2>1. Bad \subseteq Nat
    OBVIOUS
  <2> HIDE DEF Bad
  <2> QED
    BY <1>1, <2>1, LeastNumber
<1>3. m \in 0..n /\ ~Spread(g[1..m], first, wrong)
  OBVIOUS
<1>4. \A s \in SUBSET (1..n) :
        g[s] = IF s = {} THEN entries ELSE Take(g[s \ {Max(s)}], cs[Max(s)], range)
  BY DEF TakesTo, PartTakes
<1>5. m # 0
  <2>1. 1..0 = {} /\ 1..0 \in SUBSET (1..n)
    OBVIOUS
  <2>2. g[1..0] = entries
    BY <1>4, <2>1
  <2> QED
    BY <1>3, <2>2
<1>6. m \in 1..n /\ m - 1 \in 0..n /\ m \in Nat
  BY <1>3, <1>5
<1>7. Spread(g[1..(m - 1)], first, wrong)
  <2>1. m - 1 \notin Bad
    <3> HIDE DEF Bad
    <3> QED
      BY <1>2, <1>6
  <2> QED
    BY <1>6, <2>1
<1>8. g[1..m] = Take(g[1..(m - 1)], cs[m], range)
  <2>1. 1..m \in SUBSET (1..n) /\ m \in 1..m
    BY <1>6
  <2>2. Max(1..m) = m
    BY <1>6, <2>1, MaxOfTop
  <2>3. (1..m) \ {m} = 1..(m - 1)
    BY <1>6
  <2> QED
    BY <1>4, <2>1, <2>2, <2>3
<1>9. Spread(g[1..m], first, wrong)
  BY <1>6, <1>7, <1>8, TakeSpreads
<1> QED
  BY <1>3, <1>9

LEMMA TakeAllSpreads ==
  ASSUME NEW entries, NEW first, NEW wrong, Spread(entries, first, wrong),
         NEW cs, NEW range, NEW n \in Nat, DOMAIN cs = 1..n, \A i \in 1..n : cs[i] \in wrong
  PROVE  Spread(TakeAll(entries, cs, range), first, wrong)
<1> DEFINE g == CHOOSE x : TakesTo(x, entries, cs, range, n)
<1>1. TakesTo(g, entries, cs, range, n)
  BY TakesExist
<1>2. TakeAll(entries, cs, range) = g[1..n]
  BY DEF TakeAll, FoldLeft, MapThenFoldSet, TakesTo, PartTakes
<1> HIDE DEF g
<1> QED
  BY <1>1, <1>2, TakesSpread

\* Each formula can be mistaken in three ways.
LEMMA ThreeOf ==
  ASSUME NEW a, NEW b, NEW c
  PROVE  DOMAIN <<a, b, c>> = 1..3
OBVIOUS

LEMMA ThreeMistakes ==
  ASSUME NEW formula \in DOMAIN Arguments, NEW p
  PROVE  DOMAIN Mistakes(formula, p) = 1..3
<1>1. DOMAIN LiquidationMistakes(p) = 1..3
  BY ThreeOf, Zenon DEF LiquidationMistakes
<1>2. DOMAIN FundingMistakes(p) = 1..3
  BY ThreeOf, Zenon DEF FundingMistakes
<1>3. DOMAIN InitialMarginMistakes(p) = 1..3
  BY ThreeOf, Zenon DEF InitialMarginMistakes
<1>4. DOMAIN NetPnlMistakes(p) = 1..3
  BY ThreeOf, Zenon DEF NetPnlMistakes
<1>5. DOMAIN MarketCapMistakes(p) = 1..3
  BY ThreeOf, Zenon DEF MarketCapMistakes
<1>6. DOMAIN FdvMistakes(p) = 1..3
  BY ThreeOf, Zenon DEF FdvMistakes
<1>7. DOMAIN PositionSizeMistakes(p) = 1..3
  BY ThreeOf, Zenon DEF PositionSizeMistakes
<1>8. DOMAIN ExpectancyMistakes(p) = 1..3
  BY ThreeOf, Zenon DEF ExpectancyMistakes
<1>9. DOMAIN NetDeltaMistakes(p) = 1..3
  BY ThreeOf, Zenon DEF NetDeltaMistakes
<1>10. DOMAIN VenuePremiumMistakes(p) = 1..3
  BY ThreeOf, Zenon DEF VenuePremiumMistakes
<1>11. DOMAIN StyleNetMistakes(p) = 1..3
  BY ThreeOf, Zenon DEF StyleNetMistakes
<1> QED
  BY <1>1, <1>2, <1>3, <1>4, <1>5, <1>6, <1>7, <1>8, <1>9, <1>10, <1>11
  DEF Mistakes, Arguments

\* What a formula computes, unmistaken, and what is offered against it.
RightEntry(config, p) ==
  Entry(Quantized(Compute(config.formula, p), config.round), Absent)
MistakenBy(config, p, i) ==
  LET mistake == Mistakes(config.formula, p)[i]
  IN  Entry(Quantized(mistake[2], config.round), mistake[1])
WrongEntries(config, p) ==
  LET expected == Compute(config.formula, p)
      slips == Slips(expected, Quantized(expected, config.round), config.round)
  IN  {MistakenBy(config, p, i) : i \in 1..3} \cup {slips[k] : k \in 1..SlipBound}

LEMMA WrongIsMistaken ==
  ASSUME Fresh, NEW config, config.formula \in DOMAIN Arguments, NEW p,
         NEW e \in WrongEntries(config, p)
  PROVE  /\ e.mistake # Absent
         /\ \/ e.mistake = "slip"
            \/ \E i \in 1..3 : e = MistakenBy(config, p, i)
<1>1. CASE \E i \in 1..3 : e = MistakenBy(config, p, i)
  <2>1. PICK i \in 1..3 : e = MistakenBy(config, p, i)
    BY <1>1
  <2>2. e.mistake = Mistakes(config.formula, p)[i][1]
    BY <2>1 DEF MistakenBy, Entry
  <2> QED
    BY <1>1, <2>2 DEF Fresh
<1>2. CASE ~\E i \in 1..3 : e = MistakenBy(config, p, i)
  <2> DEFINE expected == Compute(config.formula, p)
             slips == Slips(expected, Quantized(expected, config.round), config.round)
  <2>1. PICK k \in 1..SlipBound : e = slips[k]
    BY <1>2 DEF WrongEntries
  <2>2. slips[k].mistake = "slip"
    BY DEF Slips, Entry
  <2> HIDE DEF slips
  <2> QED
    BY <2>1, <2>2 DEF Fresh
<1> QED
  BY <1>1, <1>2

LEMMA EntriesSpread ==
  ASSUME NEW config, config.formula \in DOMAIN Arguments, NEW p
  PROVE  Spread(Entries(config, p), RightEntry(config, p), WrongEntries(config, p))
<1> DEFINE expected == Compute(config.formula, p)
           mistakes == Mistakes(config.formula, p)
           right == Quantized(expected, config.round)
           first == <<Entry(right, Absent)>>
           named == Mistaken(mistakes, config.round)
           slips == Slips(expected, right, config.round)
           some == TakeAll(first, named, Sound(right, config.round))
           e == RightEntry(config, p)
           wrong == WrongEntries(config, p)
<1>1. Entries(config, p) = Filled(some, slips)
  BY DEF Entries, EntriesFor, EntriesOf
<1>2. Spread(first, e, wrong)
  <2>1. first = <<e>>
    BY DEF RightEntry
  <2> HIDE DEF e, first, wrong
  <2>2. <<e>> \in Seq({e}) /\ Len(<<e>>) = 1 /\ DOMAIN <<e>> = {1} /\ <<e>>[1] = e
    OBVIOUS
  <2>3. ToSet(<<e>>) = {e}
    BY DEF ToSet
  <2> QED
    BY <2>1, <2>2, <2>3 DEF Spread, IsList
<1>3. DOMAIN named = 1..3 /\ \A i \in 1..3 : named[i] \in wrong
  <2>1. DOMAIN mistakes = 1..3
    BY ThreeMistakes
  <2> HIDE DEF mistakes
  <2>2. DOMAIN named = 1..3
        /\ \A i \in 1..3 : named[i] = Entry(Quantized(mistakes[i][2], config.round), mistakes[i][1])
    BY <2>1 DEF Mistaken
  <2> HIDE DEF named
  <2> QED
    BY <2>2 DEF WrongEntries, MistakenBy, mistakes
<1>4. DOMAIN slips = 1..SlipBound /\ \A k \in 1..SlipBound : slips[k] \in wrong
  <2>1. DOMAIN slips = 1..SlipBound
    BY DEF Slips
  <2>2. wrong = {MistakenBy(config, p, i) : i \in 1..3} \cup {slips[k] : k \in 1..SlipBound}
    BY DEF WrongEntries
  <2> HIDE DEF slips, wrong
  <2> QED
    BY <2>1, <2>2
<1> HIDE DEF first, named, slips, e, wrong
<1>5. Spread(some, e, wrong)
  BY <1>2, <1>3, TakeAllSpreads
<1> HIDE DEF some
<1>6. Spread(TakeAll(some, slips, Int), e, wrong)
  BY <1>4, <1>5, SlipAssumption, TakeAllSpreads
<1>7. Spread(Filled(some, slips), e, wrong)
  BY <1>5, <1>6 DEF Filled
<1> QED
  BY <1>1, <1>7 DEF e, wrong

\* The first option is the only one that is not a mistake.
LEMMA EntriesAreSpread ==
  ASSUME Fresh, NEW config, config.formula \in DOMAIN Arguments, NEW p
  PROVE  LET entries == Entries(config, p)
         IN  /\ IsList(entries) /\ Len(entries) \in 1..4
             /\ entries[1].mistake = Absent
             /\ \A i \in DOMAIN entries : i # 1 => entries[i].mistake # Absent
             /\ \A i, j \in DOMAIN entries : entries[i].value = entries[j].value => i = j
<1> DEFINE entries == Entries(config, p)
<1>1. Spread(entries, RightEntry(config, p), WrongEntries(config, p))
  BY EntriesSpread
<1>2. RightEntry(config, p).mistake = Absent
  BY DEF RightEntry, Entry
<1> HIDE DEF entries
<1>3. /\ IsList(entries) /\ Len(entries) \in 1..4
      /\ entries[1].mistake = Absent
      /\ \A i \in DOMAIN entries : i # 1 => entries[i].mistake # Absent
      /\ \A i, j \in DOMAIN entries : entries[i].value = entries[j].value => i = j
  BY <1>1, <1>2, WrongIsMistaken DEF Spread
<1> QED
  BY <1>3 DEF entries

\* An answer that is graded by one field of its key.
LEMMA ChoiceIsRight ==
  ASSUME Fresh, NEW config, NEW seed, NEW field, NEW key, NEW v, key[field] = v,
         SubmissionFor(key) = Single(field, v),
         \A answer : Grade(config, seed, answer) = ChoiceGrade(field, key, answer),
         AnswerField(config.type, Payload(config, seed)) = field,
         v \in OnOffer(config.type, Payload(config, seed)),
         field \in DOMAIN DummyAnswer(Payload(config, seed)),
         Printable(Payload(config, seed), key)
  PROVE  RightIs(config, seed, key, v)
<1> DEFINE dummy == DummyAnswer(Payload(config, seed))
<1>1. ASSUME NEW x
      PROVE  LET grade == Grade(config, seed, Single(field, x))
             IN  grade # Malformed /\ grade.key = key /\ (grade.correct <=> x = v)
  <2> DEFINE answer == Single(field, x)
             grade == ChoiceGrade(field, key, answer)
  <2>1. field \in DOMAIN answer /\ answer[field] = x
    BY DEF Single
  <2> HIDE DEF answer
  <2>2. IsGrade(grade, key, answer, field)
    BY <2>1, GradeOfChoice, Zenon
  <2> HIDE DEF grade
  <2>3. grade # Malformed /\ grade.key = key /\ (grade.correct <=> x = v)
    BY <2>1, <2>2 DEF IsGrade
  <2> QED
    BY <2>3, Zenon DEF grade, answer
<1>2. ChoiceGrade(field, key, dummy).key = key
  <2> HIDE DEF dummy
  <2>1. field \in DOMAIN dummy
    BY DEF dummy
  <2>2. IsGrade(ChoiceGrade(field, key, dummy), key, dummy, field)
    BY <2>1, GradeOfChoice, Zenon
  <2> QED
    BY <2>2, Zenon DEF IsGrade
<1> QED
  BY <1>1, <1>2, Zenon DEF RightIs

\* A calculation shows four values, and the computed one is the right one.
LEMMA CalculationIsRight ==
  ASSUME Fresh, NEW config, config.type = "calculation", config.formula \in DOMAIN Arguments,
         NEW seed \in CalculationSeeds(config), Len(Entries(config, seed.params)) = 4
  PROVE  LET values == Payload(config, seed).values
         IN  /\ \E v \in 1..4 : /\ seed.order[v] = 1
                               /\ RightIs(config, seed, CalculationKey(config, seed), v)
             /\ Len(values) = 4 /\ IsInjective(values)
<1> DEFINE E == Entries(config, seed.params)
           order == seed.order
           options == Arranged(E, order)
           right == CHOOSE slot \in 1..4 : options[slot].mistake = Absent
           key == OptionsKey(options)
           slots == [slot \in 1..4 |-> slot]
           values == [slot \in 1..4 |-> options[slot].value]
           payload == OptionsPage(options)
<1>1. Payload(config, seed) = payload /\ CalculationKey(config, seed) = key
      /\ \A answer : Grade(config, seed, answer) = ChoiceGrade("optionId", key, answer)
  BY DEF Payload, Grade, CalculationPayload, CalculationKey, CalculationGrade, Options
<1>2. /\ IsList(E) /\ Len(E) = 4 /\ order \in Shuffles(1..4)
      /\ E[1].mistake = Absent /\ \A i \in DOMAIN E : i # 1 => E[i].mistake # Absent
      /\ \A i, j \in DOMAIN E : E[i].value = E[j].value => i = j
  BY EntriesAreSpread DEF CalculationSeeds
<1> HIDE DEF E, order
<1>3. DOMAIN E = 1..4 /\ IsFiniteSet(1..4)
  <2>1. DOMAIN E = 1..Len(E) /\ IsFiniteSet(DOMAIN E)
    BY <1>2, ListPlaces
  <2> QED
    BY <1>2, <2>1
<1>4. order \in [1..4 -> 1..4] /\ \A s, t \in 1..4 : order[s] = order[t] => s = t
  BY <1>2, ShuffleIsOne
<1>5. right \in 1..4 /\ order[right] = 1
  <2>1. PICK s \in 1..4 : order[s] = 1
    BY <1>2, <1>3, ShuffleIsOnto
  <2>2. options[s].mistake = Absent
    BY <1>2, <2>1 DEF Arranged
  <2>3. right \in 1..4 /\ options[right].mistake = Absent
    BY <2>2
  <2> HIDE DEF right
  <2>4. E[order[right]].mistake = Absent /\ order[right] \in DOMAIN E
    BY <1>3, <1>4, <2>3 DEF Arranged
  <2> QED
    BY <1>2, <2>3, <2>4
<1>6. Len(values) = 4 /\ IsInjective(values)
  <2>1. DOMAIN values = 1..4 /\ values \in Seq(ToSet(values))
    BY DEF ToSet
  <2>2. \A s \in 1..4 : values[s] = E[order[s]].value
    BY DEF Arranged
  <2> HIDE DEF values
  <2>3. \A s, t \in 1..4 : values[s] = values[t] => s = t
    BY <1>2, <1>3, <1>4, <2>2
  <2> QED
    BY <2>1, <2>3 DEF IsInjective
<1>7. payload = [kind |-> "multiple_choice", options |-> slots, values |-> values]
      /\ key = [optionId |-> right, value |-> options[right].value]
  BY DEF OptionsPage, OptionsKey
<1> HIDE DEF options, right
<1>8. DOMAIN key = {"optionId", "value"} /\ key["optionId"] = right
  BY <1>7
<1>9. ToSet(slots) = 1..4
  BY DEF ToSet
<1> HIDE DEF slots, values, key, payload
<1>10. AnswerField("calculation", payload) = "optionId"
  BY DEF AnswerField, QuizField, Divergent
<1>11. OnOffer("calculation", payload) = 1..4
  BY <1>7, <1>9, <1>10 DEF OnOffer, Divergent, ChartTypes
<1>12. "optionId" \in DOMAIN DummyAnswer(payload)
  BY <1>7 DEF DummyAnswer
<1>13. Printable(payload, key)
  BY <1>8 DEF Printable
<1>14. SubmissionFor(key) = Single("optionId", right)
  BY <1>8, SubmissionOf
<1>15. RightIs(config, seed, key, right)
  BY <1>1, <1>5, <1>8, <1>10, <1>11, <1>12, <1>13, <1>14, ChoiceIsRight
<1>16. Payload(config, seed).values = values
  BY <1>1, <1>7
<1> QED
  BY <1>1, <1>5, <1>6, <1>15, <1>16 DEF order

----------------------------------------------------------------------------
(* The label of a chart.                                                   *)

LEMMA PrintableMarks ==
  ASSUME NEW payload, NEW key, Apart(key.annotations, payload.candles)
  PROVE  Printable(payload, key)
BY DEF Apart, Printable

LEMMA ChartOffer ==
  ASSUME NEW type \in ChartTypes, NEW payload
  PROVE  OnOffer(type, payload) = ToSet(payload.choices)
<1> DEFINE field == AnswerField(type, payload)
<1>1. field \in {"label", "divergence"}
  BY DEF AnswerField, ChartTypes, Divergent
<1> HIDE DEF field
<1> QED
  BY <1>1 DEF OnOffer, field

\* A chart whose key has a label that is one of the choices.
LEMMA LabelIsRight ==
  ASSUME Fresh, NEW config, config.type \in ChartTypes, NEW seed, NEW key,
         NEW field, field = IF config.type = "pattern_chart" THEN "label" ELSE "divergence",
         \A answer : Grade(config, seed, answer) = ChoiceGrade(field, key, answer),
         "choices" \in DOMAIN Payload(config, seed), field \in DOMAIN key,
         DOMAIN key \ {field} \subseteq {"annotations", "bands"},
         key[field] \in ToSet(Payload(config, seed).choices),
         Apart(key.annotations, Payload(config, seed).candles)
  PROVE  RightIs(config, seed, key, key[field])
<1> DEFINE payload == Payload(config, seed)
<1>1. field \in DOMAIN DummyAnswer(payload)
  BY DEF DummyAnswer
<1>2. Printable(payload, key)
  BY PrintableMarks
<1>3. SubmissionFor(key) = Single(field, key[field])
  BY SubmissionOf
<1>4. AnswerField(config.type, payload) = field
  BY DEF AnswerField, ChartTypes, Divergent
<1>5. key[field] \in OnOffer(config.type, payload)
  BY ChartOffer
<1> HIDE DEF payload
<1> QED
  BY <1>1, <1>2, <1>3, <1>4, <1>5, ChoiceIsRight DEF payload

LEMMA SyntheticIsRight ==
  ASSUME Fresh, NEW config, config.type = "synthetic_chart", ValidSynthetic(config),
         Roomy("none", config.n), NEW seed \in SyntheticSeeds(config)
  PROVE  \E v : RightIs(config, seed, SyntheticKey(config, seed), v)
<1> DEFINE key == SyntheticKey(config, seed)
<1>1. /\ Payload(config, seed) = SyntheticPayload(config, seed)
      /\ \A answer : Grade(config, seed, answer) = ChoiceGrade("divergence", key, answer)
  BY DEF Payload, Grade
<1>2. Apart(key.annotations, SyntheticPayload(config, seed).candles)
  BY SyntheticIsLegible
<1>3. /\ "choices" \in DOMAIN SyntheticPayload(config, seed)
      /\ SyntheticPayload(config, seed).choices = config.choices
  BY DEF SyntheticPayload
<1>4. DOMAIN key = {"divergence", "annotations"} /\ key["divergence"] = seed.target
  BY DEF SyntheticKey
<1>5. seed.target \in ToSet(config.choices)
  BY DEF SyntheticSeeds, ValidSynthetic
<1> HIDE DEF key
<1>6. RightIs(config, seed, key, key["divergence"])
  BY <1>1, <1>2, <1>3, <1>4, <1>5, LabelIsRight DEF ChartTypes, Divergent
<1> QED
  BY <1>6 DEF key

LEMMA FixtureIsRight ==
  ASSUME Fresh, NEW config, config.type = "fixture_chart", ValidFixtures(config),
         NEW seed \in FixtureSeeds(config),
         Apart(config.fixtures[seed].marks, config.fixtures[seed].candles)
  PROVE  \E v : RightIs(config, seed, FixtureKey(config, seed), v)
<1> DEFINE key == FixtureKey(config, seed)
<1>1. /\ Payload(config, seed) = FixturePayload(config, seed)
      /\ \A answer : Grade(config, seed, answer) = ChoiceGrade("divergence", key, answer)
  BY DEF Payload, Grade
<1>2. /\ "choices" \in DOMAIN FixturePayload(config, seed)
      /\ FixturePayload(config, seed).choices = config.choices
      /\ FixturePayload(config, seed).candles = config.fixtures[seed].candles
  BY DEF FixturePayload
<1>3. /\ DOMAIN key = {"divergence", "annotations"}
      /\ key["divergence"] = config.fixtures[seed].label
      /\ key.annotations = config.fixtures[seed].marks
  BY DEF FixtureKey
<1>4. config.fixtures[seed].label \in ToSet(config.choices)
  BY DEF FixtureSeeds, ValidFixtures, ToSet
<1> HIDE DEF key
<1>5. RightIs(config, seed, key, key["divergence"])
  BY <1>1, <1>2, <1>3, <1>4, LabelIsRight DEF ChartTypes, Divergent
<1> QED
  BY <1>5 DEF key

LEMMA PatternChoices ==
  ASSUME NEW config, NEW seed
  PROVE  PatternPayload(config, seed).choices = config.choices
<1> DEFINE payload == PatternPayload(config, seed)
           chart == seed.chart
           n == Length(chart) - chart.warmup
           series == [choices  |-> config.choices,
                      candles  |-> n,
                      panes    |-> [pane \in chart.panes \cup {"rsi", "macd"} |-> n],
                      overlays |-> [name \in chart.overlays |-> n]]
           both == Joined(series, Shapes(chart))
<1>1. \E context : payload = Framed(both, chart, context)
  BY DEF PatternPayload
<1>2. /\ DOMAIN both = {"choices", "candles", "panes", "overlays", "levels", "diagonals"}
      /\ both["choices"] = config.choices
  <2>1. /\ DOMAIN series = {"choices", "candles", "panes", "overlays"}
        /\ series["choices"] = config.choices
        /\ DOMAIN Shapes(chart) = {"levels", "diagonals"}
    BY DEF Shapes
  <2>2. /\ DOMAIN both = DOMAIN series \cup DOMAIN Shapes(chart)
        /\ \A x \in DOMAIN series : both[x] = series[x]
    BY JoinedFields
  <2> HIDE DEF both, series
  <2> QED
    BY <2>1, <2>2
<1> HIDE DEF both, payload
<1>3. payload.choices = config.choices
  BY <1>1, <1>2, FramedFields
<1> QED
  BY <1>3 DEF payload

LEMMA PatternIsRight ==
  ASSUME Fresh, NEW config, config.type = "pattern_chart", ValidPattern(config),
         Roomy(config.injector, config.n), NEW seed \in PatternSeeds(config)
  PROVE  RightIs(config, seed, PatternKey(config, seed), seed.target)
<1> DEFINE key == PatternKey(config, seed)
           payload == PatternPayload(config, seed)
           chart == seed.chart
           w == chart.warmup
           first == [label |-> seed.target, annotations |-> MarksShown(chart.marks, w)]
           bands == [bands |-> chart.bands]
<1>1. /\ Payload(config, seed) = payload
      /\ \A answer : Grade(config, seed, answer) = ChoiceGrade("label", key, answer)
  BY DEF Payload, Grade
<1>2. Apart(key.annotations, payload.candles) /\ "choices" \in DOMAIN payload
  BY PatternIsLegible
<1>3. /\ "label" \in DOMAIN key /\ key["label"] = seed.target
      /\ DOMAIN key \ {"label"} \subseteq {"annotations", "bands"}
  <2>1. key = IF chart.bands = {} THEN first ELSE Joined(first, bands)
    BY DEF PatternKey
  <2>2. DOMAIN first = {"label", "annotations"} /\ first["label"] = seed.target
        /\ DOMAIN bands = {"bands"}
    OBVIOUS
  <2> HIDE DEF first, bands, key
  <2>3. DOMAIN Joined(first, bands) = DOMAIN first \cup DOMAIN bands
        /\ \A x \in DOMAIN first : Joined(first, bands)[x] = first[x]
    BY JoinedFields
  <2> QED
    BY <2>1, <2>2, <2>3
<1>4. payload.choices = config.choices
  BY PatternChoices
<1>5. seed.target \in ToSet(config.choices)
  BY PatternSeed DEF ValidPattern
<1> HIDE DEF key, payload
<1>6. RightIs(config, seed, key, key["label"])
  BY <1>1, <1>2, <1>3, <1>4, <1>5, LabelIsRight DEF ChartTypes, Divergent
<1> QED
  BY <1>3, <1>6 DEF key

----------------------------------------------------------------------------
(* The exercise on the page.                                               *)

QuizKinds == {"single_choice", "multi_select", "true_false", "ordering", "matching"}

LEMMA KindsOfQuiz ==
  ASSUME NEW config, ValidQuiz(config), IsList(config.variants),
         \A v \in ToSet(config.variants) : ParsedVariant(v),
         NEW seed \in QuizSeeds(config)
  PROVE  QuizPayload(config, seed).kind \in QuizKinds
<1> DEFINE v == VariantOf(config, seed)
<1>1. ValidVariant(v)
  BY QuizVariant
<1>2. v.kind \in QuizKinds
  BY <1>1 DEF ValidVariant, Choosing, QuizKinds
<1>3. QuizPayload(config, seed).kind = v.kind
  BY <1>2 DEF QuizPayload, QuizKinds, Choosing
<1> QED
  BY <1>2, <1>3

\* What the content of a course promises of an exercise.
Answerable(config) ==
  /\ config.type \in ExerciseTypes /\ ValidConfig(config)
  /\ config.type = "quiz" =>
       IsList(config.variants) /\ \A v \in ToSet(config.variants) : ParsedVariant(v)
  /\ config.type = "calculation" =>
       \A p \in Sampled(config) : Len(Entries(config, p)) = 4
  /\ config.type = "pattern_chart" => Roomy(config.injector, config.n)
  /\ config.type = "synthetic_chart" => Roomy("none", config.n)
  /\ config.type = "fixture_chart" =>
       \A i \in DOMAIN config.fixtures :
         Apart(config.fixtures[i].marks, config.fixtures[i].candles)

LEMMA ExerciseIsRight ==
  ASSUME Fresh, NEW config, Answerable(config), NEW seed \in Seeds(config)
  PROVE  LET payload == Payload(config, seed)
         IN  /\ \E key, v : /\ RightIs(config, seed, key, v)
                            /\ SaidByContent(config, seed,
                                             Single(AnswerField(config.type, payload), v))
             /\ config.type = "calculation" => Len(payload.values) = 4 /\ IsInjective(payload.values)
<1>1. CASE config.type = "quiz"
  <2>1. ValidQuiz(config) /\ seed \in QuizSeeds(config) /\ Payload(config, seed) = QuizPayload(config, seed)
    BY <1>1 DEF Answerable, ValidConfig, Seeds, Payload
  <2> QED
    BY <1>1, <2>1, QuizIsRight DEF Answerable
<1>2. CASE config.type # "quiz"
  <2>1. CASE config.type = "calculation"
    <3>1. /\ config.formula \in DOMAIN Arguments /\ seed \in CalculationSeeds(config)
      BY <2>1 DEF Answerable, ValidConfig, ValidCalculation, Seeds
    <3>2. seed.params \in Sampled(config)
      BY <3>1 DEF CalculationSeeds
    <3>3. Len(Entries(config, seed.params)) = 4
      BY <2>1, <3>2 DEF Answerable
    <3>4. AnswerField(config.type, Payload(config, seed)) = "optionId"
      BY <2>1 DEF AnswerField, Divergent
    <3> QED
      BY <2>1, <3>1, <3>3, <3>4, CalculationIsRight, SaidOfOthers
  <2>2. CASE config.type = "synthetic_chart"
    <3>1. ValidSynthetic(config) /\ Roomy("none", config.n) /\ seed \in SyntheticSeeds(config)
      BY <2>2 DEF Answerable, ValidConfig, Seeds
    <3>2. AnswerField(config.type, Payload(config, seed)) = "divergence"
      BY <2>2 DEF AnswerField, Divergent
    <3> QED
      BY <2>2, <3>1, <3>2, SyntheticIsRight, SaidOfOthers
  <2>3. CASE config.type = "fixture_chart"
    <3>1. /\ ValidFixtures(config) /\ seed \in FixtureSeeds(config)
          /\ Apart(config.fixtures[seed].marks, config.fixtures[seed].candles)
      BY <2>3 DEF Answerable, ValidConfig, Seeds, FixtureSeeds
    <3>2. AnswerField(config.type, Payload(config, seed)) = "divergence"
      BY <2>3 DEF AnswerField, Divergent
    <3> QED
      BY <2>3, <3>1, <3>2, FixtureIsRight, SaidOfOthers
  <2>4. CASE config.type = "pattern_chart"
    <3>1. ValidPattern(config) /\ Roomy(config.injector, config.n) /\ seed \in PatternSeeds(config)
      BY <2>4 DEF Answerable, ValidConfig, Seeds
    <3>2. AnswerField(config.type, Payload(config, seed)) = "label"
      BY <2>4 DEF AnswerField, Divergent
    <3> QED
      BY <2>4, <3>1, <3>2, PatternIsRight, SaidOfOthers
  <2> QED
    BY <1>2, <2>1, <2>2, <2>3, <2>4 DEF Answerable, ExerciseTypes
<1> QED
  BY <1>1, <1>2

\* The drafts that the controls make: nothing yet, or an answer in its field.
Drafted(type, payload, chosen) ==
  LET field == AnswerField(type, payload)
  IN  \/ chosen = Nothing /\ field \notin {"optionIds", "order", "pairs"}
      \/ \E x : chosen = Single(field, x)

LEMMA FieldsOfQuiz ==
  ASSUME NEW config, Answerable(config), NEW seed \in Seeds(config), config.type \notin ChartTypes
  PROVE  AnswerField(config.type, Payload(config, seed))
           \in {"optionId", "optionIds", "value", "order", "pairs"}
<1>1. CASE config.type = "calculation"
  BY <1>1 DEF AnswerField, Divergent
<1>2. CASE config.type = "quiz"
  <2>1. /\ ValidQuiz(config) /\ seed \in QuizSeeds(config)
        /\ Payload(config, seed) = QuizPayload(config, seed)
    BY <1>2 DEF Answerable, ValidConfig, Seeds, Payload
  <2>2. Payload(config, seed).kind \in QuizKinds
    BY <1>2, <2>1, KindsOfQuiz DEF Answerable
  <2> QED
    BY <1>2, <2>2 DEF AnswerField, QuizField, QuizKinds, Divergent
<1> QED
  BY <1>1, <1>2 DEF Answerable, ExerciseTypes, ChartTypes, Divergent

LEMMA BlankIsDrafted ==
  ASSUME NEW type, NEW payload
  PROVE  Drafted(type, payload, Blank(type, payload))
<1> DEFINE field == AnswerField(type, payload)
<1>1. [optionIds |-> {}] = Single("optionIds", {})
  BY DEF Single
<1>2. [order |-> payload.items] = Single("order", payload.items)
  BY DEF Single
<1>3. [pairs |-> << >>] = Single("pairs", << >>)
  BY DEF Single
<1>4. Blank(type, payload) =
        CASE field = "optionIds" -> [optionIds |-> {}]
          [] field = "order"     -> [order |-> payload.items]
          [] field = "pairs"     -> [pairs |-> << >>]
          [] OTHER               -> << >>
  BY DEF Blank
<1> HIDE DEF field
<1> QED
  BY <1>1, <1>2, <1>3, <1>4 DEF Drafted, field, Nothing

LEMMA ClickIsDrafted ==
  ASSUME NEW config, Answerable(config), NEW seed \in Seeds(config), NEW chosen,
         NEW clicked \in Changes(config.type, Payload(config, seed), chosen)
  PROVE  \E x : clicked = Single(AnswerField(config.type, Payload(config, seed)), x)
<1> DEFINE payload == Payload(config, seed)
           field == AnswerField(config.type, payload)
           picked(values) == {Single(field, v) : v \in values}
<1>1. \E values : clicked \in picked(values)
  <2>1. CASE config.type \in ChartTypes
    <3>1. field \in {"label", "divergence"}
      BY <2>1 DEF AnswerField, ChartTypes, Divergent
    <3> HIDE DEF field
    <3>2. Changes(config.type, payload, chosen) = {Single(field, v) : v \in ToSet(payload.choices)}
      BY <2>1, <3>1 DEF Changes, field
    <3> QED
      BY <3>2
  <2>2. CASE config.type \notin ChartTypes
    <3>1. field \in {"optionId", "optionIds", "value", "order", "pairs"}
      BY <2>2, FieldsOfQuiz
    <3> DEFINE ticked == {chosen.optionIds \ {o} : o \in chosen.optionIds}
                           \cup {chosen.optionIds \cup {o} : o \in ToSet(payload.options)}
               moved == {Moved(chosen.order, i) : i \in 1..(Len(chosen.order) - 1)}
               matched == {Assigned(chosen.pairs, l, r) :
                             l \in ToSet(payload.lefts), r \in ToSet(payload.rights)}
                            \cup {Unassigned(chosen.pairs, l) : l \in DOMAIN chosen.pairs}
               changes == CASE config.type \in ChartTypes -> picked(ToSet(payload.choices))
                            [] field = "optionId"  -> picked(ToSet(payload.options))
                            [] field = "value"     -> picked(BOOLEAN)
                            [] field = "optionIds" -> picked(ticked)
                            [] field = "order"     -> picked(moved)
                            [] field = "pairs"     -> picked(matched)
    <3>2. Changes(config.type, payload, chosen) = changes
      BY DEF Changes
    <3>3. clicked \in Changes(config.type, payload, chosen)
      OBVIOUS
    <3> HIDE DEF field, payload, picked, ticked, moved, matched
    <3> QED
      BY <2>2, <3>1, <3>2, <3>3
  <2> QED
    BY <2>1, <2>2
<1> QED
  BY <1>1

----------------------------------------------------------------------------
(* The way of an answer.                                                   *)

\* What the courses have to promise.
Promised == \A b \in DOMAIN Bundles : Filling(Bundles[b]) /\ Uncrowded(Bundles[b])

\* What a print of an exercise shows of its answer.
PrintOf(config, seed) ==
  LET payload == Payload(config, seed)
      grade(answer) == Grade(config, seed, answer)
      submission == Reveal(grade, payload)
  IN  IF submission # Absent /\ Printable(payload, grade(submission).key) THEN submission ELSE Nothing

\* A draft fits the exercise that is shown, and the result is its grade.
AnswersInvariant ==
  /\ PageInvariant
  /\ stage \in {"open", "answered"} => Drafted(Config.type, shown, draft)
  /\ stage = "answered" =>
       /\ result = Graded(draft)
       /\ \E x : draft = Single(AnswerField(Config.type, shown), x)
  /\ stage = "printed" =>
       \E config, seed : config = Config /\ seed = work.seed /\ result = PrintOf(config, seed)

LEMMA PageIsAnswerable ==
  ASSUME Promised, PageInvariant, stage \in {"open", "answered", "printed"}
  PROVE  /\ Answerable(Config) /\ work.seed \in Seeds(Config)
         /\ shown = Payload(Config, work.seed)
<1>1. /\ ValidBundle(Course) /\ Parsed(Course) /\ Uncrowded(Course) /\ Filling(Course)
      /\ work.exercise \in DOMAIN Course.configs
      /\ work.seed \in Seeds(Config) /\ shown = Payload(Config, work.seed)
  BY BundlesAssumption DEF PageInvariant, LoadInvariant, Course, Promised
<1>2. Config.type \in ExerciseTypes /\ ValidConfig(Config)
  BY <1>1 DEF ValidBundle, Parsed, Config
<1>3. Config.type = "quiz" =>
        IsList(Config.variants) /\ \A v \in ToSet(Config.variants) : ParsedVariant(v)
  BY <1>1 DEF Parsed, Config
<1>4. Config.type = "calculation" => \A p \in Sampled(Config) : Len(Entries(Config, p)) = 4
  BY <1>1 DEF Filling, Config
<1>5. /\ Config.type = "pattern_chart" => Roomy(Config.injector, Config.n)
      /\ Config.type = "synthetic_chart" => Roomy("none", Config.n)
      /\ Config.type = "fixture_chart" =>
           \A i \in DOMAIN Config.fixtures :
             Apart(Config.fixtures[i].marks, Config.fixtures[i].candles)
  BY <1>1 DEF Uncrowded, Config
<1> QED
  BY <1>1, <1>2, <1>3, <1>4, <1>5 DEF Answerable

LEMMA BeginDrafts ==
  ASSUME NEW exercise, NEW kept, Begin(exercise, kept),
         kept = Nothing \/ \A payload :
           \E x : kept = Single(AnswerField(Course.configs[exercise].type, payload), x)
  PROVE  stage' = "open" /\ Drafted(Config.type, shown, draft)'
<1>1. PICK seed \in Seeds(Course.configs[exercise]) :
        /\ stage' = "open" /\ bundle' = bundle
        /\ work' = [exercise |-> exercise, seed |-> seed]
        /\ shown' = Payload(Course.configs[exercise], seed)
        /\ draft' = IF kept = Nothing THEN Blank(Course.configs[exercise].type, shown') ELSE kept
  BY DEF Begin
<1>2. Config' = Course.configs[exercise]
  BY <1>1 DEF Course, Config
<1>3. Drafted(Config'.type, shown', draft')
  <2>1. CASE kept = Nothing
    BY <1>1, <1>2, <2>1, BlankIsDrafted
  <2>2. CASE kept # Nothing
    BY <1>1, <1>2, <2>2 DEF Drafted
  <2> QED
    BY <2>1, <2>2
<1> QED
  BY <1>1, <1>3 DEF Drafted

LEMMA AnswersInvariantHolds ==
  ASSUME Promised
  PROVE  Spec => []AnswersInvariant
<1>1. Init => AnswersInvariant
  BY DEF Init, AnswersInvariant, PageInvariant, LoadInvariant
<1>2. PageInvariant /\ PageInvariant' /\ AnswersInvariant /\ [Next]_vars => AnswersInvariant'
  <2> SUFFICES ASSUME PageInvariant, PageInvariant', AnswersInvariant, [Next]_vars
               PROVE  AnswersInvariant'
    OBVIOUS
  <2>1. CASE stage' \notin {"open", "answered", "printed"}
    BY <2>1 DEF AnswersInvariant
  <2>2. CASE Open
    <3>1. PICK e \in PlayableHere : Begin(e.id, Nothing)
      BY <2>2 DEF Open
    <3>2. stage' = "open" /\ Drafted(Config.type, shown, draft)'
      BY <3>1, BeginDrafts
    <3> QED
      BY <3>2 DEF AnswersInvariant
  <2>3. CASE Retry
    <3>1. /\ stage = "answered" /\ Config.type \in ChartTypes
          /\ Begin(work.exercise, draft)
      BY <2>3 DEF Retry
    <3>2. PICK x : draft = Single(AnswerField(Config.type, shown), x)
      BY <3>1 DEF AnswersInvariant
    <3>3. \A payload : AnswerField(Config.type, payload) = AnswerField(Config.type, shown)
      BY <3>1 DEF AnswerField, ChartTypes, Divergent
    <3>4. Config.type = Course.configs[work.exercise].type
      BY DEF Config
    <3>5. stage' = "open" /\ Drafted(Config.type, shown, draft)'
      BY <3>1, <3>2, <3>3, <3>4, BeginDrafts
    <3> QED
      BY <3>5 DEF AnswersInvariant
  <2>4. CASE Click
    <3>1. /\ stage = "open" /\ stage' = stage /\ Config' = Config /\ shown' = shown
          /\ draft' \in Changes(Config.type, shown, draft)
      BY <2>4 DEF Click, Config, Course
    <3>2. Answerable(Config) /\ work.seed \in Seeds(Config) /\ shown = Payload(Config, work.seed)
      BY <3>1, PageIsAnswerable
    <3>3. \E x : draft' = Single(AnswerField(Config.type, shown), x)
      BY <3>1, <3>2, ClickIsDrafted
    <3>4. Drafted(Config.type, shown, draft)'
      BY <3>1, <3>3 DEF Drafted
    <3> QED
      BY <3>1, <3>4 DEF AnswersInvariant
  <2>5. CASE Submit
    <3>1. /\ stage = "open" /\ stage' = "answered" /\ UNCHANGED <<bundle, work, shown, draft>>
          /\ result' = Grade(Config, work.seed, draft)
          /\ Complete(Config.type, shown, draft)
      BY <2>5 DEF Submit
    <3>2. Config' = Config
      BY <3>1 DEF Config, Course
    <3>3. Drafted(Config.type, shown, draft)
      BY <3>1 DEF AnswersInvariant
    <3>4. \E x : draft = Single(AnswerField(Config.type, shown), x)
      <4> DEFINE field == AnswerField(Config.type, shown)
      <4>1. CASE draft = Nothing /\ field \notin {"optionIds", "order", "pairs"}
        <5> DEFINE complete == CASE field = "optionIds" -> draft.optionIds # {}
                                 [] field = "order"     -> shown.items # << >>
                                 [] field = "pairs"     -> DOMAIN draft.pairs = ToSet(shown.lefts)
                                 [] OTHER               -> field \in DOMAIN draft
        <5>1. complete
          BY <3>1 DEF Complete
        <5> HIDE DEF field
        <5>2. field \in DOMAIN draft
          BY <4>1, <5>1
        <5> QED
          BY <4>1, <5>2 DEF Nothing
      <4> QED
        BY <3>3, <4>1 DEF Drafted
    <3>5. result' = Graded(draft)'
      BY <3>1, <3>2 DEF Graded
    <3>6. Drafted(Config.type, shown, draft)'
      BY <3>1, <3>2, <3>3 DEF Drafted
    <3> QED
      BY <3>1, <3>2, <3>4, <3>5, <3>6 DEF AnswersInvariant
  <2>6. CASE Export
    <3>1. PICK e \in PlayableHere : \E seed \in Seeds(Course.configs[e.id]) :
             /\ work' = [exercise |-> e.id, seed |-> seed]
             /\ result' = PrintOf(Course.configs[e.id], seed)
      BY <2>6 DEF Export, PrintOf
    <3>2. PICK seed \in Seeds(Course.configs[e.id]) :
             /\ work' = [exercise |-> e.id, seed |-> seed]
             /\ result' = PrintOf(Course.configs[e.id], seed)
      BY <3>1
    <3>3. stage' = "printed" /\ bundle' = bundle
      BY <2>6 DEF Export
    <3>4. Config' = Course.configs[e.id] /\ work'.seed = seed
      BY <3>2, <3>3 DEF Config, Course
    <3> QED
      BY <3>2, <3>3, <3>4 DEF AnswersInvariant
  <2>7. CASE Load \/ OpenFails \/ ShowFigure \/ Leave
    BY <2>1, <2>7 DEF Load, OpenFails, ShowFigure, Leave
  <2>8. CASE UNCHANGED vars
    BY <2>8 DEF vars, AnswersInvariant, Drafted, Graded, Config, Course
  <2> QED
    BY <2>2, <2>3, <2>4, <2>5, <2>6, <2>7, <2>8 DEF Next
<1> QED
  BY <1>1, <1>2, PageInvariantHolds, PTL DEF Spec

\* Of the answers in a field, the one that gives v is right, and it is the one
\* that each grade reveals.
HasRight(config, seed, field, v) ==
  LET composable == Composable(config.type, Payload(config, seed))
  IN  /\ Single(field, v) \in composable
      /\ \A a \in composable : \E x : a = Single(field, x)
      /\ \A x : LET grade == Grade(config, seed, Single(field, x))
                IN  /\ grade # Malformed
                    /\ grade.correct <=> Single(field, x) = Single(field, v)
                    /\ SubmissionFor(grade.key) = Single(field, v)

LEMMA RightGrades ==
  ASSUME Fresh, NEW config, NEW seed, NEW key, NEW v, RightIs(config, seed, key, v)
  PROVE  HasRight(config, seed, AnswerField(config.type, Payload(config, seed)), v)
<1> DEFINE field == AnswerField(config.type, Payload(config, seed))
<1>1. /\ v \in OnOffer(config.type, Payload(config, seed))
      /\ SubmissionFor(key) = Single(field, v)
      /\ \A x : LET grade == Grade(config, seed, Single(field, x))
                IN  grade # Malformed /\ grade.key = key /\ (grade.correct <=> x = v)
  BY DEF RightIs
<1>2. Composable(config.type, Payload(config, seed))
        = {Single(field, x) : x \in OnOffer(config.type, Payload(config, seed))}
  BY DEF Composable
<1>3. \A x : Single(field, x) = Single(field, v) <=> x = v
  BY SingleIsOne, Zenon
<1> HIDE DEF field
<1>4. HasRight(config, seed, field, v)
  BY <1>1, <1>2, <1>3, Zenon DEF HasRight
<1> QED
  BY <1>4 DEF field

LEMMA SingleIsSomething ==
  ASSUME NEW field, NEW v
  PROVE  Single(field, v) # Nothing
<1> DEFINE a == Single(field, v)
<1>1. field \in DOMAIN a
  BY SingleAnswer, Zenon
<1>2. DOMAIN Nothing = {}
  BY DEF Nothing
<1> HIDE DEF a
<1>3. a # Nothing
  BY <1>1, <1>2
<1> QED
  BY <1>3 DEF a

\* A print names the right answer.
LEMMA PrintIsRight ==
  ASSUME Fresh, NEW config, NEW seed, NEW key, NEW v, RightIs(config, seed, key, v)
  PROVE  PrintOf(config, seed) = Single(AnswerField(config.type, Payload(config, seed)), v)
<1> DEFINE payload == Payload(config, seed)
           field == AnswerField(config.type, payload)
           grade(answer) == Grade(config, seed, answer)
           right == Single(field, v)
<1>1. /\ SubmissionFor(key) = right
      /\ grade(right).key = key /\ grade(right).correct
      /\ grade(DummyAnswer(payload)).key = key
      /\ Printable(payload, key)
  BY Zenon DEF RightIs
<1>2. right # Absent
  BY Zenon DEF Fresh
<1>3. Reveal(grade, payload) = right
  BY <1>1, Zenon DEF Reveal
<1>4. PrintOf(config, seed)
        = IF Reveal(grade, payload) # Absent
               /\ Printable(payload, grade(Reveal(grade, payload)).key)
            THEN Reveal(grade, payload) ELSE Nothing
  BY Zenon DEF PrintOf
<1> DEFINE revealed == Reveal(grade, payload)
<1>5. revealed = right
  BY <1>3
<1>6. PrintOf(config, seed)
        = IF revealed # Absent /\ Printable(payload, grade(revealed).key) THEN revealed ELSE Nothing
  BY <1>4
<1> HIDE DEF revealed, right, payload, grade
<1>7. PrintOf(config, seed) = right
  BY <1>1, <1>2, <1>5, <1>6
<1> QED
  BY <1>7 DEF right, payload

\* For every course whose mistakes and slips fill the options and whose charts
\* have room for their marks, every seed and every sequence of clicks: exactly
\* one answer that can be composed is right, it is the one the content means and
\* grading reveals, no two options of a calculation show one value, and a print
\* names that answer (quiz.py:151-247, calculation.py:113-160, reveal.py:25-62).
THEOREM OneAnswerIsRight ==
  ASSUME Fresh, Promised
  PROVE  Spec => []OneRightAnswer
<1>1. AnswersInvariant => OneRightAnswer
  <2> SUFFICES ASSUME AnswersInvariant PROVE OneRightAnswer
    OBVIOUS
  <2> DEFINE field == AnswerField(Config.type, shown)
             composable == Composable(Config.type, shown)
  <2>1. ASSUME stage \in {"open", "answered", "printed"}
        PROVE  /\ shown = Payload(Config, work.seed)
               /\ \E key, v : /\ RightIs(Config, work.seed, key, v)
                              /\ SaidByContent(Config, work.seed, Single(field, v))
               /\ Config.type = "calculation" => Len(shown.values) = 4 /\ IsInjective(shown.values)
    <3>1. Answerable(Config) /\ work.seed \in Seeds(Config) /\ shown = Payload(Config, work.seed)
      BY <2>1, PageIsAnswerable DEF AnswersInvariant
    <3> QED
      BY <3>1, ExerciseIsRight
  <2>2. ASSUME stage \in {"open", "answered", "printed"},
               NEW key, NEW v, RightIs(Config, work.seed, key, v)
        PROVE  /\ Single(field, v) \in composable
               /\ \A a \in composable : \E x : a = Single(field, x)
               /\ \A x : /\ Graded(Single(field, x)) # Malformed
                         /\ Graded(Single(field, x)).correct <=> Single(field, x) = Single(field, v)
                         /\ SubmissionFor(Graded(Single(field, x)).key) = Single(field, v)
    <3>1. shown = Payload(Config, work.seed)
      BY <2>1, <2>2
    <3>2. HasRight(Config, work.seed, AnswerField(Config.type, Payload(Config, work.seed)), v)
      BY <2>2, RightGrades, Zenon
    <3>3. HasRight(Config, work.seed, field, v)
      BY <3>1, <3>2
    <3> HIDE DEF field
    <3> QED
      BY <3>1, <3>3 DEF Graded, HasRight
  <2>3. ASSUME JustOpened
        PROVE  OneRight([a \in composable |-> Graded(a)])
    <3>1. stage = "open"
      BY <2>3 DEF JustOpened
    <3>2. PICK key, v : RightIs(Config, work.seed, key, v)
                        /\ SaidByContent(Config, work.seed, Single(field, v))
      BY <2>1, <3>1
    <3> DEFINE grades == [a \in composable |-> Graded(a)]
               right == Single(field, v)
    <3>3. /\ right \in composable
          /\ \A a \in composable : \E x : a = Single(field, x)
          /\ \A x : /\ Graded(Single(field, x)) # Malformed
                    /\ Graded(Single(field, x)).correct <=> Single(field, x) = right
                    /\ SubmissionFor(Graded(Single(field, x)).key) = right
      BY <2>2, <3>1, <3>2
    <3> HIDE DEF field, composable, right
    <3>4. DOMAIN grades = composable
          /\ \A a \in composable : /\ grades[a] # Malformed
                                   /\ grades[a].correct <=> a = right
                                   /\ SubmissionFor(grades[a].key) = right
      BY <3>3
    <3>5. SaidByContent(Config, work.seed, right)
      BY <3>2 DEF right
    <3> HIDE DEF grades
    <3>6. Malformed \notin Range(grades)
      BY <3>4 DEF Range
    <3>7. OneRight(grades)
      BY <3>3, <3>4, <3>5, <3>6 DEF OneRight
    <3> QED
      BY <3>7 DEF grades
  <2>4. ASSUME stage = "answered"
        PROVE  result.correct <=> draft = SubmissionFor(result.key)
    <3>1. PICK x : draft = Single(field, x)
      BY <2>4 DEF AnswersInvariant
    <3>2. result = Graded(draft)
      BY <2>4 DEF AnswersInvariant
    <3>3. PICK key, v : RightIs(Config, work.seed, key, v)
      BY <2>1, <2>4
    <3>4. /\ Graded(Single(field, x)).correct <=> Single(field, x) = Single(field, v)
          /\ SubmissionFor(Graded(Single(field, x)).key) = Single(field, v)
      BY <2>2, <2>4, <3>3
    <3> HIDE DEF field
    <3> QED
      BY <3>1, <3>2, <3>4
  <2>5. ASSUME stage = "printed"
        PROVE  result # Nothing /\ Graded(result).correct /\ result \in composable
    <3>1. result = PrintOf(Config, work.seed)
      BY <2>5 DEF AnswersInvariant
    <3>2. PICK key, v : RightIs(Config, work.seed, key, v)
      BY <2>1, <2>5
    <3>3. result = Single(field, v)
      BY <2>1, <2>5, <3>1, <3>2, PrintIsRight, Zenon
    <3>4. Single(field, v) \in composable /\ Graded(Single(field, v)).correct
      BY <2>2, <2>5, <3>2
    <3>5. Single(field, v) # Nothing
      BY SingleIsSomething, Zenon
    <3> QED
      BY <3>3, <3>4, <3>5
  <2> QED
    BY <2>1, <2>3, <2>4, <2>5 DEF OneRightAnswer, JustOpened
<1>2. Spec => []AnswersInvariant
  BY AnswersInvariantHolds
<1> QED
  BY <1>1, <1>2, PTL

----------------------------------------------------------------------------
(* What the page gives away.                                               *)

\* What is shown of a chart does not tell two labels apart.
SeenAlike(c, d) ==
  /\ c.warmup = d.warmup /\ c.bars = d.bars /\ c.position = d.position
  /\ c.panes = d.panes /\ c.overlays = d.overlays
  /\ c.levels = d.levels /\ c.diagonals = d.diagonals

LEMMA HidingIsDrawnAlike ==
  ASSUME NEW injector \in Hiding, NEW n, NEW t, NEW u, NEW draw,
         injector = "trend_channel" => (t \in OnOneLine <=> u \in OnOneLine)
  PROVE  SeenAlike(Build(injector, n, t, draw), Build(injector, n, u, draw))
<1>1. CASE injector = "fakeout"
  <2>1. \A x : Build(injector, n, x, draw) = Fakeout(n, x, draw)
    BY <1>1 DEF Build
  <2>2. SeenAlike(Fakeout(n, t, draw), Fakeout(n, u, draw))
    BY DEF SeenAlike, Fakeout, Breakout, Bare
  <2> QED
    BY <2>1, <2>2
<1>2. CASE injector = "wyckoff"
  <2>1. \A x : Build(injector, n, x, draw) = Wyckoff(n, x)
    BY <1>2 DEF Build
  <2>2. SeenAlike(Wyckoff(n, t), Wyckoff(n, u))
    BY DEF SeenAlike, Wyckoff, Bare
  <2> QED
    BY <2>1, <2>2
<1>3. CASE injector = "origin_zone"
  <2>1. \A x : Build(injector, n, x, draw) = OriginZone(n, x)
    BY <1>3 DEF Build
  <2>2. SeenAlike(OriginZone(n, t), OriginZone(n, u))
    BY DEF SeenAlike, OriginZone, Bare
  <2> QED
    BY <2>1, <2>2
<1>4. CASE injector = "imbalance"
  <2>1. \A x : Build(injector, n, x, draw) = Imbalance(n, x)
    BY <1>4 DEF Build
  <2>2. SeenAlike(Imbalance(n, t), Imbalance(n, u))
    BY DEF SeenAlike, Imbalance, Bare
  <2> QED
    BY <2>1, <2>2
<1>5. CASE injector = "cvd_divergence"
  BY <1>5 DEF Build, SeenAlike
<1>6. CASE injector = "derivatives"
  BY <1>6 DEF Build, SeenAlike
<1>7. CASE injector = "volume_confirmation"
  BY <1>7 DEF Build, SeenAlike
<1>8. CASE injector = "trend_channel"
  <2>1. \A x : Build(injector, n, x, draw) = TrendChannel(n, x)
    BY <1>8 DEF Build
  <2>2. t \in OnOneLine <=> u \in OnOneLine
    BY <1>8
  <2>3. SeenAlike(TrendChannel(n, t), TrendChannel(n, u))
    BY <2>2 DEF SeenAlike, TrendChannel, Bare
  <2> QED
    BY <2>1, <2>3
<1> QED
  BY <1>1, <1>2, <1>3, <1>4, <1>5, <1>6, <1>7, <1>8 DEF Hiding

LEMMA AlikePages ==
  ASSUME NEW config, NEW seed, NEW other, SeenAlike(other.chart, seed.chart)
  PROVE  PatternPayload(config, other) = PatternPayload(config, seed)
<1> DEFINE count(chart) == Length(chart) - chart.warmup
           series(chart) ==
             [choices  |-> config.choices,
              candles  |-> count(chart),
              panes    |-> [pane \in chart.panes \cup {"rsi", "macd"} |-> count(chart)],
              overlays |-> [name \in chart.overlays |-> count(chart)]]
           context(chart) == (Length(chart) \div RATIO) - (chart.warmup \div RATIO)
           page(chart) == Framed(Joined(series(chart), Shapes(chart)), chart, context(chart))
<1>1. PatternPayload(config, other) = page(other.chart)
  BY DEF PatternPayload
<1>2. PatternPayload(config, seed) = page(seed.chart)
  BY DEF PatternPayload
<1>3. /\ Length(other.chart) = Length(seed.chart)
      /\ other.chart.warmup = seed.chart.warmup
  BY DEF SeenAlike, Length
<1>4. count(other.chart) = count(seed.chart) /\ context(other.chart) = context(seed.chart)
  BY <1>3
<1>5. series(other.chart) = series(seed.chart)
  <2> HIDE DEF count
  <2> QED
    BY <1>4 DEF SeenAlike
<1>6. Shapes(other.chart) = Shapes(seed.chart)
  BY DEF SeenAlike, Shapes
<1>7. \A f, n : Framed(f, other.chart, n) = Framed(f, seed.chart, n)
  BY DEF SeenAlike, Framed
<1> HIDE DEF series, count, context
<1>8. page(other.chart) = page(seed.chart)
  BY <1>4, <1>5, <1>6, <1>7
<1> QED
  BY <1>1, <1>2, <1>8

\* Any label that may be asked for could have been the one behind the page.
LEMMA PatternHides ==
  ASSUME Fresh, NEW config, config.type = "pattern_chart", Answerable(config),
         config.injector \in Hiding, ToSet(config.targets) = ToSet(config.choices),
         config.injector = "trend_channel" =>
           \/ ToSet(config.choices) \subseteq OnOneLine
           \/ ToSet(config.choices) \cap OnOneLine = {},
         NEW seed \in Seeds(config),
         NEW x \in OnOffer(config.type, Payload(config, seed))
  PROVE  \E other \in Seeds(config) :
           /\ Payload(config, other) = Payload(config, seed)
           /\ Grade(config, other, Single("label", x)).correct
<1>1. /\ ValidPattern(config) /\ Roomy(config.injector, config.n)
      /\ seed \in PatternSeeds(config) /\ Seeds(config) = PatternSeeds(config)
      /\ \A s : Payload(config, s) = PatternPayload(config, s)
  BY DEF Answerable, ValidConfig, Seeds, Payload
<1>2. /\ seed.target \in ToSet(config.targets)
      /\ \E draw \in Draws(config.injector, seed.target) :
           seed.chart = Build(config.injector, config.n, seed.target, draw)
  BY <1>1, PatternSeed
<1>3. PICK draw \in Draws(config.injector, seed.target) :
        seed.chart = Build(config.injector, config.n, seed.target, draw)
  BY <1>2
<1>4. Payload(config, seed).choices = config.choices
  BY <1>1, PatternChoices
<1>5. x \in ToSet(config.targets)
  <2>1. OnOffer(config.type, Payload(config, seed)) = ToSet(Payload(config, seed).choices)
    BY ChartOffer DEF ChartTypes
  <2> QED
    BY <1>4, <2>1
<1>6. draw \in Draws(config.injector, x)
  BY DEF Draws, Hiding
<1> DEFINE chart == Build(config.injector, config.n, x, draw)
           other == [target |-> x, chart |-> chart]
<1>7. other \in PatternSeeds(config)
  <2> HIDE DEF chart
  <2>1. chart \in ChartsFor(config.injector, config.n, x)
    BY <1>6 DEF ChartsFor, chart
  <2> QED
    BY <1>5, <2>1 DEF PatternSeeds
<1>8. SeenAlike(chart, seed.chart)
  <2>1. config.injector = "trend_channel" => (x \in OnOneLine <=> seed.target \in OnOneLine)
    BY <1>2, <1>5
  <2> QED
    BY <1>3, <2>1, HidingIsDrawnAlike
<1>9. other.chart = chart /\ other.target = x
  OBVIOUS
<1> HIDE DEF other, chart
<1>10. PatternPayload(config, other) = PatternPayload(config, seed)
  BY <1>8, <1>9, AlikePages
<1>11. RightIs(config, other, PatternKey(config, other), x)
  BY <1>1, <1>7, <1>9, PatternIsRight
<1>12. AnswerField(config.type, Payload(config, other)) = "label"
  BY DEF AnswerField, Divergent
<1>13. Grade(config, other, Single("label", x)).correct
  BY <1>11, <1>12, Zenon DEF RightIs
<1> QED
  BY <1>1, <1>7, <1>10, <1>13

\* A shuffle of which two places are swapped.
LEMMA SwappedShuffle ==
  ASSUME NEW S, NEW f \in Shuffles(S), NEW a \in S, NEW b \in S
  PROVE  [s \in S |-> f[IF s = a THEN b ELSE IF s = b THEN a ELSE s]] \in Shuffles(S)
<1> DEFINE swap(s) == IF s = a THEN b ELSE IF s = b THEN a ELSE s
           g == [s \in S |-> f[swap(s)]]
<1>1. f \in [S -> S] /\ \A v, w \in S : f[v] = f[w] => v = w
  BY ShuffleIsOne
<1>2. ASSUME NEW v \in S, NEW w \in S, swap(v) = swap(w) PROVE v = w
  BY <1>2
<1>3. \A v \in S : swap(v) \in S
  OBVIOUS
<1> HIDE DEF swap
<1>4. g \in [S -> S] /\ \A v \in S : g[v] = f[swap(v)]
  BY <1>1, <1>3
<1> HIDE DEF g
<1>5. ASSUME NEW v \in S, NEW w \in S, g[v] = g[w] PROVE v = w
  BY <1>1, <1>2, <1>3, <1>4, <1>5
<1>6. g \in Shuffles(S)
  BY <1>4, <1>5 DEF Shuffles, IsInjective
<1> QED
  BY <1>6 DEF g, swap

Unpriced(payload) == [f \in DOMAIN payload \ {"values"} |-> payload[f]]

LEMMA CalculationHides ==
  ASSUME Fresh, NEW config, config.type = "calculation", Answerable(config),
         NEW seed \in Seeds(config), NEW x \in OnOffer(config.type, Payload(config, seed))
  PROVE  \E other \in Seeds(config) :
           /\ Unpriced(Payload(config, other)) = Unpriced(Payload(config, seed))
           /\ LET field == AnswerField(config.type, Payload(config, seed))
              IN  Grade(config, other, Single(field, x)).correct
<1>1. /\ config.formula \in DOMAIN Arguments /\ Seeds(config) = CalculationSeeds(config)
      /\ \A s : Payload(config, s) = OptionsPage(Options(config, s))
      /\ \A p \in Sampled(config) : Len(Entries(config, p)) = 4
  BY DEF Answerable, ValidConfig, ValidCalculation, Seeds, Payload, CalculationPayload
<1>2. seed.params \in Sampled(config) /\ seed.order \in Shuffles(1..4)
  BY <1>1 DEF CalculationSeeds
<1>3. AnswerField(config.type, Payload(config, seed)) = "optionId"
  BY DEF AnswerField, Divergent
<1>4. x \in 1..4
  <2> DEFINE slots == [slot \in 1..4 |-> slot]
  <2>1. Payload(config, seed).options = slots
    BY <1>1 DEF OptionsPage
  <2>2. ToSet(slots) = 1..4
    BY DEF ToSet
  <2>3. OnOffer(config.type, Payload(config, seed)) = ToSet(Payload(config, seed).options)
    BY <1>3 DEF OnOffer, ChartTypes, Divergent
  <2> QED
    BY <2>1, <2>2, <2>3
<1>5. PICK w \in 1..4 : seed.order[w] = 1
  <2>1. Len(Entries(config, seed.params)) = 4
    BY <1>1, <1>2
  <2> QED
    BY <1>1, <2>1, CalculationIsRight
<1> DEFINE order == [s \in 1..4 |-> seed.order[IF s = x THEN w ELSE IF s = w THEN x ELSE s]]
           other == [params |-> seed.params, order |-> order]
<1>6. order \in Shuffles(1..4)
  BY <1>2, <1>4, SwappedShuffle
<1>7. order[x] = 1
  BY <1>4, <1>5
<1> HIDE DEF order
<1>8. other \in CalculationSeeds(config) /\ other.params = seed.params /\ other.order = order
  BY <1>2, <1>6 DEF CalculationSeeds
<1> HIDE DEF other
<1>9. PICK v \in 1..4 : /\ other.order[v] = 1
                        /\ RightIs(config, other, CalculationKey(config, other), v)
  BY <1>1, <1>2, <1>8, CalculationIsRight
<1>10. v = x
  BY <1>4, <1>6, <1>7, <1>8, <1>9, ShuffleIsOne
<1>11. AnswerField(config.type, Payload(config, other)) = "optionId"
  BY DEF AnswerField, Divergent
<1>12. Grade(config, other, Single("optionId", x)).correct
  BY <1>9, <1>10, <1>11, Zenon DEF RightIs
<1>13. \A options : Unpriced(OptionsPage(options))
                      = [f \in {"kind", "options"} |->
                           IF f = "kind" THEN "multiple_choice" ELSE [slot \in 1..4 |-> slot]]
  BY DEF Unpriced, OptionsPage
<1>14. Unpriced(Payload(config, other)) = Unpriced(Payload(config, seed))
  BY <1>1, <1>13, Zenon
<1> QED
  BY <1>1, <1>3, <1>8, <1>12, <1>14

LEMMA MatchingHides ==
  ASSUME Fresh, NEW config, config.type = "quiz", Answerable(config),
         NEW seed \in Seeds(config), Payload(config, seed).kind = "matching",
         NEW x \in OnOffer(config.type, Payload(config, seed))
  PROVE  \E other \in Seeds(config) :
           /\ Payload(config, other) = Payload(config, seed)
           /\ LET field == AnswerField(config.type, Payload(config, seed))
              IN  Grade(config, other, Single(field, x)).correct
<1> DEFINE v == VariantOf(config, seed)
           D == DOMAIN v.pairs
           same == [s \in D |-> s]
           other == [variant |-> seed.variant, order |-> <<x, same>>]
<1>1. /\ ValidQuiz(config) /\ IsList(config.variants)
      /\ \A u \in ToSet(config.variants) : ParsedVariant(u)
      /\ seed \in QuizSeeds(config) /\ Seeds(config) = QuizSeeds(config)
      /\ \A s : Payload(config, s) = QuizPayload(config, s)
  BY DEF Answerable, ValidConfig, Seeds, Payload
<1>2. ValidVariant(v) /\ ParsedVariant(v)
  BY <1>1, QuizVariant
<1>3. v.kind = "matching"
  <2>1. v.kind \in QuizKinds
    BY <1>2 DEF ValidVariant, Choosing, QuizKinds
  <2>2. QuizPayload(config, seed).kind = v.kind
    BY <2>1 DEF QuizPayload, QuizKinds, Choosing
  <2> QED
    BY <1>1, <2>2
<1>4. seed.variant \in DOMAIN config.variants /\ v = config.variants[seed.variant]
  <2>1. PICK i \in DOMAIN config.variants :
          seed \in {[variant |-> i, order |-> <<f, g>>] :
                      f \in Orders(config.variants[i]), g \in Orders(config.variants[i])}
    BY <1>1 DEF QuizSeeds
  <2>2. seed.variant = i
    BY <2>1
  <2> QED
    BY <2>2 DEF VariantOf
<1>5. \A s : VariantOf(config, s) = v =>
        QuizPayload(config, s) = [kind |-> "matching", lefts |-> same, rights |-> same]
  BY <1>3 DEF QuizPayload, Choosing
<1>6. AnswerField(config.type, Payload(config, seed)) = "pairs"
  BY <1>1, <1>3, <1>5 DEF AnswerField, QuizField, Divergent
<1>7. x \in Shuffles(D)
  <2>1. ToSet(same) = D
    BY DEF ToSet
  <2>2. Payload(config, seed).lefts = same
    BY <1>1, <1>5
  <2> HIDE DEF same
  <2>3. OnOffer(config.type, Payload(config, seed)) = Shuffles(D)
    BY <1>6, <2>1, <2>2 DEF OnOffer, Divergent, ChartTypes
  <2> QED
    BY <2>3
<1>8. same \in Shuffles(D) /\ Orders(v) = Shuffles(D)
  BY <1>3 DEF Shuffles, IsInjective, Orders, Shuffled, Choosing
<1> HIDE DEF same
<1>9. other \in QuizSeeds(config)
  <2> DEFINE drawn(i) == {[variant |-> i, order |-> <<f, g>>] :
                            f \in Orders(config.variants[i]), g \in Orders(config.variants[i])}
  <2>1. other \in drawn(seed.variant)
    BY <1>4, <1>7, <1>8
  <2>2. QuizSeeds(config) = UNION {drawn(i) : i \in DOMAIN config.variants}
    BY DEF QuizSeeds
  <2> HIDE DEF drawn, other
  <2> QED
    BY <1>4, <2>1, <2>2
<1>10. VariantOf(config, other) = v /\ other.order[1] = x /\ other.order[2] = same
  BY <1>4 DEF VariantOf
<1> HIDE DEF other, v
<1> DEFINE pairs == [s \in D |-> CHOOSE t \in D : same[t] = x[s]]
<1>11. QuizAnswer(config, other, "pairs", pairs)
  BY <1>2, <1>3, <1>7, <1>8, <1>10, MatchingAnswer
<1>12. pairs = x
  <2>1. x \in [D -> D]
    BY <1>7, ShuffleIsOne
  <2>2. \A t \in D : same[t] = t
    BY DEF same
  <2>3. ASSUME NEW s \in D PROVE (CHOOSE t \in D : same[t] = x[s]) = x[s]
    BY <2>1, <2>2
  <2> QED
    BY <2>1, <2>3
<1> HIDE DEF pairs
<1>13. RightIs(config, other, QuizKey(config, other), x)
  BY <1>11, <1>12, QuizBySingle DEF QuizAnswer, AnswerFields
<1>14. Payload(config, other) = Payload(config, seed)
  BY <1>1, <1>5, <1>10 DEF v
<1>15. AnswerField(config.type, Payload(config, other)) = "pairs"
  BY <1>6, <1>14
<1>16. Grade(config, other, Single("pairs", x)).correct
  BY <1>13, <1>15, Zenon DEF RightIs
<1> QED
  BY <1>1, <1>6, <1>9, <1>14, <1>16

LEMMA ConfigIsUnmixed ==
  ASSUME \A b \in DOMAIN Bundles : Unmixed(Bundles[b]), PageInvariant, stage = "open",
         Config.type = "pattern_chart", Config.injector = "trend_channel"
  PROVE  \/ ToSet(Config.choices) \subseteq OnOneLine
         \/ ToSet(Config.choices) \cap OnOneLine = {}
<1>1. Unmixed(Course) /\ work.exercise \in DOMAIN Course.configs
  BY DEF PageInvariant, LoadInvariant, Course
<1> QED
  BY <1>1 DEF Unmixed, Config

\* For every course of that kind in which no exercise asks of a line and of a
\* channel at once, every seed and every sequence of clicks: where the page is
\* to keep its answer, whichever answer on offer is the right one, the page
\* would be the same, prices and texts aside (patterns/base.py:153-157,
\* calculation.py:113-160, quiz.py:151-247).
THEOREM NothingIsGivenAway ==
  ASSUME Fresh, Promised, \A b \in DOMAIN Bundles : Unmixed(Bundles[b])
  PROVE  Spec => []NothingGivenAway
<1>1. AnswersInvariant => NothingGivenAway
  <2> SUFFICES ASSUME AnswersInvariant, JustOpened,
                      \/ Config.type = "calculation"
                      \/ Config.type = "quiz" /\ shown.kind = "matching"
                      \/ Config.type = "pattern_chart" /\ Config.injector \in Hiding
                         /\ ToSet(Config.targets) = ToSet(Config.choices),
                      NEW a \in Composable(Config.type, shown)
               PROVE  \E seed \in Seeds(Config) :
                        /\ Unpriced(Payload(Config, seed)) = Unpriced(shown)
                        /\ Grade(Config, seed, a).correct
    BY DEF NothingGivenAway, Unpriced
  <2> DEFINE field == AnswerField(Config.type, shown)
  <2>1. /\ Answerable(Config) /\ work.seed \in Seeds(Config)
        /\ shown = Payload(Config, work.seed)
    BY PageIsAnswerable DEF AnswersInvariant, JustOpened
  <2>2. PICK x \in OnOffer(Config.type, shown) : a = Single(field, x)
    BY DEF Composable
  <2>3. CASE Config.type = "calculation"
    BY <2>1, <2>2, <2>3, CalculationHides
  <2>4. CASE Config.type = "quiz" /\ shown.kind = "matching"
    BY <2>1, <2>2, <2>4, MatchingHides
  <2>5. CASE Config.type = "pattern_chart" /\ Config.injector \in Hiding
             /\ ToSet(Config.targets) = ToSet(Config.choices)
    <3>1. field = "label"
      BY <2>5 DEF AnswerField, Divergent
    <3>2. Config.injector = "trend_channel" =>
            \/ ToSet(Config.choices) \subseteq OnOneLine
            \/ ToSet(Config.choices) \cap OnOneLine = {}
      BY <2>5, ConfigIsUnmixed DEF JustOpened, AnswersInvariant
    <3> QED
      BY <2>1, <2>2, <2>5, <3>1, <3>2, PatternHides
  <2> QED
    BY <2>3, <2>4, <2>5
<1>2. Spec => []AnswersInvariant
  BY AnswersInvariantHolds
<1> QED
  BY <1>1, <1>2, PTL

----------------------------------------------------------------------------
(* Greatest common divisors.                                               *)

\* One step of the algorithm, and its first steps.
GcdStep(g, p) == IF p[2] = 0 THEN p[1] ELSE g[<<p[2], p[1] % p[2]>>]
GcdTo(g, n) == g = [p \in Nat \X (0..n) |-> GcdStep(g, p)]

LEMMA StepGoesDown ==
  ASSUME NEW n \in Nat, NEW p \in Nat \X (0..n), p[2] # 0
  PROVE  n # 0 /\ <<p[2], p[1] % p[2]>> \in Nat \X (0..(n - 1)) /\ p[1] % p[2] < p[2]
<1>1. p[1] \in Nat /\ p[2] \in 1..n
  OBVIOUS
<1>2. p[1] % p[2] \in 0..(p[2] - 1)
  BY <1>1
<1> QED
  BY <1>1, <1>2

LEMMA GcdsExist ==
  ASSUME NEW n \in Nat
  PROVE  \E g : GcdTo(g, n)
<1> DEFINE Good(m) == \E g : GcdTo(g, m)
           Bad == {m \in Nat : ~Good(m)}
<1>1. SUFFICES ASSUME Bad # {} PROVE FALSE
  OBVIOUS
<1>2. PICK m \in Bad : \A k \in Bad : m <= k
  <2>1. Bad \subseteq Nat
    OBVIOUS
  <2> HIDE DEF Bad
  <2> QED
    BY <1>1, <2>1, LeastNumber
<1>3. m # 0
  <2> DEFINE g == [p \in Nat \X (0..0) |-> p[1]]
  <2>1. \A p \in Nat \X (0..0) : GcdStep(g, p) = p[1]
    BY DEF GcdStep
  <2>2. g = [p \in Nat \X (0..0) |-> GcdStep(g, p)]
    <3> HIDE DEF g
    <3>1. g = [p \in Nat \X (0..0) |-> p[1]]
      BY DEF g
    <3> QED
      BY <2>1, <3>1
  <2>3. Good(0)
    BY <2>2 DEF GcdTo
  <2> QED
    BY <2>3
<1>4. m \in Nat /\ m - 1 \in Nat /\ Good(m - 1)
  <2>1. m \in Nat /\ m - 1 \in Nat
    BY <1>3
  <2>2. m - 1 \notin Bad
    <3> HIDE DEF Bad
    <3> QED
      BY <1>2, <2>1
  <2> QED
    BY <2>1, <2>2
<1>5. PICK g : GcdTo(g, m - 1)
  BY <1>4
<1> DEFINE h == [p \in Nat \X (0..m) |-> GcdStep(g, p)]
<1>6. ASSUME NEW q \in Nat \X (0..(m - 1)) PROVE h[q] = g[q]
  <2>1. q \in Nat \X (0..m)
    BY <1>4
  <2>2. g[q] = GcdStep(g, q)
    BY <1>5 DEF GcdTo
  <2> QED
    BY <2>1, <2>2
<1>7. ASSUME NEW p \in Nat \X (0..m) PROVE GcdStep(h, p) = GcdStep(g, p)
  <2> HIDE DEF h
  <2>1. CASE p[2] = 0
    BY <2>1 DEF GcdStep
  <2>2. CASE p[2] # 0
    BY <1>4, <1>6, <2>2, StepGoesDown DEF GcdStep
  <2> QED
    BY <2>1, <2>2
<1>8. GcdTo(h, m)
  <2>1. h = [p \in Nat \X (0..m) |-> GcdStep(g, p)]
    OBVIOUS
  <2> HIDE DEF h
  <2>2. h = [p \in Nat \X (0..m) |-> GcdStep(h, p)]
    BY <1>7, <2>1
  <2> QED
    BY <2>2 DEF GcdTo
<1> QED
  BY <1>4, <1>8

LEMMA GcdsAgree ==
  ASSUME NEW n \in Nat, NEW m \in Nat, n <= m, NEW g, GcdTo(g, n), NEW h, GcdTo(h, m),
         NEW p \in Nat \X (0..n)
  PROVE  g[p] = h[p]
<1> DEFINE Bad == {k \in 0..n : \E q \in Nat \X (0..n) : q[2] = k /\ g[q] # h[q]}
<1>1. SUFFICES ASSUME Bad # {} PROVE FALSE
  <2>1. p[2] \in 0..n
    OBVIOUS
  <2> QED
    BY <2>1
<1>2. PICK k \in Bad : \A j \in Bad : k <= j
  <2>1. Bad \subseteq Nat
    OBVIOUS
  <2> HIDE DEF Bad
  <2> QED
    BY <1>1, <2>1, LeastNumber
<1>3. PICK q \in Nat \X (0..n) : q[2] = k /\ g[q] # h[q]
  OBVIOUS
<1>4. q \in Nat \X (0..m)
  OBVIOUS
<1>5. g[q] = GcdStep(g, q) /\ h[q] = GcdStep(h, q)
  BY <1>4 DEF GcdTo
<1>6. q[2] # 0
  BY <1>3, <1>5 DEF GcdStep
<1> DEFINE r == <<q[2], q[1] % q[2]>>
<1>7. r \in Nat \X (0..n) /\ r[2] < k
  BY <1>3, <1>6, StepGoesDown
<1>8. g[r] = h[r]
  <2>1. k \in 0..n
    OBVIOUS
  <2> HIDE DEF r
  <2>2. r[2] \in 0..n
    BY <1>7
  <2>3. r[2] \notin Bad
    <3> HIDE DEF Bad
    <3> QED
      BY <1>2, <1>7, <2>1, <2>2
  <2> QED
    BY <1>7, <2>2, <2>3
<1> QED
  BY <1>3, <1>5, <1>6, <1>8 DEF GcdStep

LEMMA GcdEquation ==
  ASSUME NEW p \in Nat \X Nat
  PROVE  Gcd[p] = IF p[2] = 0 THEN p[1] ELSE Gcd[<<p[2], p[1] % p[2]>>]
<1> DEFINE upTo(n) == CHOOSE g : GcdTo(g, n)
           G == [q \in Nat \X Nat |-> upTo(q[2])[q]]
<1>1. ASSUME NEW n \in Nat PROVE GcdTo(upTo(n), n)
  BY GcdsExist
<1> HIDE DEF upTo
<1>2. ASSUME NEW q \in Nat \X Nat PROVE GcdStep(G, q) = G[q]
  <2>1. q[2] \in Nat /\ q \in Nat \X (0..q[2])
    OBVIOUS
  <2>2. G[q] = GcdStep(upTo(q[2]), q)
    BY <1>1, <2>1 DEF GcdTo
  <2>3. CASE q[2] = 0
    BY <2>2, <2>3 DEF GcdStep
  <2>4. CASE q[2] # 0
    <3> DEFINE r == <<q[2], q[1] % q[2]>>
    <3>1. r \in Nat \X (0..(q[2] - 1)) /\ r[2] < q[2] /\ r[2] \in Nat
      BY <2>1, <2>4, StepGoesDown
    <3>2. r \in Nat \X Nat /\ r \in Nat \X (0..r[2])
      BY <2>1, <3>1
    <3> HIDE DEF r
    <3>3. upTo(r[2])[r] = upTo(q[2])[r]
      BY <1>1, <2>1, <3>1, <3>2, GcdsAgree
    <3>4. G[r] = upTo(q[2])[r]
      BY <3>2, <3>3
    <3> HIDE DEF G
    <3>5. GcdStep(G, q) = G[r] /\ GcdStep(upTo(q[2]), q) = upTo(q[2])[r]
      BY <2>4 DEF GcdStep, r
    <3> QED
      BY <2>2, <3>4, <3>5
  <2> QED
    BY <2>3, <2>4
<1>3. G = [q \in Nat \X Nat |-> GcdStep(G, q)]
  <2>1. G = [q \in Nat \X Nat |-> G[q]]
    OBVIOUS
  <2> HIDE DEF G
  <2> QED
    BY <1>2, <2>1
<1> HIDE DEF G
<1>4. Gcd = CHOOSE g : g = [q \in Nat \X Nat |->
                             IF q[2] = 0 THEN q[1] ELSE g[<<q[2], q[1] % q[2]>>]]
  BY DEF Gcd
<1>5. Gcd = [q \in Nat \X Nat |-> IF q[2] = 0 THEN q[1] ELSE Gcd[<<q[2], q[1] % q[2]>>]]
  BY <1>3, <1>4 DEF GcdStep
<1> HIDE DEF Gcd
<1> QED
  BY <1>5

\* Remainders and quotients of multiples.
LEMMA QuotientIs ==
  ASSUME NEW n \in Int, NEW g \in Nat \ {0}
  PROVE  (n * g) \div g = n
OBVIOUS

LEMMA RemainderIs ==
  ASSUME NEW a \in Nat, NEW b \in Nat \ {0}
  PROVE  /\ a \div b \in Nat /\ a % b \in Nat /\ a % b < b
         /\ a = b * (a \div b) + (a % b)
OBVIOUS

\* There is one way to divide with a remainder.
LEMMA DivisionIsUnique ==
  ASSUME NEW b \in Nat \ {0}, NEW v \in Int, NEW w \in Int,
         NEW r \in 0..(b - 1), NEW s \in 0..(b - 1), b * v + r = b * w + s
  PROVE  v = w /\ r = s
<1>1. b * (v - w) = s - r
  OBVIOUS
<1>2. ASSUME v - w >= 1 PROVE FALSE
  <2>1. b * (v - w) >= b
    BY <1>2
  <2> QED
    BY <1>1, <2>1
<1>3. ASSUME v - w <= -1 PROVE FALSE
  <2>1. b * (v - w) <= -b
    BY <1>3
  <2> QED
    BY <1>1, <2>1
<1>4. v = w
  BY <1>2, <1>3
<1> QED
  BY <1>4

LEMMA DivisionIs ==
  ASSUME NEW a \in Nat, NEW b \in Nat \ {0}, NEW v \in Nat, NEW r \in Nat, r < b, a = b * v + r
  PROVE  a \div b = v /\ a % b = r
<1>1. /\ a \div b \in Nat /\ a % b \in Nat /\ a % b < b
      /\ a = b * (a \div b) + (a % b)
  BY RemainderIs
<1> DEFINE w == a \div b
           s == a % b
<1> HIDE DEF w, s
<1>2. w \in Int /\ s \in 0..(b - 1) /\ r \in 0..(b - 1) /\ b * v + r = b * w + s
  BY <1>1 DEF w, s
<1>3. v = w /\ r = s
  BY <1>2, DivisionIsUnique
<1> QED
  BY <1>3 DEF w, s

LEMMA RemainderOfMultiples ==
  ASSUME NEW a \in Nat, NEW b \in Nat \ {0}, NEW k \in Nat \ {0}
  PROVE  (k * a) % (k * b) = k * (a % b)
<1> DEFINE v == a \div b
           r == a % b
           A == k * a
           B == k * b
           R == k * r
<1>1. v \in Nat /\ r \in Nat /\ r < b /\ a = b * v + r
  BY RemainderIs
<1> HIDE DEF v, r
<1>2. A \in Nat /\ B \in Nat \ {0} /\ R \in Nat /\ R < B /\ A = B * v + R
  BY <1>1
<1> HIDE DEF A, B, R
<1>3. A % B = R
  BY <1>1, <1>2, DivisionIs
<1> QED
  BY <1>3 DEF A, B, R, r

\* What the greatest common divisor divides, and how it scales.
IsGcd(g, a, b) ==
  /\ g \in Nat \ {0}
  /\ \E u, v \in Nat : a = u * g /\ b = v * g

LEMMA GcdOf ==
  ASSUME NEW a \in Nat, NEW b \in Nat
  PROVE  Gcd[<<a, b>>] = IF b = 0 THEN a ELSE Gcd[<<b, a % b>>]
<1>1. <<a, b>> \in Nat \X Nat
  OBVIOUS
<1> QED
  BY <1>1, GcdEquation

LEMMA GcdDivides ==
  ASSUME NEW a0 \in Nat, NEW b0 \in Nat, b0 # 0
  PROVE  IsGcd(Gcd[<<a0, b0>>], a0, b0)
<1> DEFINE Bad == {b \in Nat : \E a \in Nat : (a # 0 \/ b # 0) /\ ~IsGcd(Gcd[<<a, b>>], a, b)}
<1>1. SUFFICES ASSUME Bad # {} PROVE FALSE
  OBVIOUS
<1>2. PICK b \in Bad : \A j \in Bad : b <= j
  <2>1. Bad \subseteq Nat
    OBVIOUS
  <2> HIDE DEF Bad
  <2> QED
    BY <1>1, <2>1, LeastNumber
<1>3. b \in Nat
  OBVIOUS
<1>4. PICK a \in Nat : (a # 0 \/ b # 0) /\ ~IsGcd(Gcd[<<a, b>>], a, b)
  OBVIOUS
<1>5. b # 0
  <2> SUFFICES ASSUME b = 0 PROVE FALSE
    OBVIOUS
  <2>1. Gcd[<<a, b>>] = a /\ a # 0
    BY <1>4, GcdOf
  <2>2. a = 1 * a /\ b = 0 * a
    OBVIOUS
  <2> QED
    BY <1>4, <2>1, <2>2 DEF IsGcd
<1> DEFINE r == a % b
           w == a \div b
           g == Gcd[<<b, r>>]
<1>6. w \in Nat /\ r \in Nat /\ r < b /\ a = b * w + r
  BY <1>3, <1>5, RemainderIs
<1>7. Gcd[<<a, b>>] = g
  BY <1>3, <1>5, GcdOf
<1> HIDE DEF r, w
<1>8. IsGcd(g, b, r)
  <2>1. r \notin Bad
    <3> HIDE DEF Bad
    <3> QED
      BY <1>2, <1>3, <1>6
  <2> QED
    BY <1>3, <1>5, <1>6, <2>1
<1> HIDE DEF g, Bad
<1>9. PICK u \in Nat, v \in Nat : b = u * g /\ r = v * g
  BY <1>8 DEF IsGcd
<1>10. u * w + v \in Nat /\ a = (u * w + v) * g
  <2>1. g \in Nat
    BY <1>8 DEF IsGcd
  <2>2. b * w = (u * w) * g
    BY <1>6, <1>9, <2>1
  <2> QED
    BY <1>6, <1>9, <2>1, <2>2
<1>11. IsGcd(g, a, b)
  BY <1>8, <1>9, <1>10 DEF IsGcd
<1> QED
  BY <1>4, <1>7, <1>11

LEMMA GcdScales ==
  ASSUME NEW a0 \in Nat, NEW b0 \in Nat, NEW k \in Nat \ {0}
  PROVE  Gcd[<<k * a0, k * b0>>] = k * Gcd[<<a0, b0>>]
<1> DEFINE Bad == {b \in Nat : \E a \in Nat : Gcd[<<k * a, k * b>>] # k * Gcd[<<a, b>>]}
<1>1. SUFFICES ASSUME Bad # {} PROVE FALSE
  OBVIOUS
<1>2. PICK b \in Bad : \A j \in Bad : b <= j
  <2>1. Bad \subseteq Nat
    OBVIOUS
  <2> HIDE DEF Bad
  <2> QED
    BY <1>1, <2>1, LeastNumber
<1>3. b \in Nat
  OBVIOUS
<1>4. PICK a \in Nat : Gcd[<<k * a, k * b>>] # k * Gcd[<<a, b>>]
  OBVIOUS
<1> DEFINE A == k * a
           B == k * b
<1>5. A \in Nat /\ B \in Nat /\ (b # 0 => B # 0) /\ (b = 0 => B = 0)
  BY <1>3
<1>6. b # 0
  <2> SUFFICES ASSUME b = 0 PROVE FALSE
    OBVIOUS
  <2>1. Gcd[<<a, b>>] = a
    BY <1>3, GcdOf
  <2> HIDE DEF A, B
  <2>2. Gcd[<<A, B>>] = A
    BY <1>5, GcdOf
  <2> QED
    BY <1>4, <2>1, <2>2 DEF A, B
<1> DEFINE r == a % b
<1>7. r \in Nat /\ r < b
  BY <1>3, <1>6, RemainderIs
<1>8. Gcd[<<a, b>>] = Gcd[<<b, r>>]
  BY <1>3, <1>6, GcdOf
<1>9. A % B = k * r
  BY <1>3, <1>6, RemainderOfMultiples
<1>10. Gcd[<<A, B>>] = Gcd[<<B, k * r>>]
  <2> HIDE DEF A, B, r
  <2> QED
    BY <1>5, <1>6, <1>9, GcdOf
<1> HIDE DEF r
<1>11. Gcd[<<B, k * r>>] = k * Gcd[<<b, r>>]
  <2>1. r \notin Bad
    <3> HIDE DEF Bad
    <3> QED
      BY <1>2, <1>3, <1>7
  <2> QED
    BY <1>3, <1>7, <2>1
<1> HIDE DEF Bad
<1> QED
  BY <1>4, <1>8, <1>10, <1>11 DEF A, B

----------------------------------------------------------------------------
(* Fractions.                                                              *)

LEMMA FracOf ==
  ASSUME NEW x \in Int, NEW y \in Nat \ {0}
  PROVE  /\ Frac(x, y) = <<x \div Gcd[<<Magnitude(x), y>>], y \div Gcd[<<Magnitude(x), y>>]>>
         /\ \E n \in Int, m \in Nat \ {0}, g \in Nat \ {0} :
              g = Gcd[<<Magnitude(x), y>>] /\ x = n * g /\ y = m * g /\ Frac(x, y) = <<n, m>>
<1> DEFINE a == Magnitude(x)
           g == Gcd[<<a, y>>]
<1>1. a \in Nat /\ (x = a \/ x = 0 - a)
  BY DEF Magnitude
<1>2. Magnitude(y) = y
  BY DEF Magnitude
<1>3. Frac(x, y) = <<x \div g, y \div g>>
  <2>1. <<x, y>> \in Int \X Int /\ <<x, y>>[1] = x /\ <<x, y>>[2] = y /\ ~(y < 0)
    OBVIOUS
  <2> HIDE DEF a
  <2>2. Lowest[<<x, y>>] = <<x \div g, y \div g>>
    BY <1>2, <2>1 DEF Lowest, a
  <2> QED
    BY <2>2 DEF Frac
<1> HIDE DEF a
<1>4. IsGcd(g, a, y)
  BY <1>1, GcdDivides
<1> HIDE DEF g
<1>5. PICK u \in Nat, v \in Nat : a = u * g /\ y = v * g
  BY <1>4 DEF IsGcd
<1>6. g \in Nat \ {0} /\ v # 0
  BY <1>4, <1>5 DEF IsGcd
<1>7. \E n \in Int : x = n * g
  <2>1. CASE x = a
    BY <1>5, <2>1
  <2>2. CASE x = 0 - a
    <3>1. 0 - u \in Int /\ x = (0 - u) * g
      BY <1>5, <1>6, <2>2
    <3> QED
      BY <3>1
  <2> QED
    BY <1>1, <2>1, <2>2
<1>8. PICK n \in Int : x = n * g
  BY <1>7
<1>9. x \div g = n /\ y \div g = v
  BY <1>5, <1>6, <1>8, QuotientIs
<1>10. Frac(x, y) = <<n, v>>
  BY <1>3, <1>9
<1>11. \E i \in Int, m \in Nat \ {0}, k \in Nat \ {0} :
         k = g /\ x = i * k /\ y = m * k /\ Frac(x, y) = <<i, m>>
  BY <1>5, <1>6, <1>8, <1>10
<1> QED
  BY <1>3, <1>11 DEF g, a

LEMMA FracScales ==
  ASSUME NEW x \in Int, NEW y \in Nat \ {0}, NEW k \in Nat \ {0}
  PROVE  Frac(k * x, k * y) = Frac(x, y)
<1> DEFINE X == k * x
           Y == k * y
           a == Magnitude(x)
           g == Gcd[<<a, y>>]
           h == Gcd[<<Magnitude(X), Y>>]
<1>1. X \in Int /\ Y \in Nat \ {0} /\ a \in Nat
  BY DEF Magnitude
<1>2. Magnitude(X) = k * a
  <2>1. CASE x < 0
    BY <2>1 DEF Magnitude
  <2>2. CASE ~(x < 0)
    BY <2>2 DEF Magnitude
  <2> QED
    BY <2>1, <2>2
<1> HIDE DEF a
<1>3. h = k * g
  BY <1>1, <1>2, GcdScales
<1>4. PICK n \in Int, m \in Nat \ {0} :
        g \in Nat \ {0} /\ x = n * g /\ y = m * g /\ Frac(x, y) = <<n, m>>
  BY FracOf DEF a
<1> HIDE DEF g
<1>5. X = n * h /\ Y = m * h /\ h \in Nat \ {0}
  <2> HIDE DEF h
  <2> QED
    BY <1>3, <1>4
<1>6. Frac(X, Y) = <<X \div h, Y \div h>>
  <2> HIDE DEF X, Y
  <2> QED
    BY <1>1, FracOf
<1> HIDE DEF X, Y, h
<1>7. X \div h = n /\ Y \div h = m
  BY <1>5, QuotientIs
<1> QED
  BY <1>4, <1>6, <1>7 DEF X, Y

\* Fractions of one value have one form in lowest terms.
LEMMA FracEqual ==
  ASSUME NEW x \in Int, NEW y \in Nat \ {0}, NEW z \in Int, NEW w \in Nat \ {0}, x * w = z * y
  PROVE  Frac(x, y) = Frac(z, w)
<1>1. Frac(w * x, w * y) = Frac(x, y)
  BY FracScales
<1>2. Frac(y * z, y * w) = Frac(z, w)
  BY FracScales
<1>3. w * x = y * z /\ w * y = y * w
  OBVIOUS
<1> QED
  BY <1>1, <1>2, <1>3

LEMMA FracIsNumber ==
  ASSUME NEW x \in Int, NEW y \in Nat \ {0}
  PROVE  /\ IsNumber(Frac(x, y))
         /\ Frac(x, y)[1] * y = x * Frac(x, y)[2]
<1>1. PICK n \in Int, m \in Nat \ {0}, g \in Nat \ {0} :
        g = Gcd[<<Magnitude(x), y>>] /\ x = n * g /\ y = m * g /\ Frac(x, y) = <<n, m>>
  BY FracOf
<1>2. n * y = x * m
  BY <1>1
<1>3. Frac(n, m) = Frac(x, y)
  BY <1>2, FracEqual
<1> DEFINE a == Frac(x, y)
<1>4. a = <<n, m>>
  BY <1>1
<1> HIDE DEF a
<1>5. IsNumber(a) /\ a[1] * y = x * a[2]
  BY <1>2, <1>3, <1>4 DEF IsNumber, a
<1> QED
  BY <1>5 DEF a

LEMMA NumberIs ==
  ASSUME NEW a, IsNumber(a)
  PROVE  \E x \in Int, y \in Nat \ {0} : a = Frac(x, y) /\ a[1] = x /\ a[2] = y
BY DEF IsNumber

\* What the operations make of fractions.
LEMMA FracNeg ==
  ASSUME NEW x \in Int, NEW y \in Nat \ {0}
  PROVE  Neg(Frac(x, y)) = Frac(0 - x, y)
<1> DEFINE a == Frac(x, y)
<1>1. /\ a = <<a[1], a[2]>> /\ a[1] \in Int /\ a[2] \in Nat \ {0} /\ a = Frac(a[1], a[2])
      /\ a[1] * y = x * a[2]
  BY FracIsNumber, Zenon DEF IsNumber
<1> HIDE DEF a
<1> DEFINE n == a[1]
           m == a[2]
<1>2. n \in Int /\ m \in Nat \ {0} /\ n * y = x * m
  BY <1>1
<1>3. PICK i \in Int, j \in Nat \ {0}, g \in Nat \ {0} :
        g = Gcd[<<Magnitude(x), y>>] /\ x = i * g /\ y = j * g /\ Frac(x, y) = <<i, j>>
  BY FracOf
<1>4. Magnitude(0 - x) = Magnitude(x)
  BY DEF Magnitude
<1>5. Frac(0 - x, y) = <<(0 - x) \div g, y \div g>>
  <2>1. 0 - x \in Int
    OBVIOUS
  <2> DEFINE z == 0 - x
  <2> HIDE DEF z
  <2>2. Frac(z, y) = <<z \div Gcd[<<Magnitude(z), y>>], y \div Gcd[<<Magnitude(z), y>>]>>
    BY <2>1, FracOf, Zenon DEF z
  <2> QED
    BY <1>3, <1>4, <2>2 DEF z
<1>6. (0 - x) \div g = 0 - i /\ y \div g = j
  <2>1. 0 - x = (0 - i) * g /\ 0 - i \in Int
    BY <1>3
  <2>2. ((0 - i) * g) \div g = 0 - i /\ (j * g) \div g = j
    BY <2>1, QuotientIs
  <2> QED
    BY <1>3, <2>1, <2>2
<1> QED
  BY <1>3, <1>5, <1>6 DEF Neg

LEMMA FracSum ==
  ASSUME NEW x \in Int, NEW y \in Nat \ {0}, NEW z \in Int, NEW w \in Nat \ {0}
  PROVE  /\ Frac(x, y) ++ Frac(z, w) = Frac(x * w + z * y, y * w)
         /\ Frac(x, y) -- Frac(z, w) = Frac(x * w - z * y, y * w)
<1> DEFINE a == Frac(x, y)
           b == Frac(z, w)
           n == a[1]
           m == a[2]
           k == b[1]
           l == b[2]
<1>1. n \in Int /\ m \in Nat \ {0} /\ n * y = x * m
  BY FracIsNumber, Zenon DEF IsNumber
<1>2. k \in Int /\ l \in Nat \ {0} /\ k * w = z * l
  BY FracIsNumber, Zenon DEF IsNumber
<1>3. a ++ b = Frac(n * l + k * m, m * l) /\ a -- b = Frac(n * l - k * m, m * l)
  BY DEF ++, --
<1> HIDE DEF n, m, k, l
<1>4. (n * l) * (y * w) = (x * w) * (m * l)
  BY <1>1, <1>2
<1>5. (k * m) * (y * w) = (z * y) * (m * l)
  BY <1>1, <1>2
<1> DEFINE N == n * l
           K == k * m
           M == m * l
           X == x * w
           Z == z * y
           Y == y * w
<1>6. N \in Int /\ K \in Int /\ M \in Nat \ {0} /\ X \in Int /\ Z \in Int /\ Y \in Nat \ {0}
      /\ N * Y = X * M /\ K * Y = Z * M
  BY <1>1, <1>2, <1>4, <1>5
<1> HIDE DEF N, K, M, X, Z, Y
<1>7. /\ N + K \in Int /\ X + Z \in Int /\ (N + K) * Y = (X + Z) * M
      /\ N - K \in Int /\ X - Z \in Int /\ (N - K) * Y = (X - Z) * M
  BY <1>6
<1>8. Frac(N + K, M) = Frac(X + Z, Y) /\ Frac(N - K, M) = Frac(X - Z, Y)
  BY <1>6, <1>7, FracEqual
<1> QED
  BY <1>3, <1>8, Zenon DEF N, K, M, X, Z, Y

LEMMA FracProduct ==
  ASSUME NEW x \in Int, NEW y \in Nat \ {0}, NEW z \in Int, NEW w \in Nat \ {0}
  PROVE  /\ Frac(x, y) ** Frac(z, w) = Frac(x * z, y * w)
         /\ z > 0 => Frac(x, y) // Frac(z, w) = Frac(x * w, y * z)
<1> DEFINE a == Frac(x, y)
           b == Frac(z, w)
           n == a[1]
           m == a[2]
           k == b[1]
           l == b[2]
<1>1. n \in Int /\ m \in Nat \ {0} /\ n * y = x * m
  BY FracIsNumber, Zenon DEF IsNumber
<1>2. k \in Int /\ l \in Nat \ {0} /\ k * w = z * l
  BY FracIsNumber, Zenon DEF IsNumber
<1>3. a ** b = Frac(n * k, m * l) /\ a // b = Frac(n * l, m * k)
  BY DEF **, //
<1> HIDE DEF n, m, k, l, a, b
<1>4. Frac(n * k, m * l) = Frac(x * z, y * w)
  <2>1. n * k \in Int /\ x * z \in Int /\ m * l \in Nat \ {0} /\ y * w \in Nat \ {0}
    BY <1>1, <1>2
  <2>2. (n * k) * (y * w) = (x * z) * (m * l)
    BY <1>1, <1>2
  <2> QED
    BY <2>1, <2>2, FracEqual
<1>5. ASSUME z > 0 PROVE Frac(n * l, m * k) = Frac(x * w, y * z)
  <2>1. k > 0
    <3>1. z * l > 0
      BY <1>2, <1>5
    <3>2. ASSUME k <= 0 PROVE k * w <= 0
      BY <1>2, <3>2
    <3> QED
      BY <1>2, <3>1, <3>2
  <2>2. n * l \in Int /\ x * w \in Int /\ m * k \in Nat \ {0} /\ y * z \in Nat \ {0}
    BY <1>1, <1>2, <1>5, <2>1
  <2>3. (n * l) * (y * z) = (x * w) * (m * k)
    BY <1>1, <1>2
  <2> QED
    BY <2>2, <2>3, FracEqual
<1> QED
  BY <1>3, <1>4, <1>5 DEF a, b

----------------------------------------------------------------------------
(* The arithmetic of numbers.                                              *)

Half == <<1, 2>>
Zero == Whole(0)

LEMMA GcdOfOne ==
  ASSUME NEW a \in Nat
  PROVE  Gcd[<<a, 1>>] = 1 /\ Gcd[<<1, a>>] = 1
<1>1. Gcd[<<1, 0>>] = 1
  BY GcdOf
<1>2. Gcd[<<a, 1>>] = 1
  <2>1. a % 1 = 0
    OBVIOUS
  <2> QED
    BY <1>1, <2>1, GcdOf
<1>3. Gcd[<<1, a>>] = 1
  <2>1. CASE a = 0
    BY <1>1, <2>1
  <2>2. CASE a = 1
    BY <1>2, <2>2
  <2>3. CASE a > 1
    <3>1. 1 % a = 1
      BY <2>3
    <3>2. Gcd[<<1, a>>] = Gcd[<<a, 1>>]
      BY <2>3, <3>1, GcdOf
    <3> QED
      BY <1>2, <3>2
  <2> QED
    BY <2>1, <2>2, <2>3
<1> QED
  BY <1>2, <1>3

LEMMA LowestTerms ==
  ASSUME NEW n \in Nat, NEW m \in Nat \ {0}, Gcd[<<n, m>>] = 1
  PROVE  IsNumber(<<n, m>>) /\ Frac(n, m) = <<n, m>>
<1>1. Magnitude(n) = n
  BY DEF Magnitude
<1>2. Frac(n, m) = <<n \div 1, m \div 1>>
  BY <1>1, FracOf
<1>3. Frac(n, m) = <<n, m>>
  BY <1>2
<1> DEFINE a == <<n, m>>
<1>4. a = <<a[1], a[2]>> /\ a[1] = n /\ a[2] = m
  OBVIOUS
<1> HIDE DEF a
<1>5. IsNumber(a)
  BY <1>3, <1>4 DEF IsNumber
<1> QED
  BY <1>3, <1>5 DEF a

\* The numbers that mistakes compute with.
LEMMA WholeIsNumber ==
  ASSUME NEW n \in Nat
  PROVE  IsNumber(Whole(n)) /\ Whole(n) = Frac(n, 1)
<1>1. Gcd[<<n, 1>>] = 1 /\ 1 \in Nat \ {0}
  <2>1. Gcd[<<n, 1>>] = 1
    BY GcdOfOne, Zenon
  <2> QED
    BY <2>1
<1>2. IsNumber(<<n, 1>>) /\ Frac(n, 1) = <<n, 1>>
  BY <1>1, LowestTerms, Zenon
<1> QED
  BY <1>2, Zenon DEF Whole

LEMMA HalfIsNumber ==
  IsNumber(Half) /\ Half = Frac(1, 2)
<1>1. Gcd[<<1, 2>>] = 1 /\ 1 \in Nat /\ 2 \in Nat \ {0}
  <2>1. 1 \in Nat /\ 2 \in Nat \ {0}
    OBVIOUS
  <2>2. Gcd[<<1, 2>>] = 1
    BY <2>1, GcdOfOne
  <2> QED
    BY <2>1, <2>2
<1>2. IsNumber(<<1, 2>>) /\ Frac(1, 2) = <<1, 2>>
  BY <1>1, LowestTerms, Zenon
<1> QED
  BY <1>2, Zenon DEF Half

LEMMA FactorsAreNumbers ==
  /\ IsNumber(<<3, 2>>) /\ IsNumber(<<3, 5>>) /\ IsNumber(<<7, 5>>)
  /\ IsNumber(<<9, 10>>) /\ IsNumber(<<1, 10>>)
<1>1. Gcd[<<3, 2>>] = 1
  <2>1. 3 % 2 = 1
    OBVIOUS
  <2>2. Gcd[<<3, 2>>] = Gcd[<<2, 1>>]
    BY <2>1, GcdOf
  <2> QED
    BY <2>2, GcdOfOne
<1>2. Gcd[<<3, 5>>] = 1
  <2>1. 3 % 5 = 3 /\ 5 % 3 = 2 /\ 3 % 2 = 1
    OBVIOUS
  <2>2. Gcd[<<3, 5>>] = Gcd[<<5, 3>>] /\ Gcd[<<5, 3>>] = Gcd[<<3, 2>>]
    BY <2>1, GcdOf
  <2> QED
    BY <1>1, <2>2
<1>3. Gcd[<<7, 5>>] = 1
  <2>1. 7 % 5 = 2 /\ 5 % 2 = 1
    OBVIOUS
  <2>2. Gcd[<<7, 5>>] = Gcd[<<5, 2>>] /\ Gcd[<<5, 2>>] = Gcd[<<2, 1>>]
    BY <2>1, GcdOf
  <2> QED
    BY <2>2, GcdOfOne
<1>4. Gcd[<<9, 10>>] = 1
  <2>1. 9 % 10 = 9 /\ 10 % 9 = 1
    OBVIOUS
  <2>2. Gcd[<<9, 10>>] = Gcd[<<10, 9>>] /\ Gcd[<<10, 9>>] = Gcd[<<9, 1>>]
    BY <2>1, GcdOf
  <2> QED
    BY <2>2, GcdOfOne
<1>5. Gcd[<<1, 10>>] = 1
  BY GcdOfOne
<1> QED
  BY <1>1, <1>2, <1>3, <1>4, <1>5, LowestTerms

LEMMA OperationsAreNumbers ==
  ASSUME NEW a, IsNumber(a), NEW b, IsNumber(b)
  PROVE  /\ IsNumber(a ++ b) /\ IsNumber(a -- b) /\ IsNumber(a ** b) /\ IsNumber(Neg(a))
         /\ Positive(b) => IsNumber(a // b)
<1>1. PICK x \in Int, y \in Nat \ {0} : a = Frac(x, y) /\ a[1] = x /\ a[2] = y
  BY NumberIs
<1>2. PICK z \in Int, w \in Nat \ {0} : b = Frac(z, w) /\ b[1] = z /\ b[2] = w
  BY NumberIs
<1>3. /\ a ++ b = Frac(x * w + z * y, y * w) /\ a -- b = Frac(x * w - z * y, y * w)
      /\ a ** b = Frac(x * z, y * w)
      /\ z > 0 => a // b = Frac(x * w, y * z)
      /\ Neg(a) = Frac(0 - x, y)
  <2>1. a ++ b = Frac(x * w + z * y, y * w) /\ a -- b = Frac(x * w - z * y, y * w)
    BY <1>1, <1>2 DEF ++, --
  <2>2. a ** b = Frac(x * z, y * w) /\ (z > 0 => a // b = Frac(x * w, y * z))
    BY <1>1, <1>2 DEF **, //
  <2>3. Neg(a) = Frac(0 - x, y)
    BY <1>1, FracNeg
  <2> QED
    BY <2>1, <2>2, <2>3
<1>4. /\ x * w + z * y \in Int /\ x * w - z * y \in Int /\ y * w \in Nat \ {0}
      /\ x * z \in Int /\ x * w \in Int /\ 0 - x \in Int
      /\ z > 0 => y * z \in Nat \ {0}
  OBVIOUS
<1> DEFINE s == x * w + z * y
           d == x * w - z * y
           m == y * w
           t == x * z
           u == x * w
           v == 0 - x
           q == y * z
<1> HIDE DEF s, d, m, t, u, v, q
<1>5. /\ s \in Int /\ d \in Int /\ m \in Nat \ {0} /\ t \in Int /\ u \in Int /\ v \in Int
      /\ z > 0 => q \in Nat \ {0}
  BY <1>4 DEF s, d, m, t, u, v, q
<1>6. /\ IsNumber(Frac(s, m)) /\ IsNumber(Frac(d, m)) /\ IsNumber(Frac(t, m))
      /\ z > 0 => IsNumber(Frac(u, q))
      /\ IsNumber(Frac(v, y))
  BY <1>5, FracIsNumber
<1>7. Positive(b) => z > 0
  BY <1>2 DEF Positive
<1> QED
  BY <1>3, <1>6, <1>7 DEF s, d, m, t, u, v, q

\* Products.
LEMMA TimesCommutes ==
  ASSUME NEW a, IsNumber(a), NEW b, IsNumber(b)
  PROVE  a ** b = b ** a
<1>1. a[1] \in Int /\ a[2] \in Int /\ b[1] \in Int /\ b[2] \in Int
  BY DEF IsNumber
<1>2. a[1] * b[1] = b[1] * a[1] /\ a[2] * b[2] = b[2] * a[2]
  BY <1>1
<1> QED
  BY <1>2, Zenon DEF **

LEMMA TimesAssociates ==
  ASSUME NEW a, IsNumber(a), NEW b, IsNumber(b), NEW c, IsNumber(c)
  PROVE  (a ** b) ** c = a ** (b ** c)
<1>1. PICK x \in Int, y \in Nat \ {0} : a = Frac(x, y) /\ a[1] = x /\ a[2] = y
  BY NumberIs
<1>2. PICK z \in Int, w \in Nat \ {0} : b = Frac(z, w) /\ b[1] = z /\ b[2] = w
  BY NumberIs
<1>3. PICK u \in Int, v \in Nat \ {0} : c = Frac(u, v) /\ c[1] = u /\ c[2] = v
  BY NumberIs
<1> DEFINE t == x * z
           m == y * w
           s == z * u
           n == w * v
<1>4. t \in Int /\ m \in Nat \ {0} /\ s \in Int /\ n \in Nat \ {0}
  OBVIOUS
<1>5. t * u = x * s /\ m * v = y * n
  OBVIOUS
<1>6. a ** b = Frac(t, m) /\ b ** c = Frac(s, n)
  BY <1>1, <1>2, <1>3, FracProduct
<1> HIDE DEF t, m, s, n
<1>7. (a ** b) ** c = Frac(t * u, m * v)
  BY <1>3, <1>4, <1>6, FracProduct
<1>8. a ** (b ** c) = Frac(x * s, y * n)
  BY <1>1, <1>4, <1>6, FracProduct
<1> QED
  BY <1>5, <1>7, <1>8

LEMMA TimesSwaps ==
  ASSUME NEW a, IsNumber(a), NEW b, IsNumber(b), NEW c, IsNumber(c)
  PROVE  (a ** b) ** c = (a ** c) ** b
<1>1. (a ** b) ** c = a ** (b ** c) /\ (a ** c) ** b = a ** (c ** b)
  BY TimesAssociates
<1>2. b ** c = c ** b
  BY TimesCommutes
<1> QED
  BY <1>1, <1>2

LEMMA TimesOne ==
  ASSUME NEW a, IsNumber(a)
  PROVE  a ** One = a
<1>1. a[1] * 1 = a[1] /\ a[2] * 1 = a[2] /\ a = Frac(a[1], a[2])
  BY DEF IsNumber
<1>2. One[1] = 1 /\ One[2] = 1
  BY DEF One, Whole
<1> QED
  BY <1>1, <1>2 DEF **

LEMMA TimesZero ==
  ASSUME NEW a, IsNumber(a)
  PROVE  a ** Zero = Zero /\ Zero ** a = Zero
<1>1. PICK x \in Int, y \in Nat \ {0} : a = Frac(x, y) /\ a[1] = x /\ a[2] = y
  BY NumberIs
<1>2. IsNumber(Zero) /\ Zero = Frac(0, 1)
  BY WholeIsNumber DEF Zero
<1>3. x * 0 = 0 /\ y * 1 = y
  OBVIOUS
<1>4. a ** Zero = Frac(x * 0, y * 1)
  BY <1>1, <1>2, FracProduct
<1>5. Frac(0, y) = Frac(0, 1)
  BY FracEqual
<1>6. a ** Zero = Zero
  BY <1>2, <1>3, <1>4, <1>5
<1> QED
  BY <1>2, <1>6, TimesCommutes

\* Sums and differences.
LEMMA PlusZero ==
  ASSUME NEW a, IsNumber(a)
  PROVE  a ++ Zero = a /\ a -- Zero = a
<1>1. PICK x \in Int, y \in Nat \ {0} : a = Frac(x, y) /\ a[1] = x /\ a[2] = y
  BY NumberIs
<1>2. Zero[1] = 0 /\ Zero[2] = 1
  BY DEF Zero, Whole
<1>3. x * 1 + 0 * y = x /\ x * 1 - 0 * y = x /\ y * 1 = y
  OBVIOUS
<1> QED
  BY <1>1, <1>2, <1>3 DEF ++, --

LEMMA MinusNegated ==
  ASSUME NEW a, IsNumber(a), NEW b, IsNumber(b)
  PROVE  a -- Neg(b) = a ++ b
<1>1. PICK x \in Int, y \in Nat \ {0} : a = Frac(x, y) /\ a[1] = x /\ a[2] = y
  BY NumberIs
<1>2. PICK z \in Int, w \in Nat \ {0} : b = Frac(z, w) /\ b[1] = z /\ b[2] = w
  BY NumberIs
<1>3. Neg(b)[1] = 0 - z /\ Neg(b)[2] = w
  BY <1>2 DEF Neg
<1>4. x * w - (0 - z) * y = x * w + z * y
  OBVIOUS
<1> QED
  BY <1>1, <1>2, <1>3, <1>4 DEF ++, --

LEMMA NegatedTwice ==
  ASSUME NEW a, IsNumber(a)
  PROVE  Neg(Neg(a)) = a
<1>1. Neg(a)[1] = 0 - a[1] /\ Neg(a)[2] = a[2]
  BY DEF Neg
<1>2. a = <<a[1], a[2]>> /\ a[1] \in Int
  BY DEF IsNumber
<1>3. 0 - (0 - a[1]) = a[1]
  BY <1>2
<1>4. Neg(Neg(a)) = <<0 - (0 - a[1]), a[2]>>
  BY <1>1 DEF Neg
<1> QED
  BY <1>2, <1>3, <1>4

LEMMA NegatedDifference ==
  ASSUME NEW a, IsNumber(a), NEW b, IsNumber(b)
  PROVE  Neg(a -- b) = b -- a
<1>1. PICK x \in Int, y \in Nat \ {0} : a = Frac(x, y) /\ a[1] = x /\ a[2] = y
  BY NumberIs
<1>2. PICK z \in Int, w \in Nat \ {0} : b = Frac(z, w) /\ b[1] = z /\ b[2] = w
  BY NumberIs
<1> DEFINE d == x * w - z * y
           m == y * w
<1>3. d \in Int /\ m \in Nat \ {0}
  OBVIOUS
<1>4. 0 - d = z * y - x * w /\ w * y = m
  OBVIOUS
<1>5. a -- b = Frac(d, m)
  BY <1>1, <1>2, FracSum
<1>6. b -- a = Frac(z * y - x * w, w * y)
  BY <1>1, <1>2, FracSum
<1> HIDE DEF d, m
<1>7. Neg(a -- b) = Frac(0 - d, m)
  BY <1>3, <1>5, FracNeg
<1> QED
  BY <1>4, <1>6, <1>7

LEMMA NegatedProduct ==
  ASSUME NEW a, IsNumber(a), NEW b, IsNumber(b)
  PROVE  Neg(a) ** b = Neg(a ** b) /\ a ** Neg(b) = Neg(a ** b)
<1>1. ASSUME NEW c, IsNumber(c), NEW d, IsNumber(d) PROVE Neg(c) ** d = Neg(c ** d)
  <2>1. PICK x \in Int, y \in Nat \ {0} : c = Frac(x, y) /\ c[1] = x /\ c[2] = y
    BY <1>1, NumberIs
  <2>2. PICK z \in Int, w \in Nat \ {0} : d = Frac(z, w) /\ d[1] = z /\ d[2] = w
    BY <1>1, NumberIs
  <2> DEFINE t == x * z
             m == y * w
  <2>3. t \in Int /\ m \in Nat \ {0} /\ (0 - x) * z = 0 - t
    OBVIOUS
  <2>4. Neg(c)[1] = 0 - x /\ Neg(c)[2] = y
    BY <2>1 DEF Neg
  <2>5. c ** d = Frac(t, m) /\ Neg(c) ** d = Frac((0 - x) * z, m)
    BY <2>1, <2>2, <2>4 DEF **
  <2> HIDE DEF t, m
  <2>6. Neg(c ** d) = Frac(0 - t, m)
    BY <2>3, <2>5, FracNeg
  <2> QED
    BY <2>3, <2>5, <2>6
<1>2. IsNumber(Neg(b)) /\ a ** Neg(b) = Neg(b) ** a /\ b ** a = a ** b
  BY OperationsAreNumbers, TimesCommutes
<1> QED
  BY <1>1, <1>2

\* Quotients.
LEMMA QuotientTimes ==
  ASSUME NEW a, IsNumber(a), NEW b, IsNumber(b), Positive(b), NEW c, IsNumber(c)
  PROVE  (a // b) ** c = (a ** c) // b
<1>1. PICK x \in Int, y \in Nat \ {0} : a = Frac(x, y) /\ a[1] = x /\ a[2] = y
  BY NumberIs
<1>2. PICK z \in Int, w \in Nat \ {0} : b = Frac(z, w) /\ b[1] = z /\ b[2] = w
  BY NumberIs
<1>3. PICK u \in Int, v \in Nat \ {0} : c = Frac(u, v) /\ c[1] = u /\ c[2] = v
  BY NumberIs
<1>4. z > 0 /\ z \in Nat \ {0}
  BY <1>2 DEF Positive
<1> DEFINE q == x * w
           m == y * z
           t == x * u
           n == y * v
<1>5. q \in Int /\ m \in Nat \ {0} /\ t \in Int /\ n \in Nat \ {0}
  BY <1>4
<1>6. q * u = t * w /\ m * v = n * z
  OBVIOUS
<1>7. a // b = Frac(q, m) /\ a ** c = Frac(t, n)
  BY <1>1, <1>2, <1>3, <1>4, FracProduct
<1> HIDE DEF q, m, t, n
<1>8. (a // b) ** c = Frac(q * u, m * v)
  BY <1>3, <1>5, <1>7, FracProduct
<1>9. (a ** c) // b = Frac(t * w, n * z)
  BY <1>2, <1>4, <1>5, <1>7, FracProduct
<1> QED
  BY <1>6, <1>8, <1>9

\* Dividing by a whole number is multiplying by its part.
LEMMA QuotientIsPart ==
  ASSUME NEW a, IsNumber(a), NEW n \in Nat \ {0}
  PROVE  a // Whole(n) = a ** <<1, n>>
<1>1. a[1] * 1 = a[1] /\ a[2] * n = a[2] * n
  BY DEF IsNumber
<1>2. Whole(n)[1] = n /\ Whole(n)[2] = 1 /\ <<1, n>>[1] = 1 /\ <<1, n>>[2] = n
  BY DEF Whole
<1> QED
  BY <1>1, <1>2 DEF **, //

LEMMA HalvedDivisor ==
  ASSUME NEW b, IsNumber(b), Positive(b)
  PROVE  One // (b ** Half) = Two ** (One // b)
<1>1. PICK z \in Int, w \in Nat \ {0} : b = Frac(z, w) /\ b[1] = z /\ b[2] = w
  BY NumberIs
<1>2. z > 0 /\ z \in Nat \ {0}
  BY <1>1 DEF Positive
<1>3. One = Frac(1, 1) /\ Two = Frac(2, 1) /\ Half = Frac(1, 2)
  BY WholeIsNumber, HalfIsNumber DEF One, Two
<1> DEFINE m == w * 2
<1>4. m \in Nat \ {0}
  OBVIOUS
<1>5. b ** Half = Frac(z * 1, w * 2)
  BY <1>1, <1>3, FracProduct
<1>6. b ** Half = Frac(z, m)
  BY <1>5
<1>7. One // b = Frac(1 * w, 1 * z)
  BY <1>1, <1>2, <1>3, FracProduct
<1>8. One // b = Frac(w, z)
  BY <1>7
<1>9. Two ** (One // b) = Frac(2 * w, 1 * z)
  BY <1>2, <1>3, <1>8, FracProduct
<1> HIDE DEF m
<1>10. One // (b ** Half) = Frac(1 * m, 1 * z)
  BY <1>2, <1>3, <1>4, <1>6, FracProduct
<1> QED
  BY <1>9, <1>10 DEF m

----------------------------------------------------------------------------
(* What a mistake computes.                                                *)

\* A mistake computes what the right formula does with the parameters it is
\* told by.
Tells(formula, p, mistake, value) ==
  MisledBy(mistake, p) # Absent => value = Compute(formula, MisledBy(mistake, p))

LEMMA ThreeAre ==
  ASSUME NEW a, NEW b, NEW c, NEW i \in 1..3
  PROVE  \/ i = 1 /\ <<a, b, c>>[i] = a
         \/ i = 2 /\ <<a, b, c>>[i] = b
         \/ i = 3 /\ <<a, b, c>>[i] = c
OBVIOUS

\* A parameter is changed and the others are left alone.
Changed(p, q, field, v) ==
  /\ q[field] = v
  /\ \A other \in DOMAIN p : other # field => q[other] = p[other]

LEMMA ChangesOne ==
  ASSUME NEW p, NEW field \in DOMAIN p, NEW v
  PROVE  Changed(p, [p EXCEPT ![field] = v], field, v)
BY DEF Changed

OtherSide(p) == IF p.side = "long" THEN "short" ELSE "long"

LEMMA MistakesByPart ==
  ASSUME NEW p
  PROVE  /\ MisledBy("double the cushion", p) = [p EXCEPT !["leverage"] = p["leverage"] ** Half]
         /\ MisledBy("half the position", p) = [p EXCEPT !["quantity"] = p["quantity"] ** Half]
         /\ MisledBy("fee on one fill", p) = [p EXCEPT !["fee_rate"] = p["fee_rate"] ** Half]
         /\ MisledBy("two intervals", p) = [p EXCEPT !["rate"] = p["rate"] ** Two]
         /\ MisledBy("half an interval", p) = [p EXCEPT !["rate"] = p["rate"] ** Half]
         /\ MisledBy("1.5 times the supply", p)
              = [p EXCEPT !["circulating"] = p["circulating"] ** <<3, 2>>]
         /\ MisledBy("0.6 times the supply", p)
              = [p EXCEPT !["circulating"] = p["circulating"] ** <<3, 5>>]
         /\ MisledBy("double-count the supply", p)
              = [p EXCEPT !["circulating"] = p["circulating"] ** Two]
         /\ MisledBy("0.5 times the supply", p)
              = [p EXCEPT !["max_supply"] = p["max_supply"] ** Half]
         /\ MisledBy("1.4 times the supply", p)
              = [p EXCEPT !["max_supply"] = p["max_supply"] ** <<7, 5>>]
         /\ MisledBy("0.9 times the price", p) = [p EXCEPT !["price"] = p["price"] ** <<9, 10>>]
         /\ MisledBy("double the risk", p) = [p EXCEPT !["risk_pct"] = p["risk_pct"] ** Two]
         /\ MisledBy("halve the risk", p) = [p EXCEPT !["risk_pct"] = p["risk_pct"] ** Half]
         /\ MisledBy("ten times too small", p)
              = [p EXCEPT !["risk_pct"] = p["risk_pct"] ** <<1, 10>>]
BY DEF MisledBy, Half

LEMMA MistakesBySign ==
  ASSUME NEW p
  PROVE  /\ MisledBy("forget mmr", p) = [p EXCEPT !["mmr"] = Zero]
         /\ MisledBy("subtract mmr", p) = [p EXCEPT !["mmr"] = Neg(p["mmr"])]
         /\ MisledBy("add mmr", p) = [p EXCEPT !["mmr"] = Neg(p["mmr"])]
         /\ MisledBy("wrong side", p) = [p EXCEPT !["side"] = OtherSide(p)]
         /\ MisledBy("move the wrong way round", p) = [p EXCEPT !["side"] = OtherSide(p)]
         /\ MisledBy("forget fees", p) = [p EXCEPT !["fee_rate"] = Zero]
         /\ MisledBy("add the losing side", p) = [p EXCEPT !["avg_loss"] = Neg(p["avg_loss"])]
         /\ MisledBy("ignore the losing trades", p) = [p EXCEPT !["avg_loss"] = Zero]
         /\ MisledBy("add the two sides", p) = [p EXCEPT !["taker_sell"] = Neg(p["taker_sell"])]
         /\ MisledBy("only the buying", p) = [p EXCEPT !["taker_sell"] = Zero]
BY DEF MisledBy, OtherSide, Zero

LEMMA MistakesByTwo ==
  ASSUME NEW p
  PROVE  /\ MisledBy("sell minus buy", p)
              = [[p EXCEPT !["taker_buy"] = p["taker_sell"]] EXCEPT !["taker_sell"] = p["taker_buy"]]
         /\ MisledBy("ignore trading costs", p)
              = [[p EXCEPT !["fee_rate"] = Zero] EXCEPT !["funding_rate"] = Zero]
         /\ MisledBy("one round trip, no funding", p)
              = [[p EXCEPT !["round_trips"] = One] EXCEPT !["funding_intervals"] = Zero]
         /\ MisledBy("leverage plus one", p) = [p EXCEPT !["leverage"] = p["leverage"] ++ One]
         /\ MisledBy("leverage minus one", p)
              = IF p["leverage"][1] > p["leverage"][2]
                  THEN [p EXCEPT !["leverage"] = p["leverage"] -- One] ELSE Absent
         /\ MisledBy("win rate for losses too", p) = Absent
         /\ MisledBy("divide by the other venue", p) = Absent
         /\ MisledBy("premium the wrong way round", p) = Absent
         /\ MisledBy("no percentage", p) = Absent
         /\ MisledBy("slip", p) = Absent
BY DEF MisledBy, Zero

LEMMA Told ==
  ASSUME NEW formula, NEW p, NEW mistake, NEW value, NEW q, MisledBy(mistake, p) = q,
         value = Compute(formula, q)
  PROVE  Tells(formula, p, mistake, value)
BY Zenon DEF Tells

LEMMA ThreeTell ==
  ASSUME NEW formula, NEW p, NEW m1, NEW v1, NEW m2, NEW v2, NEW m3, NEW v3,
         Tells(formula, p, m1, v1), Tells(formula, p, m2, v2), Tells(formula, p, m3, v3),
         NEW i \in 1..3
  PROVE  LET mistakes == << <<m1, v1>>, <<m2, v2>>, <<m3, v3>> >>
         IN  Tells(formula, p, mistakes[i][1], mistakes[i][2])
<1> DEFINE mistakes == << <<m1, v1>>, <<m2, v2>>, <<m3, v3>> >>
<1>1. \/ mistakes[i][1] = m1 /\ mistakes[i][2] = v1
      \/ mistakes[i][1] = m2 /\ mistakes[i][2] = v2
      \/ mistakes[i][1] = m3 /\ mistakes[i][2] = v3
  BY ThreeAre
<1> HIDE DEF mistakes
<1>2. Tells(formula, p, mistakes[i][1], mistakes[i][2])
  BY <1>1
<1> QED
  BY <1>2 DEF mistakes

LEMMA LiquidationTells ==
  ASSUME NEW p, Measured("liquidation_price", p), NEW i \in 1..3
  PROVE  Tells("liquidation_price", p, LiquidationMistakes(p)[i][1], LiquidationMistakes(p)[i][2])
<1> DEFINE imr == One // p.leverage
           at(j, m) == p.entry ** LiquidationFactor(p, j, m)
           sign == IF p.side = "long" THEN "subtract mmr" ELSE "add mmr"
<1>1. /\ "entry" \in DOMAIN p /\ "leverage" \in DOMAIN p /\ "mmr" \in DOMAIN p /\ "side" \in DOMAIN p
      /\ IsNumber(p["leverage"]) /\ Positive(p["leverage"])
  BY DEF Measured, Arguments
<1>2. \A q : Compute("liquidation_price", q) = Liquidation(q)
  BY DEF Compute
<1>3. ASSUME NEW rate PROVE Liquidation([p EXCEPT !["mmr"] = rate]) = at(imr, rate)
  <2> DEFINE q == [p EXCEPT !["mmr"] = rate]
  <2>1. Changed(p, q, "mmr", rate)
    BY <1>1, ChangesOne
  <2> HIDE DEF q
  <2>2. Liquidation(q) = at(imr, rate)
    BY <1>1, <2>1 DEF Changed, Liquidation, LiquidationFactor, Signed
  <2> QED
    BY <2>2 DEF q
<1>4. Liquidation([p EXCEPT !["leverage"] = p["leverage"] ** Half]) = at(Two ** imr, p.mmr)
  <2> DEFINE q == [p EXCEPT !["leverage"] = p["leverage"] ** Half]
  <2>1. Changed(p, q, "leverage", p["leverage"] ** Half)
    BY <1>1, ChangesOne
  <2> HIDE DEF q
  <2>2. One // (p["leverage"] ** Half) = Two ** imr
    BY <1>1, HalvedDivisor
  <2>3. Liquidation(q) = at(One // (p["leverage"] ** Half), p.mmr)
    BY <1>1, <2>1 DEF Changed, Liquidation, LiquidationFactor, Signed
  <2> QED
    BY <2>2, <2>3 DEF q
<1> HIDE DEF imr, at
<1>5. Tells("liquidation_price", p, "forget mmr", at(imr, Zero))
  <2>1. at(imr, Zero) = Compute("liquidation_price", [p EXCEPT !["mmr"] = Zero])
    BY <1>2, <1>3
  <2>2. MisledBy("forget mmr", p) = [p EXCEPT !["mmr"] = Zero]
    BY MistakesBySign, Zenon
  <2> QED
    BY <2>1, <2>2, Told, Zenon
<1>6. Tells("liquidation_price", p, sign, at(imr, Neg(p.mmr)))
  <2>1. MisledBy(sign, p) = [p EXCEPT !["mmr"] = Neg(p["mmr"])]
    BY MistakesBySign, Zenon
  <2> HIDE DEF sign
  <2> QED
    BY <1>2, <1>3, <2>1, Told, Zenon
<1>7. Tells("liquidation_price", p, "double the cushion", at(Two ** imr, p.mmr))
  <2> DEFINE q == [p EXCEPT !["leverage"] = p["leverage"] ** Half]
  <2>1. at(Two ** imr, p.mmr) = Compute("liquidation_price", q)
    BY <1>2, <1>4
  <2>2. MisledBy("double the cushion", p) = q
    BY MistakesByPart, Zenon
  <2> QED
    BY <2>1, <2>2, Told, Zenon
<1>8. LiquidationMistakes(p)
        = << <<"forget mmr", at(imr, Zero)>>, <<sign, at(imr, Neg(p.mmr))>>,
             <<"double the cushion", at(Two ** imr, p.mmr)>> >>
  BY Zenon DEF LiquidationMistakes, imr, at, Zero
<1> HIDE DEF sign
<1> QED
  BY <1>5, <1>6, <1>7, <1>8, ThreeTell, Zenon

LEMMA FundingTells ==
  ASSUME NEW p, Measured("funding_payment", p), NEW i \in 1..3
  PROVE  Tells("funding_payment", p, FundingMistakes(p)[i][1], FundingMistakes(p)[i][2])
<1> DEFINE due == p.notional ** p.rate
<1>1. /\ "notional" \in DOMAIN p /\ "rate" \in DOMAIN p /\ "side" \in DOMAIN p
      /\ IsNumber(p["notional"]) /\ IsNumber(p["rate"])
  BY DEF Measured, Arguments
<1>2. \A q : Compute("funding_payment", q) = Funding(q)
  BY DEF Compute
<1>3. Funding(p) = Signed(p, due) /\ IsNumber(due)
  BY <1>1, OperationsAreNumbers DEF Funding
<1>4. Funding([p EXCEPT !["side"] = OtherSide(p)]) = Neg(Funding(p))
  <2> DEFINE q == [p EXCEPT !["side"] = OtherSide(p)]
  <2>1. Changed(p, q, "side", OtherSide(p))
    BY <1>1, ChangesOne
  <2> HIDE DEF q
  <2>2. Funding(q) = Signed(q, due)
    BY <1>1, <2>1 DEF Changed, Funding
  <2> HIDE DEF due
  <2>3. Signed(q, due) = Neg(Signed(p, due))
    BY <1>1, <1>3, <2>1, NegatedTwice DEF Changed, Signed, OtherSide
  <2> QED
    BY <1>3, <2>2, <2>3 DEF q
<1>5. ASSUME NEW part, IsNumber(part)
      PROVE  Funding([p EXCEPT !["rate"] = p["rate"] ** part]) = Funding(p) ** part
  <2> DEFINE q == [p EXCEPT !["rate"] = p["rate"] ** part]
  <2>1. Changed(p, q, "rate", p["rate"] ** part)
    BY <1>1, ChangesOne
  <2> HIDE DEF q
  <2>2. Funding(q) = Signed(p, p["notional"] ** (p["rate"] ** part))
    BY <1>1, <2>1 DEF Changed, Funding, Signed
  <2>3. p["notional"] ** (p["rate"] ** part) = due ** part
    BY <1>1, <1>5, TimesAssociates
  <2> HIDE DEF due
  <2>4. Signed(p, due ** part) = Signed(p, due) ** part
    BY <1>3, <1>5, NegatedProduct DEF Signed
  <2> QED
    BY <1>3, <2>2, <2>3, <2>4 DEF q
<1>6. IsNumber(Two) /\ IsNumber(Half)
  BY HalfIsNumber, WholeIsNumber DEF Two
<1>7. Funding(p) // Two = Funding(p) ** Half
  <2> HIDE DEF due
  <2>1. IsNumber(Signed(p, due))
    BY <1>3, OperationsAreNumbers DEF Signed
  <2> QED
    BY <1>3, <2>1, QuotientIsPart DEF Two, Half
<1>8. Tells("funding_payment", p, "wrong side", Neg(Funding(p)))
  <2>1. Neg(Funding(p)) = Compute("funding_payment", [p EXCEPT !["side"] = OtherSide(p)])
    BY <1>2, <1>4
  <2>2. MisledBy("wrong side", p) = [p EXCEPT !["side"] = OtherSide(p)]
    BY MistakesBySign, Zenon
  <2> QED
    BY <2>1, <2>2, Told, Zenon
<1>9. Tells("funding_payment", p, "two intervals", Funding(p) ** Two)
  <2>1. Funding(p) ** Two = Compute("funding_payment", [p EXCEPT !["rate"] = p["rate"] ** Two])
    BY <1>2, <1>5, <1>6
  <2>2. MisledBy("two intervals", p) = [p EXCEPT !["rate"] = p["rate"] ** Two]
    BY MistakesByPart, Zenon
  <2> QED
    BY <2>1, <2>2, Told, Zenon
<1>10. Tells("funding_payment", p, "half an interval", Funding(p) // Two)
  <2>1. Funding(p) // Two = Compute("funding_payment", [p EXCEPT !["rate"] = p["rate"] ** Half])
    BY <1>2, <1>5, <1>6, <1>7
  <2>2. MisledBy("half an interval", p) = [p EXCEPT !["rate"] = p["rate"] ** Half]
    BY MistakesByPart, Zenon
  <2> QED
    BY <2>1, <2>2, Told, Zenon
<1> QED
  BY <1>8, <1>9, <1>10, ThreeTell, Zenon DEF FundingMistakes

LEMMA PartsAreNumbers ==
  /\ IsNumber(Two) /\ IsNumber(Half) /\ IsNumber(Zero) /\ IsNumber(One)
  /\ \A a : IsNumber(a) => a // Two = a ** Half
BY HalfIsNumber, WholeIsNumber, QuotientIsPart DEF Two, Half, Zero, One

LEMMA InitialMarginTells ==
  ASSUME NEW p, Measured("initial_margin", p), NEW i \in 1..3
  PROVE  Tells("initial_margin", p, InitialMarginMistakes(p)[i][1], InitialMarginMistakes(p)[i][2])
<1> DEFINE notional == p.entry ** p.quantity
           leverage == p.leverage
           less == IF leverage[1] > leverage[2] THEN notional // (leverage -- One) ELSE notional ** Two
<1>1. /\ "entry" \in DOMAIN p /\ "quantity" \in DOMAIN p /\ "leverage" \in DOMAIN p
      /\ IsNumber(p["entry"]) /\ IsNumber(p["quantity"]) /\ IsNumber(p["leverage"])
      /\ Positive(p["leverage"])
  BY DEF Measured, Arguments
<1>2. \A q : Compute("initial_margin", q) = InitialMargin(q)
  BY DEF Compute
<1>3. InitialMargin([p EXCEPT !["quantity"] = p["quantity"] ** Half])
        = (notional // p.leverage) // Two
  <2> DEFINE q == [p EXCEPT !["quantity"] = p["quantity"] ** Half]
  <2>1. Changed(p, q, "quantity", p["quantity"] ** Half)
    BY <1>1, ChangesOne
  <2> HIDE DEF q
  <2>2. InitialMargin(q) = (p["entry"] ** (p["quantity"] ** Half)) // p["leverage"]
    BY <1>1, <2>1 DEF Changed, InitialMargin
  <2>3. p["entry"] ** (p["quantity"] ** Half) = notional ** Half /\ IsNumber(notional)
    <3>1. p["entry"] ** (p["quantity"] ** Half) = notional ** Half
      BY <1>1, PartsAreNumbers, TimesAssociates
    <3>2. IsNumber(notional)
      BY <1>1, OperationsAreNumbers
    <3> QED
      BY <3>1, <3>2
  <2> HIDE DEF notional
  <2>4. (notional ** Half) // p["leverage"] = (notional // p["leverage"]) ** Half
    BY <1>1, <2>3, PartsAreNumbers, QuotientTimes
  <2>5. IsNumber(notional // p["leverage"])
    BY <1>1, <2>3, OperationsAreNumbers
  <2>6. (notional // p["leverage"]) ** Half = (notional // p["leverage"]) // Two
    BY <2>5, PartsAreNumbers
  <2> QED
    BY <2>2, <2>3, <2>4, <2>6 DEF q
<1>4. ASSUME NEW l PROVE InitialMargin([p EXCEPT !["leverage"] = l]) = notional // l
  <2> DEFINE q == [p EXCEPT !["leverage"] = l]
  <2>1. Changed(p, q, "leverage", l)
    BY <1>1, ChangesOne
  <2> HIDE DEF q
  <2>2. InitialMargin(q) = notional // l
    BY <1>1, <2>1 DEF Changed, InitialMargin
  <2> QED
    BY <2>2 DEF q
<1>5. Tells("initial_margin", p, "half the position", (notional // leverage) // Two)
  <2>1. (notional // leverage) // Two
          = Compute("initial_margin", [p EXCEPT !["quantity"] = p["quantity"] ** Half])
    BY <1>2, <1>3
  <2>2. MisledBy("half the position", p) = [p EXCEPT !["quantity"] = p["quantity"] ** Half]
    BY MistakesByPart, Zenon
  <2> QED
    BY <2>1, <2>2, Told, Zenon
<1>6. Tells("initial_margin", p, "leverage minus one", less)
  <2>1. CASE leverage[1] > leverage[2]
    <3>1. less = Compute("initial_margin", [p EXCEPT !["leverage"] = p["leverage"] -- One])
      BY <1>2, <1>4, <2>1
    <3>2. MisledBy("leverage minus one", p) = [p EXCEPT !["leverage"] = p["leverage"] -- One]
      BY <2>1, MistakesByTwo, Zenon
    <3> QED
      BY <3>1, <3>2, Told, Zenon
  <2>2. CASE ~(leverage[1] > leverage[2])
    BY <2>2, MistakesByTwo, Zenon DEF Tells
  <2> QED
    BY <2>1, <2>2, Zenon
<1>7. Tells("initial_margin", p, "leverage plus one", notional // (leverage ++ One))
  <2>1. notional // (leverage ++ One)
          = Compute("initial_margin", [p EXCEPT !["leverage"] = p["leverage"] ++ One])
    BY <1>2, <1>4
  <2>2. MisledBy("leverage plus one", p) = [p EXCEPT !["leverage"] = p["leverage"] ++ One]
    BY MistakesByTwo, Zenon
  <2> QED
    BY <2>1, <2>2, Told, Zenon
<1> QED
  BY <1>5, <1>6, <1>7, ThreeTell, Zenon DEF InitialMarginMistakes

LEMMA NetPnlTells ==
  ASSUME NEW p, Measured("net_pnl", p), NEW i \in 1..3
  PROVE  Tells("net_pnl", p, NetPnlMistakes(p)[i][1], NetPnlMistakes(p)[i][2])
<1> DEFINE moved == p.quantity ** (p.exit -- p.entry)
           filled == p.entry ++ p.exit
           gross == PnlGross(p)
           fees == PnlFees(p)
<1>1. /\ "entry" \in DOMAIN p /\ "exit" \in DOMAIN p /\ "quantity" \in DOMAIN p
      /\ "side" \in DOMAIN p /\ "fee_rate" \in DOMAIN p
      /\ IsNumber(p["entry"]) /\ IsNumber(p["exit"]) /\ IsNumber(p["quantity"])
      /\ IsNumber(p["fee_rate"])
  BY DEF Measured, Arguments
<1>2. \A q : Compute("net_pnl", q) = PnlGross(q) -- PnlFees(q)
  BY DEF Compute, NetPnl
<1>3. IsNumber(moved) /\ IsNumber(filled)
  <2>1. IsNumber(p["exit"] -- p["entry"])
    BY <1>1, OperationsAreNumbers
  <2> QED
    BY <1>1, <2>1, OperationsAreNumbers
<1>4. gross = Signed(p, moved) /\ fees = (p["fee_rate"] ** p["quantity"]) ** filled
  BY DEF PnlGross, PnlFees
<1>5. ASSUME NEW rate
      PROVE  LET q == [p EXCEPT !["fee_rate"] = rate]
             IN  PnlGross(q) = gross /\ PnlFees(q) = (rate ** p["quantity"]) ** filled
  <2> DEFINE q == [p EXCEPT !["fee_rate"] = rate]
  <2>1. Changed(p, q, "fee_rate", rate)
    BY <1>1, ChangesOne
  <2> HIDE DEF q
  <2>2. PnlGross(q) = gross /\ PnlFees(q) = (rate ** p["quantity"]) ** filled
    BY <1>1, <2>1 DEF Changed, PnlGross, PnlFees, Signed
  <2> QED
    BY <2>2 DEF q
<1> HIDE DEF moved, filled
<1>6. IsNumber(gross)
  BY <1>3, <1>4, OperationsAreNumbers DEF Signed
<1>7. IsNumber(p["fee_rate"] ** p["quantity"]) /\ IsNumber(fees)
  BY <1>1, <1>3, <1>4, OperationsAreNumbers
<1>8. LET q == [p EXCEPT !["side"] = OtherSide(p)]
      IN  PnlGross(q) = Neg(gross) /\ PnlFees(q) = fees
  <2> DEFINE q == [p EXCEPT !["side"] = OtherSide(p)]
  <2>1. Changed(p, q, "side", OtherSide(p))
    BY <1>1, ChangesOne
  <2> HIDE DEF q
  <2>2. PnlGross(q) = Signed(q, moved) /\ PnlFees(q) = fees
    BY <1>1, <2>1 DEF Changed, PnlGross, PnlFees, moved
  <2>3. Signed(q, moved) = Neg(gross)
    BY <1>1, <1>3, <1>4, <2>1, NegatedTwice DEF Changed, Signed, OtherSide
  <2> QED
    BY <2>2, <2>3 DEF q
<1> HIDE DEF gross, fees
<1>9. (Zero ** p["quantity"]) ** filled = Zero
  BY <1>1, <1>3, TimesZero
<1>10. ((p["fee_rate"] ** Half) ** p["quantity"]) ** filled = fees // Two
  <2>1. (p["fee_rate"] ** Half) ** p["quantity"] = (p["fee_rate"] ** p["quantity"]) ** Half
    BY <1>1, PartsAreNumbers, TimesSwaps
  <2>2. ((p["fee_rate"] ** p["quantity"]) ** Half) ** filled
          = ((p["fee_rate"] ** p["quantity"]) ** filled) ** Half
    BY <1>3, <1>7, PartsAreNumbers, TimesSwaps
  <2> QED
    BY <1>4, <1>7, <2>1, <2>2, PartsAreNumbers
<1>11. Tells("net_pnl", p, "forget fees", gross)
  <2>1. gross = Compute("net_pnl", [p EXCEPT !["fee_rate"] = Zero])
    BY <1>2, <1>5, <1>6, <1>9, PlusZero
  <2>2. MisledBy("forget fees", p) = [p EXCEPT !["fee_rate"] = Zero]
    BY MistakesBySign, Zenon
  <2> QED
    BY <2>1, <2>2, Told, Zenon
<1>12. Tells("net_pnl", p, "fee on one fill", gross -- (fees // Two))
  <2>1. gross -- (fees // Two) = Compute("net_pnl", [p EXCEPT !["fee_rate"] = p["fee_rate"] ** Half])
    BY <1>2, <1>5, <1>10
  <2>2. MisledBy("fee on one fill", p) = [p EXCEPT !["fee_rate"] = p["fee_rate"] ** Half]
    BY MistakesByPart, Zenon
  <2> QED
    BY <2>1, <2>2, Told, Zenon
<1>13. Tells("net_pnl", p, "move the wrong way round", Neg(gross) -- fees)
  <2>1. Neg(gross) -- fees = Compute("net_pnl", [p EXCEPT !["side"] = OtherSide(p)])
    BY <1>2, <1>8
  <2>2. MisledBy("move the wrong way round", p) = [p EXCEPT !["side"] = OtherSide(p)]
    BY MistakesBySign, Zenon
  <2> QED
    BY <2>1, <2>2, Told, Zenon
<1> QED
  BY <1>11, <1>12, <1>13, ThreeTell, Zenon DEF NetPnlMistakes, gross, fees

\* The supply, the maximal supply or the price is taken too large or too small.
LEMMA MarketCapTells ==
  ASSUME NEW p, Measured("market_cap", p), NEW i \in 1..3
  PROVE  Tells("market_cap", p, MarketCapMistakes(p)[i][1], MarketCapMistakes(p)[i][2])
<1>1. /\ "price" \in DOMAIN p /\ "circulating" \in DOMAIN p
      /\ IsNumber(p["price"]) /\ IsNumber(p["circulating"])
  BY DEF Measured, Arguments
<1>2. ASSUME NEW part, IsNumber(part)
      PROVE  MarketCap(p) ** part
               = Compute("market_cap", [p EXCEPT !["circulating"] = p["circulating"] ** part])
  <2> DEFINE q == [p EXCEPT !["circulating"] = p["circulating"] ** part]
  <2>1. Changed(p, q, "circulating", p["circulating"] ** part)
    BY <1>1, ChangesOne
  <2> HIDE DEF q
  <2>2. Compute("market_cap", q) = p["price"] ** (p["circulating"] ** part)
    BY <1>1, <2>1 DEF Changed, Compute, MarketCap
  <2>3. MarketCap(p) ** part = p["price"] ** (p["circulating"] ** part)
    BY <1>1, <1>2, TimesAssociates DEF MarketCap
  <2> QED
    BY <2>2, <2>3 DEF q
<1>3. ASSUME NEW mistake, NEW part, IsNumber(part),
             MisledBy(mistake, p) = [p EXCEPT !["circulating"] = p["circulating"] ** part]
      PROVE  Tells("market_cap", p, mistake, MarketCap(p) ** part)
  BY <1>2, <1>3, Told, Zenon
<1>4. Tells("market_cap", p, "1.5 times the supply", MarketCap(p) ** <<3, 2>>)
  BY <1>3, FactorsAreNumbers, MistakesByPart, Zenon
<1>5. Tells("market_cap", p, "0.6 times the supply", MarketCap(p) ** <<3, 5>>)
  BY <1>3, FactorsAreNumbers, MistakesByPart, Zenon
<1>6. Tells("market_cap", p, "double-count the supply", MarketCap(p) ** Two)
  BY <1>3, PartsAreNumbers, MistakesByPart, Zenon
<1> QED
  BY <1>4, <1>5, <1>6, ThreeTell, Zenon DEF MarketCapMistakes

LEMMA FdvTells ==
  ASSUME NEW p, Measured("fdv", p), NEW i \in 1..3
  PROVE  Tells("fdv", p, FdvMistakes(p)[i][1], FdvMistakes(p)[i][2])
<1>1. /\ "price" \in DOMAIN p /\ "max_supply" \in DOMAIN p
      /\ IsNumber(p["price"]) /\ IsNumber(p["max_supply"])
  BY DEF Measured, Arguments
<1>2. ASSUME NEW part, IsNumber(part)
      PROVE  /\ Fdv(p) ** part
                  = Compute("fdv", [p EXCEPT !["max_supply"] = p["max_supply"] ** part])
             /\ Fdv(p) ** part = Compute("fdv", [p EXCEPT !["price"] = p["price"] ** part])
  <2> DEFINE q == [p EXCEPT !["max_supply"] = p["max_supply"] ** part]
             r == [p EXCEPT !["price"] = p["price"] ** part]
  <2>1. /\ Changed(p, q, "max_supply", p["max_supply"] ** part)
        /\ Changed(p, r, "price", p["price"] ** part)
    BY <1>1, ChangesOne
  <2> HIDE DEF q, r
  <2>2. /\ Compute("fdv", q) = p["price"] ** (p["max_supply"] ** part)
        /\ Compute("fdv", r) = (p["price"] ** part) ** p["max_supply"]
    BY <1>1, <2>1 DEF Changed, Compute, Fdv
  <2>3. Fdv(p) ** part = p["price"] ** (p["max_supply"] ** part)
    BY <1>1, <1>2, TimesAssociates DEF Fdv
  <2>4. Fdv(p) ** part = (p["price"] ** part) ** p["max_supply"]
    BY <1>1, <1>2, TimesSwaps DEF Fdv
  <2> QED
    BY <2>2, <2>3, <2>4 DEF q, r
<1>3. ASSUME NEW mistake, NEW part, IsNumber(part),
             \/ MisledBy(mistake, p) = [p EXCEPT !["max_supply"] = p["max_supply"] ** part]
             \/ MisledBy(mistake, p) = [p EXCEPT !["price"] = p["price"] ** part]
      PROVE  Tells("fdv", p, mistake, Fdv(p) ** part)
  BY <1>2, <1>3, Told, Zenon
<1>4. Tells("fdv", p, "0.5 times the supply", Fdv(p) ** <<1, 2>>)
  BY <1>3, PartsAreNumbers, MistakesByPart, Zenon DEF Half
<1>5. Tells("fdv", p, "1.4 times the supply", Fdv(p) ** <<7, 5>>)
  BY <1>3, FactorsAreNumbers, MistakesByPart, Zenon
<1>6. Tells("fdv", p, "0.9 times the price", Fdv(p) ** <<9, 10>>)
  BY <1>3, FactorsAreNumbers, MistakesByPart, Zenon
<1> QED
  BY <1>4, <1>5, <1>6, ThreeTell, Zenon DEF FdvMistakes

LEMMA PositionSizeTells ==
  ASSUME NEW p, Measured("position_size_from_risk", p), NEW i \in 1..3
  PROVE  Tells("position_size_from_risk", p, PositionSizeMistakes(p)[i][1], PositionSizeMistakes(p)[i][2])
<1> DEFINE risked == p["equity"] ** p["risk_pct"]
           size == PositionSize(p)
<1>1. /\ "equity" \in DOMAIN p /\ "risk_pct" \in DOMAIN p /\ "stop_distance" \in DOMAIN p
      /\ IsNumber(p["equity"]) /\ IsNumber(p["risk_pct"]) /\ IsNumber(p["stop_distance"])
      /\ Positive(p["stop_distance"])
  BY DEF Measured, Arguments
<1>2. IsNumber(risked)
  BY <1>1, OperationsAreNumbers
<1>3. size = risked // p["stop_distance"]
  BY DEF PositionSize
<1>4. IsNumber(size)
  <2> HIDE DEF risked, size
  <2> QED
    BY <1>1, <1>2, <1>3, OperationsAreNumbers
<1>5. ASSUME NEW part, IsNumber(part)
      PROVE  size ** part
               = Compute("position_size_from_risk", [p EXCEPT !["risk_pct"] = p["risk_pct"] ** part])
  <2> DEFINE q == [p EXCEPT !["risk_pct"] = p["risk_pct"] ** part]
  <2>1. Changed(p, q, "risk_pct", p["risk_pct"] ** part)
    BY <1>1, ChangesOne
  <2> HIDE DEF q
  <2>2. Compute("position_size_from_risk", q)
          = (p["equity"] ** (p["risk_pct"] ** part)) // p["stop_distance"]
    BY <1>1, <2>1 DEF Changed, Compute, PositionSize
  <2>3. p["equity"] ** (p["risk_pct"] ** part) = risked ** part
    BY <1>1, <1>5, TimesAssociates
  <2> HIDE DEF risked, size
  <2>4. size ** part = (risked ** part) // p["stop_distance"]
    BY <1>1, <1>2, <1>3, <1>5, QuotientTimes
  <2> QED
    BY <2>2, <2>3, <2>4 DEF q
<1> HIDE DEF size
<1>6. ASSUME NEW mistake, NEW part, IsNumber(part), NEW value, value = size ** part,
             MisledBy(mistake, p) = [p EXCEPT !["risk_pct"] = p["risk_pct"] ** part]
      PROVE  Tells("position_size_from_risk", p, mistake, value)
  BY <1>5, <1>6, Told, Zenon
<1>7. Two ** size = size ** Two /\ size // Two = size ** Half
  BY <1>4, PartsAreNumbers, TimesCommutes
<1>8. size // Whole(10) = size ** <<1, 10>>
  BY <1>4, QuotientIsPart
<1>9. Tells("position_size_from_risk", p, "double the risk", Two ** size)
  BY <1>6, <1>7, PartsAreNumbers, MistakesByPart, Zenon
<1>10. Tells("position_size_from_risk", p, "halve the risk", size // Two)
  BY <1>6, <1>7, PartsAreNumbers, MistakesByPart, Zenon
<1>11. Tells("position_size_from_risk", p, "ten times too small", size // Whole(10))
  BY <1>6, <1>8, FactorsAreNumbers, MistakesByPart, Zenon
<1> QED
  BY <1>9, <1>10, <1>11, ThreeTell, Zenon DEF PositionSizeMistakes, size

LEMMA ExpectancyTells ==
  ASSUME NEW p, Measured("expectancy", p), NEW i \in 1..3
  PROVE  Tells("expectancy", p, ExpectancyMistakes(p)[i][1], ExpectancyMistakes(p)[i][2])
<1> DEFINE won == p.win_rate ** p.avg_win
           rest == One -- p.win_rate
<1>1. /\ "win_rate" \in DOMAIN p /\ "avg_win" \in DOMAIN p /\ "avg_loss" \in DOMAIN p
      /\ IsNumber(p["win_rate"]) /\ IsNumber(p["avg_win"]) /\ IsNumber(p["avg_loss"])
  BY DEF Measured, Arguments
<1>2. IsNumber(won) /\ IsNumber(rest)
  BY <1>1, PartsAreNumbers, OperationsAreNumbers
<1>3. ASSUME NEW loss
      PROVE  Compute("expectancy", [p EXCEPT !["avg_loss"] = loss]) = won -- (rest ** loss)
  <2> DEFINE q == [p EXCEPT !["avg_loss"] = loss]
  <2>1. Changed(p, q, "avg_loss", loss)
    BY <1>1, ChangesOne
  <2> HIDE DEF q
  <2>2. Compute("expectancy", q) = won -- (rest ** loss)
    BY <1>1, <2>1 DEF Changed, Compute, Expectancy
  <2> QED
    BY <2>2 DEF q
<1> HIDE DEF won, rest
<1>4. won -- (rest ** Neg(p.avg_loss)) = won ++ (rest ** p.avg_loss)
  <2>1. rest ** Neg(p.avg_loss) = Neg(rest ** p.avg_loss)
    BY <1>1, <1>2, NegatedProduct
  <2>2. IsNumber(rest ** p.avg_loss)
    BY <1>1, <1>2, OperationsAreNumbers
  <2> QED
    BY <1>2, <2>1, <2>2, MinusNegated
<1>5. won -- (rest ** Zero) = won
  BY <1>2, TimesZero, PlusZero
<1>6. Tells("expectancy", p, "win rate for losses too", won -- (p.win_rate ** p.avg_loss))
  BY MistakesByTwo, Zenon DEF Tells
<1>7. Tells("expectancy", p, "add the losing side", won ++ (rest ** p.avg_loss))
  <2>1. won ++ (rest ** p.avg_loss)
          = Compute("expectancy", [p EXCEPT !["avg_loss"] = Neg(p["avg_loss"])])
    BY <1>3, <1>4
  <2>2. MisledBy("add the losing side", p) = [p EXCEPT !["avg_loss"] = Neg(p["avg_loss"])]
    BY MistakesBySign, Zenon
  <2> QED
    BY <2>1, <2>2, Told, Zenon
<1>8. Tells("expectancy", p, "ignore the losing trades", won)
  <2>1. won = Compute("expectancy", [p EXCEPT !["avg_loss"] = Zero])
    BY <1>3, <1>5
  <2>2. MisledBy("ignore the losing trades", p) = [p EXCEPT !["avg_loss"] = Zero]
    BY MistakesBySign, Zenon
  <2> QED
    BY <2>1, <2>2, Told, Zenon
<1> QED
  BY <1>6, <1>7, <1>8, ThreeTell, Zenon DEF ExpectancyMistakes, won, rest

LEMMA NetDeltaTells ==
  ASSUME NEW p, Measured("net_delta", p), NEW i \in 1..3
  PROVE  Tells("net_delta", p, NetDeltaMistakes(p)[i][1], NetDeltaMistakes(p)[i][2])
<1>1. /\ "taker_buy" \in DOMAIN p /\ "taker_sell" \in DOMAIN p
      /\ IsNumber(p["taker_buy"]) /\ IsNumber(p["taker_sell"])
  BY DEF Measured, Arguments
<1>2. \A q : Compute("net_delta", q) = q["taker_buy"] -- q["taker_sell"]
  BY DEF Compute, NetDelta
<1>3. ASSUME NEW sold
      PROVE  Compute("net_delta", [p EXCEPT !["taker_sell"] = sold]) = p["taker_buy"] -- sold
  <2> DEFINE q == [p EXCEPT !["taker_sell"] = sold]
  <2>1. Changed(p, q, "taker_sell", sold)
    BY <1>1, ChangesOne
  <2> HIDE DEF q
  <2>2. Compute("net_delta", q) = p["taker_buy"] -- sold
    BY <1>1, <1>2, <2>1 DEF Changed
  <2> QED
    BY <2>2 DEF q
<1>4. Tells("net_delta", p, "add the two sides", p.taker_buy ++ p.taker_sell)
  <2>1. p.taker_buy ++ p.taker_sell
          = Compute("net_delta", [p EXCEPT !["taker_sell"] = Neg(p["taker_sell"])])
    BY <1>1, <1>3, MinusNegated
  <2>2. MisledBy("add the two sides", p) = [p EXCEPT !["taker_sell"] = Neg(p["taker_sell"])]
    BY MistakesBySign, Zenon
  <2> QED
    BY <2>1, <2>2, Told, Zenon
<1>5. Tells("net_delta", p, "sell minus buy", Neg(NetDelta(p)))
  <2> DEFINE half == [p EXCEPT !["taker_buy"] = p["taker_sell"]]
             q == [half EXCEPT !["taker_sell"] = p["taker_buy"]]
  <2>1. Neg(NetDelta(p)) = Compute("net_delta", q)
    <3>1. q["taker_buy"] = p["taker_sell"] /\ q["taker_sell"] = p["taker_buy"]
      BY <1>1
    <3> HIDE DEF q
    <3> QED
      BY <1>1, <1>2, <3>1, NegatedDifference DEF NetDelta
  <2>2. MisledBy("sell minus buy", p) = q
    BY MistakesByTwo, Zenon
  <2> QED
    BY <2>1, <2>2, Told, Zenon
<1>6. Tells("net_delta", p, "only the buying", p.taker_buy)
  <2>1. p.taker_buy = Compute("net_delta", [p EXCEPT !["taker_sell"] = Zero])
    BY <1>1, <1>3, PlusZero
  <2>2. MisledBy("only the buying", p) = [p EXCEPT !["taker_sell"] = Zero]
    BY MistakesBySign, Zenon
  <2> QED
    BY <2>1, <2>2, Told, Zenon
<1> QED
  BY <1>4, <1>5, <1>6, ThreeTell, Zenon DEF NetDeltaMistakes

\* No parameters make the mistakes of a premium.
LEMMA VenuePremiumTells ==
  ASSUME NEW p, NEW i \in 1..3
  PROVE  Tells("venue_premium_pct", p, VenuePremiumMistakes(p)[i][1], VenuePremiumMistakes(p)[i][2])
<1> DEFINE other == ((p.price_b -- p.price_a) // p.price_b) ** Whole(100)
           back == Neg(VenuePremium(p))
           bare == (p.price_b -- p.price_a) // p.price_a
<1>1. VenuePremiumMistakes(p)
        = << <<"divide by the other venue", other>>, <<"premium the wrong way round", back>>,
             <<"no percentage", bare>> >>
  BY Zenon DEF VenuePremiumMistakes
<1> HIDE DEF other, back, bare
<1>2. Tells("venue_premium_pct", p, "divide by the other venue", other)
  BY MistakesByTwo, Zenon DEF Tells
<1>3. Tells("venue_premium_pct", p, "premium the wrong way round", back)
  BY MistakesByTwo, Zenon DEF Tells
<1>4. Tells("venue_premium_pct", p, "no percentage", bare)
  BY MistakesByTwo, Zenon DEF Tells
<1> QED
  BY <1>1, <1>2, <1>3, <1>4, ThreeTell, Zenon

LEMMA StyleNetTells ==
  ASSUME NEW p, Measured("style_net_result", p), NEW i \in 1..3
  PROVE  Tells("style_net_result", p, StyleNetMistakes(p)[i][1], StyleNetMistakes(p)[i][2])
<1> DEFINE gross == p.notional ** p.gross_pct
           fee == (p["fee_rate"] ** p["notional"]) ** Two
           paid == p["funding_rate"] ** p["notional"]
           fees(rate) == (rate ** p["notional"]) ** Two
<1>1. /\ "notional" \in DOMAIN p /\ "gross_pct" \in DOMAIN p /\ "style" \in DOMAIN p
      /\ "fee_rate" \in DOMAIN p /\ "round_trips" \in DOMAIN p
      /\ "funding_rate" \in DOMAIN p /\ "funding_intervals" \in DOMAIN p
      /\ IsNumber(p["notional"]) /\ IsNumber(p["gross_pct"]) /\ IsNumber(p["fee_rate"])
      /\ IsNumber(p["round_trips"]) /\ IsNumber(p["funding_rate"])
      /\ IsNumber(p["funding_intervals"])
  BY DEF Measured, Arguments
<1>2. \A q : Compute("style_net_result", q) = (q["notional"] ** q["gross_pct"]) -- StyleCost(q, StyleFee(q))
  BY DEF Compute, StyleNet
<1>3. IsNumber(gross) /\ IsNumber(p["fee_rate"] ** p["notional"]) /\ IsNumber(paid)
  BY <1>1, OperationsAreNumbers
<1>4. IsNumber(fee)
  BY <1>3, PartsAreNumbers, OperationsAreNumbers
<1>5. StyleFee(p) = fee
  BY DEF StyleFee
<1>6. Tells("style_net_result", p, "ignore trading costs", gross)
  <2> DEFINE free == [p EXCEPT !["fee_rate"] = Zero]
             q == [free EXCEPT !["funding_rate"] = Zero]
  <2>1. /\ q["fee_rate"] = Zero /\ q["funding_rate"] = Zero
        /\ \A name \in DOMAIN p \ {"fee_rate", "funding_rate"} : q[name] = p[name]
    BY <1>1
  <2>2. MisledBy("ignore trading costs", p) = q
    BY MistakesByTwo, Zenon
  <2> HIDE DEF q
  <2>3. StyleFee(q) = (Zero ** p["notional"]) ** Two
    BY <1>1, <2>1 DEF StyleFee
  <2>4. StyleFee(q) = Zero
    BY <1>1, <2>3, PartsAreNumbers, TimesZero
  <2>5. (Zero ** p["notional"]) ** p["funding_intervals"] = Zero
        /\ Zero ** p["round_trips"] = Zero /\ Zero ++ Zero = Zero
    BY <1>1, PartsAreNumbers, TimesZero, PlusZero
  <2>6. StyleCost(q, Zero) = Zero
    BY <1>1, <2>1, <2>5 DEF StyleCost
  <2>7. q["notional"] ** q["gross_pct"] = gross
    BY <1>1, <2>1
  <2> HIDE DEF gross
  <2>8. gross = Compute("style_net_result", q)
    BY <1>2, <1>3, <2>4, <2>6, <2>7, PlusZero
  <2> QED
    BY <2>2, <2>8, Told, Zenon
<1>7. Tells("style_net_result", p, "fee on one fill", gross -- StyleCost(p, StyleFee(p) // Two))
  <2> DEFINE q == [p EXCEPT !["fee_rate"] = p["fee_rate"] ** Half]
  <2>1. Changed(p, q, "fee_rate", p["fee_rate"] ** Half)
    BY <1>1, ChangesOne
  <2>2. MisledBy("fee on one fill", p) = q
    BY MistakesByPart, Zenon
  <2> HIDE DEF q
  <2>3. StyleFee(q) = ((p["fee_rate"] ** Half) ** p["notional"]) ** Two
    BY <1>1, <2>1 DEF Changed, StyleFee
  <2>4. (p["fee_rate"] ** Half) ** p["notional"] = (p["fee_rate"] ** p["notional"]) ** Half
    BY <1>1, PartsAreNumbers, TimesSwaps
  <2>5. ((p["fee_rate"] ** p["notional"]) ** Half) ** Two = fee ** Half
    BY <1>3, PartsAreNumbers, TimesSwaps
  <2> HIDE DEF fee
  <2>6. StyleFee(q) = StyleFee(p) // Two
    BY <1>4, <1>5, <2>3, <2>4, <2>5, PartsAreNumbers
  <2>7. \A f : StyleCost(q, f) = StyleCost(p, f)
    BY <1>1, <2>1 DEF Changed, StyleCost
  <2>8. q["notional"] ** q["gross_pct"] = gross
    BY <1>1, <2>1 DEF Changed
  <2>9. gross -- StyleCost(p, StyleFee(p) // Two) = Compute("style_net_result", q)
    BY <1>2, <2>6, <2>7, <2>8
  <2> QED
    BY <2>2, <2>9, Told, Zenon
<1>8. Tells("style_net_result", p, "one round trip, no funding", gross -- StyleFee(p))
  <2> DEFINE once == [p EXCEPT !["round_trips"] = One]
             q == [once EXCEPT !["funding_intervals"] = Zero]
  <2>1. /\ q["round_trips"] = One /\ q["funding_intervals"] = Zero
        /\ \A name \in DOMAIN p \ {"round_trips", "funding_intervals"} : q[name] = p[name]
    BY <1>1
  <2>2. MisledBy("one round trip, no funding", p) = q
    BY MistakesByTwo, Zenon
  <2> HIDE DEF q
  <2>3. StyleFee(q) = fee
    BY <1>1, <2>1 DEF StyleFee
  <2>4. fee ** One = fee /\ fee ++ Zero = fee /\ paid ** Zero = Zero
    BY <1>3, <1>4, TimesOne, TimesZero, PlusZero
  <2> HIDE DEF fee
  <2>5. StyleCost(q, fee) = fee
    BY <1>1, <2>1, <2>4 DEF StyleCost
  <2>6. q["notional"] ** q["gross_pct"] = gross
    BY <1>1, <2>1
  <2>7. gross -- StyleFee(p) = Compute("style_net_result", q)
    BY <1>2, <1>5, <2>3, <2>5, <2>6
  <2> QED
    BY <2>2, <2>7, Told, Zenon
<1> QED
  BY <1>6, <1>7, <1>8, ThreeTell, Zenon DEF StyleNetMistakes

\* Every mistake of every formula computes what it is told by.
LEMMA MistakesTell ==
  ASSUME NEW formula \in DOMAIN Arguments, NEW p, Measured(formula, p), NEW i \in 1..3
  PROVE  Tells(formula, p, Mistakes(formula, p)[i][1], Mistakes(formula, p)[i][2])
BY LiquidationTells, FundingTells, InitialMarginTells, NetPnlTells, MarketCapTells, FdvTells,
   PositionSizeTells, ExpectancyTells, NetDeltaTells, VenuePremiumTells, StyleNetTells
DEF Mistakes, Arguments

----------------------------------------------------------------------------
(* What a wrong option is explained by.                                    *)

LEMMA CalculationIsExplained ==
  ASSUME Fresh, NEW config, config.type = "calculation", config.formula \in DOMAIN Arguments,
         NEW seed \in CalculationSeeds(config), Len(Entries(config, seed.params)) = 4,
         Measured(config.formula, seed.params), NEW slot \in 1..4
  PROVE  LET units(q) == Quantized(Compute(config.formula, q), config.round)
         IN  Explained(Diagnosis(config, seed, slot), Payload(config, seed).values[slot],
                       units, seed.params)
<1> DEFINE p == seed.params
           E == Entries(config, p)
           k == seed.order[slot]
           units(q) == Quantized(Compute(config.formula, q), config.round)
           m == E[k].mistake
           v == E[k].value
<1>1. Diagnosis(config, seed, slot) = m /\ Payload(config, seed).values[slot] = v
  BY DEF Diagnosis, Payload, CalculationPayload, OptionsPage, Options, Arranged
<1>2. k \in 1..4
  BY ShuffleIsOne DEF CalculationSeeds
<1>3. Spread(E, RightEntry(config, p), WrongEntries(config, p)) /\ Len(E) = 4
  BY EntriesSpread
<1> HIDE DEF p, E, k
<1>4. DOMAIN E = 1..4
  BY <1>3, ListPlaces DEF Spread
<1>5. E[1].value = units(p) /\ E[1].mistake = Absent
  BY <1>3 DEF Spread, RightEntry, Entry
<1>6. ASSUME k = 1 PROVE m = Absent /\ v = units(p)
  BY <1>5, <1>6
<1>7. ASSUME k # 1
      PROVE  /\ m # Absent /\ v # units(p)
             /\ MisledBy(m, p) # Absent => v = units(MisledBy(m, p))
  <2>1. E[k] \in WrongEntries(config, p)
    BY <1>2, <1>3, <1>4, <1>7 DEF Spread
  <2>2. /\ m # Absent
        /\ m = "slip" \/ \E i \in 1..3 : E[k] = MistakenBy(config, p, i)
    BY <2>1, WrongIsMistaken
  <2>3. v # units(p)
    BY <1>2, <1>3, <1>4, <1>5, <1>7 DEF Spread
  <2>4. CASE m = "slip"
    BY <2>2, <2>3, <2>4, MistakesByTwo, Zenon
  <2>5. CASE \E i \in 1..3 : E[k] = MistakenBy(config, p, i)
    <3>1. PICK i \in 1..3 : E[k] = MistakenBy(config, p, i)
      BY <2>5
    <3> DEFINE mistake == Mistakes(config.formula, p)[i]
    <3>2. m = mistake[1] /\ v = Quantized(mistake[2], config.round)
      BY <3>1 DEF MistakenBy, Entry
    <3>3. Tells(config.formula, p, mistake[1], mistake[2])
      BY MistakesTell DEF p
    <3> HIDE DEF m, v, mistake
    <3>4. MisledBy(m, p) # Absent => mistake[2] = Compute(config.formula, MisledBy(m, p))
      BY <3>2, <3>3 DEF Tells
    <3>5. MisledBy(m, p) # Absent => v = units(MisledBy(m, p))
      BY <3>2, <3>4
    <3> QED
      BY <2>2, <2>3, <3>5 DEF m, v
  <2> QED
    BY <2>2, <2>4, <2>5
<1>8. /\ m = Absent <=> v = units(p)
      /\ m # Absent /\ MisledBy(m, p) # Absent => v = units(MisledBy(m, p))
  BY <1>6, <1>7
<1> HIDE DEF m, v
<1>9. Explained(m, v, units, p)
  BY <1>8 DEF Explained
<1> QED
  BY <1>1, <1>9 DEF p

\* For every course whose mistakes and slips fill the options and whose samples
\* are numbers with positive divisors, every seed and every shuffle: the mistake
\* that a worked solution names for a wrong option is one that leads to the very
\* number the option shows, where the formula itself computes it from the
\* misread parameters, and no wrong option shows the right number
\* (calculation.py:113-160, 209-233; formulas.py).
THEOREM DiagnosesAreTrue ==
  ASSUME Fresh, Promised, \A b \in DOMAIN Bundles : Measurable(Bundles[b])
  PROVE  Spec => []DiagnosesHold
<1>1. AnswersInvariant => DiagnosesHold
  <2> SUFFICES ASSUME AnswersInvariant, JustOpened, Config.type = "calculation",
                      NEW slot \in ToSet(shown.options)
               PROVE  LET units(q) == Quantized(Compute(Config.formula, q), Config.round)
                      IN  Explained(Diagnosis(Config, work.seed, slot), shown.values[slot],
                                    units, work.seed.params)
    BY Zenon DEF DiagnosesHold
  <2>1. /\ Answerable(Config) /\ work.seed \in Seeds(Config) /\ shown = Payload(Config, work.seed)
    BY PageIsAnswerable DEF AnswersInvariant, JustOpened
  <2>2. work.seed \in CalculationSeeds(Config) /\ work.seed.params \in Sampled(Config)
    BY <2>1 DEF Seeds, CalculationSeeds
  <2>3. Config.formula \in DOMAIN Arguments /\ Len(Entries(Config, work.seed.params)) = 4
    BY <2>1, <2>2 DEF Answerable, ValidConfig, ValidCalculation
  <2>4. Measured(Config.formula, work.seed.params)
    <3>1. Course = Bundles[bundle] /\ bundle \in DOMAIN Bundles
          /\ work.exercise \in DOMAIN Course.configs /\ Config = Course.configs[work.exercise]
      BY DEF AnswersInvariant, PageInvariant, LoadInvariant, JustOpened, Course, Config
    <3>2. Measurable(Course)
      BY <3>1
    <3> QED
      BY <2>2, <3>1, <3>2 DEF Measurable
  <2>5. slot \in 1..4
    <3> DEFINE slots == [s \in 1..4 |-> s]
    <3>1. shown.options = slots
      BY <2>1 DEF Payload, CalculationPayload, OptionsPage
    <3>2. ToSet(slots) = 1..4
      BY DEF ToSet
    <3> QED
      BY <3>1, <3>2
  <2> QED
    BY <2>1, <2>2, <2>3, <2>4, <2>5, CalculationIsExplained DEF Explained
<1>2. Spec => []AnswersInvariant
  BY AnswersInvariantHolds
<1> QED
  BY <1>1, <1>2, PTL

=============================================================================
