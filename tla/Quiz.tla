-------------------------------- MODULE Quiz --------------------------------
(***************************************************************************)
(* Quiz exercises (exercises/quiz.py): what the loader accepts, what a     *)
(* learner is shown and how an answer is graded.                           *)
(*                                                                         *)
(* A seed is what it makes random.Random draw: the variant, and for each   *)
(* salt the order of a shuffle.  A payload and an answer are mappings from *)
(* keys, as the JSON objects they travel in.  Texts are left out: they are *)
(* one per option, item or side of a pair.                                 *)
(***************************************************************************)
EXTENDS Integers, Sequences, FiniteSets, FiniteSetsExt, SequencesExt, TLC

CONSTANTS Absent,     \* a field that is not given
          Malformed   \* what grading answers to an answer it cannot read

----------------------------------------------------------------------------
\* Configurations

Ids(list) == {list[i].id : i \in DOMAIN list}
Distinct(list) == Cardinality(Ids(list)) = Len(list)
RightOptions(v) == {o \in ToSet(v.options) : o.correct}

Choosing == {"single_choice", "multi_select"}

\* _forbid: only the fields of the variant's own kind are given.
OnlyField(v, field) ==
  /\ field = "options" \/ v.options = << >>
  /\ field = "answer"  \/ v.answer = Absent
  /\ field = "items"   \/ v.items = << >>
  /\ field = "pairs"   \/ v.pairs = << >>

ValidVariant(v) ==
  \/ /\ v.kind \in Choosing
     /\ Len(v.options) >= 2 /\ Distinct(v.options)
     /\ v.kind = "single_choice" => Cardinality(RightOptions(v)) = 1
     /\ v.kind = "multi_select" =>
          Cardinality(RightOptions(v)) \in 1..(Len(v.options) - 1)
     /\ OnlyField(v, "options")
  \/ /\ v.kind = "true_false"
     /\ v.answer # Absent
     /\ OnlyField(v, "answer")
  \/ /\ v.kind = "ordering"
     /\ Len(v.items) >= 3 /\ Distinct(v.items)
     /\ {i.position : i \in ToSet(v.items)} = 1..Len(v.items)
     /\ OnlyField(v, "items")
  \/ /\ v.kind = "matching"
     /\ Len(v.pairs) >= 3 /\ Distinct(v.pairs)
     /\ OnlyField(v, "pairs")

ValidQuiz(config) ==
  /\ config.variants # << >>
  /\ Distinct(config.variants)
  /\ \A i \in DOMAIN config.variants : ValidVariant(config.variants[i])

----------------------------------------------------------------------------
\* Instances

\* What the shuffles of a variant permute.
Shuffled(v) == IF v.kind \in Choosing THEN v.options
               ELSE IF v.kind = "ordering" THEN v.items ELSE v.pairs

Shuffles(S) == {f \in [S -> S] : IsInjective(f)}
Orders(v) == Shuffles(DOMAIN Shuffled(v))

\* The first shuffle stands for the salts 0 and 1, which no variant both uses,
\* and the second for the salt 2.
QuizSeeds(config) ==
  UNION {{[variant |-> i, order |-> <<f, g>>] :
            f \in Orders(config.variants[i]), g \in Orders(config.variants[i])} :
         i \in DOMAIN config.variants}

VariantOf(config, seed) == config.variants[seed.variant]

\* Sides of a pair are named by the slot they are shown in.
Lefts(v, seed) == [slot \in DOMAIN v.pairs |-> seed.order[1][slot]]
Rights(v, seed) == [slot \in DOMAIN v.pairs |-> seed.order[2][slot]]

QuizPayload(config, seed) ==
  LET v == VariantOf(config, seed)
      shown(list) == [slot \in DOMAIN list |-> list[seed.order[1][slot]].id]
      slots == [s \in DOMAIN v.pairs |-> s]
  IN  CASE v.kind \in Choosing   -> [kind |-> v.kind, options |-> shown(v.options)]
        [] v.kind = "true_false" -> [kind |-> v.kind]
        [] v.kind = "ordering"   -> [kind |-> v.kind, items |-> shown(v.items)]
        [] v.kind = "matching"   -> [kind |-> v.kind, lefts |-> slots, rights |-> slots]

\* Fault: the sides are taken from one and the same shuffle.
QuizKey_OneShuffle(config, seed) ==
  LET v == VariantOf(config, seed)
      right == CHOOSE o \in RightOptions(v) : TRUE
      at(p) == (CHOOSE i \in ToSet(v.items) : i.position = p).id
  IN  CASE v.kind = "single_choice" -> [optionId |-> right.id]
        [] v.kind = "multi_select"  -> [optionIds |-> {o.id : o \in RightOptions(v)}]
        [] v.kind = "true_false"    -> [value |-> v.answer]
        [] v.kind = "ordering"      -> [order |-> [p \in DOMAIN v.items |-> at(p)]]
        [] v.kind = "matching"      -> [pairs |-> [s \in DOMAIN v.pairs |-> s]]

\* The answer that grades as correct, under the key an answer must have.
QuizKey(config, seed) ==
  LET v == VariantOf(config, seed)
      right == CHOOSE o \in RightOptions(v) : TRUE
      at(p) == (CHOOSE i \in ToSet(v.items) : i.position = p).id
      matching(s) == CHOOSE t \in DOMAIN v.pairs : Rights(v, seed)[t] = Lefts(v, seed)[s]
  IN  CASE v.kind = "single_choice" -> [optionId |-> right.id]
        [] v.kind = "multi_select"  -> [optionIds |-> {o.id : o \in RightOptions(v)}]
        [] v.kind = "true_false"    -> [value |-> v.answer]
        [] v.kind = "ordering"      -> [order |-> [p \in DOMAIN v.items |-> at(p)]]
        [] v.kind = "matching"      -> [pairs |-> [s \in DOMAIN v.pairs |-> matching(s)]]

\* Grading compares the value under the one key it knows.
GradeBy(key, answer) ==
  IF DOMAIN key \subseteq DOMAIN answer
    THEN [correct |-> \A k \in DOMAIN key : answer[k] = key[k], key |-> key]
    ELSE Malformed

\* The other kinds compare one field and reveal all that belongs to it.
ChoiceGrade(field, key, answer) ==
  IF field \in DOMAIN answer
    THEN [correct |-> answer[field] = key[field], key |-> key]
    ELSE Malformed

QuizGrade(config, seed, answer) == GradeBy(QuizKey(config, seed), answer)

=============================================================================
