------------------------------ MODULE Answers -------------------------------
(***************************************************************************)
(* Between an instance and its grade: the controls a learner composes an   *)
(* answer with (features/exercises of the frontend), and the reading back  *)
(* of a graded answer that the print export relies on                      *)
(* (exercises/reveal.py, content/print_export.py).                         *)
(***************************************************************************)
EXTENDS Quiz

Divergent == {"synthetic_chart", "fixture_chart"}
ChartTypes == Divergent \cup {"pattern_chart"}

----------------------------------------------------------------------------
\* Composing an answer.  type is the exercise's, draft what is chosen so far.

\* The field an answer is given in, and what a control starts from.
QuizField ==
  [single_choice |-> "optionId", multi_select |-> "optionIds", true_false |-> "value",
   ordering |-> "order", matching |-> "pairs"]
AnswerField(type, payload) ==
  CASE type \in Divergent       -> "divergence"
    [] type = "pattern_chart"   -> "label"
    [] type = "calculation"     -> "optionId"
    [] type = "quiz"            -> QuizField[payload.kind]

Blank(type, payload) ==
  CASE AnswerField(type, payload) = "optionIds" -> [optionIds |-> {}]
    [] AnswerField(type, payload) = "order"     -> [order |-> payload.items]
    [] AnswerField(type, payload) = "pairs"     -> [pairs |-> << >>]
    [] OTHER                                    -> << >>

\* moveItem: an item changes places with its neighbour.
Moved(order, i) == [order EXCEPT ![i] = order[i + 1], ![i + 1] = order[i]]

\* assignPair: a right side that is taken moves to the left side it is given to.
Assigned(pairs, left, right) ==
  [l \in {left} \cup {x \in DOMAIN pairs : pairs[x] # right} |->
     IF l = left THEN right ELSE pairs[l]]

Unassigned(pairs, left) == [l \in DOMAIN pairs \ {left} |-> pairs[l]]

\* An answer has one field.
Single(field, value) == [f \in {field} |-> value]

\* What one click makes of a draft.
Changes(type, payload, draft) ==
  LET field == AnswerField(type, payload)
      picked(values) == {Single(field, v) : v \in values}
  IN  CASE type \in ChartTypes -> picked(ToSet(payload.choices))
        [] field = "optionId"  -> picked(ToSet(payload.options))
        [] field = "value"     -> picked(BOOLEAN)
        [] field = "optionIds" ->
             picked({draft.optionIds \ {o} : o \in draft.optionIds}
                    \cup {draft.optionIds \cup {o} : o \in ToSet(payload.options)})
        [] field = "order"     ->
             picked({Moved(draft.order, i) : i \in 1..(Len(draft.order) - 1)})
        [] field = "pairs"     ->
             picked({Assigned(draft.pairs, l, r) :
                       l \in ToSet(payload.lefts), r \in ToSet(payload.rights)}
                    \cup {Unassigned(draft.pairs, l) : l \in DOMAIN draft.pairs})

\* The submit button is enabled.
Complete(type, payload, draft) ==
  LET field == AnswerField(type, payload)
  IN  CASE field = "optionIds" -> draft.optionIds # {}
        [] field = "order"     -> payload.items # << >>
        [] field = "pairs"     -> DOMAIN draft.pairs = ToSet(payload.lefts)
        [] OTHER               -> field \in DOMAIN draft

----------------------------------------------------------------------------
\* Reading an answer back

\* dummy_answer: any answer of the right shape.
DummyAnswer(payload) ==
  IF "choices" \in DOMAIN payload
    THEN [divergence |-> payload.choices[1], label |-> payload.choices[1]]
  ELSE CASE payload.kind = "true_false"   -> [value |-> FALSE]
         [] payload.kind = "multi_select" -> [optionIds |-> {payload.options[1]}]
         [] payload.kind = "ordering"     -> [order |-> payload.items]
         [] payload.kind = "matching"     -> [pairs |-> [s \in DOMAIN payload.lefts |->
                                                           payload.rights[s]]]
         [] OTHER                         -> [optionId |-> payload.options[1]]

\* The keys a submission may have, in the order they are looked for.
AnswerKeys == <<"optionId", "optionIds", "order", "pairs", "divergence", "label", "value">>

SubmissionFor(key) ==
  LET name == AnswerKeys[Min({i \in DOMAIN AnswerKeys : AnswerKeys[i] \in DOMAIN key})]
  IN  Single(name, key[name])

\* reveal: the answer a first grading names, or Absent when a second grading
\* does not accept it.
Reveal(grade(_), payload) ==
  LET submission == SubmissionFor(grade(DummyAnswer(payload)).key)
  IN  IF grade(submission).correct THEN submission ELSE Absent

\* The adapters print an answer that names a bar only if the page shows it.
Printable(payload, key) ==
  "annotations" \notin DOMAIN key
  \/ \A i \in DOMAIN key.annotations : key.annotations[i].at \subseteq 0..(payload.candles - 1)
=============================================================================
