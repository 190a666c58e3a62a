----------------------------- MODULE Exercises ------------------------------
(***************************************************************************)
(* The way of an exercise from the content files of a course to a graded   *)
(* or printed answer, and of a figure to the page of a lesson: the course  *)
(* is loaded, an exercise is opened on a random seed, an answer is         *)
(* composed click by click and graded from the configuration and the seed, *)
(* never from what was shown.                                              *)
(*                                                                         *)
(* Attempt rows, sessions and deployments are in Lanes and Skeleton.       *)
(***************************************************************************)
EXTENDS Charts, Calculation, Content, Answers

CONSTANTS Bundles   \* the course directories that may be shipped

ASSUME BundlesAssumption == \A b \in DOMAIN Bundles : Parsed(Bundles[b])

VARIABLES
  bundle,   \* the one that is
  stage,    \* what is on: "shipped" (nothing is read yet), "refused" (the
            \* load failed), "served", "failed" (generating raised), "open",
            \* "answered", "printed", or "figure"
  work,     \* the exercise and its seed, or the figure panel and its chart
  shown,    \* the payload the page was sent
  draft,    \* what the learner has chosen so far
  result    \* what grading or printing answered

vars == <<bundle, stage, work, shown, draft, result>>

Nothing == << >>
Course == Bundles[bundle]

----------------------------------------------------------------------------
\* The registry of generators

ValidConfig(config) ==
  CASE config.type = "quiz"            -> ValidQuiz(config)
    [] config.type = "calculation"     -> ValidCalculation(config)
    [] config.type = "synthetic_chart" -> ValidSynthetic(config)
    [] config.type = "fixture_chart"   -> ValidFixtures(config)
    [] config.type = "pattern_chart"   -> ValidPattern(config)

Seeds(config) ==
  CASE config.type = "quiz"            -> QuizSeeds(config)
    [] config.type = "calculation"     -> CalculationSeeds(config)
    [] config.type = "synthetic_chart" -> SyntheticSeeds(config)
    [] config.type = "fixture_chart"   -> FixtureSeeds(config)
    [] config.type = "pattern_chart"   -> PatternSeeds(config)

\* Drawing a pattern may fail after so many attempts.
MayRaise(config) ==
  \/ config.type = "synthetic_chart"
  \/ config.type = "pattern_chart" /\ config.injector \in Unplantable

Payload(config, seed) ==
  CASE config.type = "quiz"            -> QuizPayload(config, seed)
    [] config.type = "calculation"     -> CalculationPayload(config, seed)
    [] config.type = "synthetic_chart" -> SyntheticPayload(config, seed)
    [] config.type = "fixture_chart"   -> FixturePayload(config, seed)
    [] config.type = "pattern_chart"   -> PatternPayload(config, seed)

Grade(config, seed, answer) ==
  CASE config.type = "quiz"            -> QuizGrade(config, seed, answer)
    [] config.type = "calculation"     -> CalculationGrade(config, seed, answer)
    [] config.type = "synthetic_chart" ->
         ChoiceGrade("divergence", SyntheticKey(config, seed), answer)
    [] config.type = "fixture_chart"   ->
         ChoiceGrade("divergence", FixtureKey(config, seed), answer)
    [] config.type = "pattern_chart"   ->
         ChoiceGrade("label", PatternKey(config, seed), answer)

----------------------------------------------------------------------------
\* Loading

ValidBundle(course) ==
  /\ ValidCourse(course)
  /\ \A id \in DOMAIN course.configs : ValidConfig(course.configs[id])
  /\ \A f \in ToSet(course.figures) : ValidFigure(f)

\* Exercises of the manifest that have a configuration.
PlayableHere ==
  {e \in ToSet(IterExercises(Course.manifest)) : e.id \in DOMAIN Course.configs}

Init ==
  /\ bundle \in DOMAIN Bundles
  /\ stage = "shipped"
  /\ work = Nothing /\ shown = Nothing /\ draft = Nothing /\ result = Nothing

Load ==
  /\ stage = "shipped"
  /\ stage' = IF ValidBundle(Course) THEN "served" ELSE "refused"
  /\ UNCHANGED <<bundle, work, shown, draft, result>>

----------------------------------------------------------------------------
\* An attempt

Config == Course.configs[work.exercise]

Begin(exercise, kept) ==
  LET config == Course.configs[exercise]
  IN  \E seed \in Seeds(config) :
        /\ stage' = "open"
        /\ work' = [exercise |-> exercise, seed |-> seed]
        /\ shown' = Payload(config, seed)
        /\ draft' = IF kept = Nothing THEN Blank(config.type, Payload(config, seed)) ELSE kept
        /\ result' = Nothing
        /\ UNCHANGED bundle

Open ==
  /\ stage = "served"
  /\ \E e \in PlayableHere : Begin(e.id, Nothing)

\* The chart of an answered exercise stays on the page, and a new instance
\* finds its choice still selected.  The other controls start anew, as if the
\* exercise was left and opened.
Retry ==
  /\ stage = "answered"
  /\ Config.type \in ChartTypes
  /\ Begin(work.exercise, draft)

OpenFails ==
  /\ stage = "served"
  /\ \E e \in PlayableHere :
       /\ MayRaise(Course.configs[e.id])
       /\ work' = [exercise |-> e.id]
  /\ stage' = "failed"
  /\ UNCHANGED <<bundle, shown, draft, result>>

Click ==
  /\ stage = "open"
  /\ draft' \in Changes(Config.type, shown, draft)
  /\ UNCHANGED <<bundle, stage, work, shown, result>>

\* An answer that cannot be read is refused and leaves the attempt open.
Submit ==
  LET graded == Grade(Config, work.seed, draft)
  IN  /\ stage = "open"
      /\ Complete(Config.type, shown, draft)
      /\ graded # Malformed
      /\ stage' = "answered"
      /\ result' = graded
      /\ UNCHANGED <<bundle, work, shown, draft>>

----------------------------------------------------------------------------
\* A printed exercise and a figure

\* The seed of a print is a hash of the exercise's key: any seed.  An answer
\* that may name a bar off the page leaves the exercise out.
Export ==
  /\ stage = "served"
  /\ \E e \in PlayableHere :
       LET config == Course.configs[e.id]
       IN  \E seed \in Seeds(config) :
             LET payload == Payload(config, seed)
                 grade(answer) == Grade(config, seed, answer)
                 submission == Reveal(grade, payload)
             IN  /\ work' = [exercise |-> e.id, seed |-> seed]
                 /\ shown' = payload
                 /\ result' = IF submission # Absent /\ Printable(payload, grade(submission).key)
                                THEN submission ELSE Nothing
  /\ stage' = "printed"
  /\ UNCHANGED <<bundle, draft>>

ShowFigure ==
  /\ stage = "served"
  /\ \E f \in ToSet(Course.figures) : \E i \in DOMAIN f.panels :
       \E chart \in PanelCharts(f.panels[i]) :
         /\ work' = [figure |-> f.id, panel |-> f.panels[i], chart |-> chart]
         /\ shown' = PanelPayload(f.panels[i], chart)
  /\ stage' = "figure"
  /\ UNCHANGED <<bundle, draft, result>>

Leave ==
  /\ stage \in {"open", "answered", "failed", "printed", "figure"}
  /\ stage' = "served"
  /\ work' = Nothing /\ shown' = Nothing /\ draft' = Nothing /\ result' = Nothing
  /\ UNCHANGED bundle

Next ==
  \/ Load \/ Open \/ Retry \/ OpenFails \/ Click \/ Submit
  \/ Export \/ ShowFigure \/ Leave

Spec == Init /\ [][Next]_vars

----------------------------------------------------------------------------
\* What a page of an exercise allows

\* Nothing is clicked yet.
JustOpened == stage = "open" /\ draft = Blank(Config.type, shown)

\* The answers that can be composed and submitted.
OnOffer(type, payload) ==
  LET field == AnswerField(type, payload)
  IN  CASE type \in ChartTypes -> ToSet(payload.choices)
        [] field = "optionId"  -> ToSet(payload.options)
        [] field = "value"     -> BOOLEAN
        [] field = "optionIds" -> (SUBSET ToSet(payload.options)) \ {{}}
        [] field = "order"     -> {[i \in DOMAIN payload.items |-> payload.items[f[i]]] :
                                     f \in Shuffles(DOMAIN payload.items)}
        [] field = "pairs"     -> Shuffles(ToSet(payload.lefts))
Composable(type, payload) ==
  {Single(AnswerField(type, payload), v) : v \in OnOffer(type, payload)}

Graded(answer) == Grade(Config, work.seed, answer)

\* An answer says what the content says: the sides of a pair are matched, and
\* items are in the order of their positions.
SaidByContent(config, seed, answer) ==
  LET v == VariantOf(config, seed)
      position(id) == (CHOOSE i \in ToSet(v.items) : i.id = id).position
  IN  /\ "pairs" \in DOMAIN answer =>
           \A s \in DOMAIN answer.pairs :
             Rights(v, seed)[answer.pairs[s]] = Lefts(v, seed)[s]
      /\ "order" \in DOMAIN answer =>
           \A i \in DOMAIN answer.order : position(answer.order[i]) = i

\* Of the answers with these grades exactly one is right, the one that grading
\* reveals and the content says.
OneRight(grades) ==
  /\ Malformed \notin Range(grades)
  /\ \E a \in DOMAIN grades : \A b \in DOMAIN grades : grades[b].correct <=> b = a
  /\ \A a \in DOMAIN grades :
       grades[a].correct =>
         a = SubmissionFor(grades[a].key) /\ SaidByContent(Config, work.seed, a)

\* Every answer that the controls can produce is graded; exactly one of them is
\* right; it is the one the content means, whatever the shuffles, the one that
\* grading reveals and the one that the print export prints (quiz.py:151-247).
\* No two options of a calculation show one value, after distractors that
\* round to a value already there are replaced (calculation.py:113-160).
OneRightAnswer ==
  /\ JustOpened =>
       /\ OneRight([a \in Composable(Config.type, shown) |-> Graded(a)])
       /\ Config.type = "calculation" => Len(shown.values) = 4 /\ IsInjective(shown.values)
  /\ stage = "answered" =>
       (result.correct <=> draft = SubmissionFor(result.key))
  /\ stage = "printed" =>
       result # Nothing /\ Graded(result).correct
       /\ result \in Composable(Config.type, shown)

\* The mistakes and slips of a calculation are enough for four options.
Filling(course) ==
  \A id \in DOMAIN course.configs :
    LET config == course.configs[id]
    IN  config.type = "calculation" =>
          \A p \in Sampled(config) : Len(Entries(config, p)) = 4

\* Where a pattern resolves after the chart ends, the sides of a matching
\* question and the slot of a right value: the page is the same, prices and
\* texts aside, whichever of the answers on offer is the right one
\* (patterns/base.py:153-157).
NothingGivenAway ==
  LET page(payload) == [f \in DOMAIN payload \ {"values"} |-> payload[f]]
      varied == \/ Config.type = "calculation"
                \/ Config.type = "quiz" /\ shown.kind = "matching"
                \/ Config.type = "pattern_chart" /\ Config.injector \in Hiding
                   /\ ToSet(Config.targets) = ToSet(Config.choices)
  IN  JustOpened /\ varied =>
        \A a \in Composable(Config.type, shown) : \E seed \in Seeds(Config) :
          /\ page(Payload(Config, seed)) = page(shown)
          /\ Grade(Config, seed, a).correct

\* No exercise asks of a line and of a channel at once: which of them is drawn
\* would tell the answers apart.
Unmixed(course) ==
  \A id \in DOMAIN course.configs :
    LET config == course.configs[id]
    IN  config.type = "pattern_chart" /\ config.injector = "trend_channel" =>
          \/ ToSet(config.choices) \subseteq OnOneLine
          \/ ToSet(config.choices) \cap OnOneLine = {}

\* The parameters with which the right computation makes a mistake, or Absent for
\* a mistake that no parameters make.
MisledBy(mistake, p) ==
  LET scaled(field, q) == [p EXCEPT ![field] = @ ** q]
      zero(field) == [p EXCEPT ![field] = Whole(0)]
      negated(field) == [p EXCEPT ![field] = Neg(@)]
      otherSide == [p EXCEPT !.side = IF @ = "long" THEN "short" ELSE "long"]
      half == <<1, 2>>
  IN  CASE mistake = "forget mmr"                    -> zero("mmr")
        [] mistake \in {"subtract mmr", "add mmr"}   -> negated("mmr")
        [] mistake = "double the cushion"            -> scaled("leverage", half)
        [] mistake = "wrong side"                    -> otherSide
        [] mistake = "two intervals"                 -> scaled("rate", Two)
        [] mistake = "half an interval"              -> scaled("rate", half)
        [] mistake = "half the position"             -> scaled("quantity", half)
        [] mistake = "leverage minus one" /\ p.leverage[1] > p.leverage[2] ->
             [p EXCEPT !.leverage = @ -- One]
        [] mistake = "leverage plus one"             -> [p EXCEPT !.leverage = @ ++ One]
        [] mistake = "forget fees"                   -> zero("fee_rate")
        [] mistake = "fee on one fill"               -> scaled("fee_rate", half)
        [] mistake = "move the wrong way round"      -> otherSide
        [] mistake = "1.5 times the supply"          -> scaled("circulating", <<3, 2>>)
        [] mistake = "0.6 times the supply"          -> scaled("circulating", <<3, 5>>)
        [] mistake = "double-count the supply"       -> scaled("circulating", Two)
        [] mistake = "0.5 times the supply"          -> scaled("max_supply", half)
        [] mistake = "1.4 times the supply"          -> scaled("max_supply", <<7, 5>>)
        [] mistake = "0.9 times the price"           -> scaled("price", <<9, 10>>)
        [] mistake = "double the risk"               -> scaled("risk_pct", Two)
        [] mistake = "halve the risk"                -> scaled("risk_pct", half)
        [] mistake = "ten times too small"           -> scaled("risk_pct", <<1, 10>>)
        [] mistake = "add the losing side"           -> negated("avg_loss")
        [] mistake = "ignore the losing trades"      -> zero("avg_loss")
        [] mistake = "add the two sides"             -> negated("taker_sell")
        [] mistake = "only the buying"               -> zero("taker_sell")
        [] mistake = "sell minus buy"                ->
             [p EXCEPT !.taker_buy = p.taker_sell, !.taker_sell = p.taker_buy]
        [] mistake = "ignore trading costs"          ->
             [p EXCEPT !.fee_rate = Whole(0), !.funding_rate = Whole(0)]
        [] mistake = "one round trip, no funding"    ->
             [p EXCEPT !.round_trips = One, !.funding_intervals = Whole(0)]
        [] OTHER                                     -> Absent

\* The value of an option against the mistake it is explained by.
Explained(mistake, value, units(_), p) ==
  /\ mistake = Absent <=> value = units(p)
  /\ mistake # Absent /\ MisledBy(mistake, p) # Absent => value = units(MisledBy(mistake, p))

\* A wrong option that is explained by a mistake shows the very value that
\* mistake leads to, and never the right one: after filtering, replacing and
\* shuffling, the explanation still belongs to its number
\* (calculation.py:113-160, 209-233).
DiagnosesHold ==
  JustOpened /\ Config.type = "calculation" =>
    LET p == work.seed.params
        units(q) == Quantized(Compute(Config.formula, q), Config.round)
    IN  \A slot \in ToSet(shown.options) :
          Explained(Diagnosis(Config, work.seed, slot), shown.values[slot], units, p)

\* What is sampled for a formula are numbers in lowest terms, and what it divides
\* by is positive.
IsNumber(a) == a = <<a[1], a[2]>> /\ a[1] \in Int /\ a[2] \in Nat \ {0} /\ a = Frac(a[1], a[2])
Positive(a) == a[1] > 0
Measured(formula, p) ==
  /\ Arguments[formula] \subseteq DOMAIN p
  /\ \A name \in Arguments[formula] \ {"side", "style"} : IsNumber(p[name])
  /\ \A name \in Arguments[formula] \cap {"leverage", "stop_distance"} : Positive(p[name])
Measurable(course) ==
  \A id \in DOMAIN course.configs :
    LET config == course.configs[id]
    IN  config.type = "calculation" =>
          \A p \in Sampled(config) : Measured(config.formula, p)

----------------------------------------------------------------------------
\* What is drawn

Drawn == stage \in {"open", "printed", "figure"} /\ "candles" \in DOMAIN shown

\* The charts of a course have candles to draw on, and a recorded one comes
\* with as many values as candles.
Charted(course) ==
  /\ \A id \in DOMAIN course.configs :
       LET config == course.configs[id]
       IN  /\ config.type \in {"pattern_chart", "synthetic_chart"} =>
                config.n \in Nat /\ config.n >= 2
           /\ config.type = "fixture_chart" =>
                \A i \in DOMAIN config.fixtures : \A p \in DOMAIN config.fixtures[i].panes :
                  config.fixtures[i].panes[p] = config.fixtures[i].candles
  /\ \A f \in ToSet(course.figures) : \A i \in DOMAIN f.panels :
       f.panels[i].n \in Nat /\ f.panels[i].n >= 2

Aligned(payload) ==
  LET given(field) == IF field \in DOMAIN payload THEN payload[field] ELSE << >>
      panes == given("panes")
      overlays == given("overlays")
      lines == given("diagonals")
  IN  /\ \A p \in DOMAIN panes : panes[p] = payload.candles
      /\ \A o \in DOMAIN overlays : overlays[o] = payload.candles
      /\ \A i \in DOMAIN lines : 0 <= lines[i].start /\ lines[i].start < lines[i].end
                                 /\ lines[i].end = payload.candles - 1
      /\ "context" \in DOMAIN payload => payload.context * RATIO = payload.candles

\* Everything drawn with the candles is as long as they are, whatever a figure
\* adds after the pattern: panes, overlays, lines, and the second frame, which
\* has one candle for every four (figures.py:174-296, pattern_chart.py:150-208).
PanesAligned == Drawn => Aligned(shown)

\* The marks of the page, and the chart it is cut from.
MarksHere ==
  IF stage = "figure" THEN shown.annotations
  ELSE Grade(Config, work.seed, DummyAnswer(shown)).key.annotations
ChartHere ==
  IF stage = "figure" THEN work.chart
  ELSE IF Config.type = "pattern_chart" THEN work.seed.chart
  ELSE Bare(0)

\* Marks on bars of their own among so many candles.
Apart(marks, candles) ==
  /\ \A i \in DOMAIN marks : marks[i].at # {} /\ marks[i].at \subseteq 0..(candles - 1)
  /\ \A i, j \in DOMAIN marks : i # j => marks[i].at \cap marks[j].at = {}

Legible(marks, chart) ==
  /\ Apart(marks, shown.candles)
  /\ \A m \in ToSet(chart.marks) : \A g \in chart.guards :
       m.past = g.level => m.at \cap g.shut = {}

\* Enough candles for the windows that an injector seeks its marks in.
Roomy(injector, n) ==
  /\ n \in Nat /\ n >= IF injector = "candle_reaction" THEN 3 ELSE 50
  /\ injector = "wyckoff" => n >= 80
  /\ injector \in {"fakeout", "volume_confirmation"} => At(n, 780) + 3 <= At(n, 800)

\* The charts of a course have room for their marks, and a recorded one comes
\* with marks that are apart.
Uncrowded(course) ==
  /\ \A id \in DOMAIN course.configs :
       LET config == course.configs[id]
       IN  /\ config.type = "pattern_chart" => Roomy(config.injector, config.n)
           /\ config.type = "synthetic_chart" => Roomy("none", config.n)
           /\ config.type = "fixture_chart" =>
                \A i \in DOMAIN config.fixtures :
                  Apart(config.fixtures[i].marks, config.fixtures[i].candles)
  /\ \A f \in ToSet(course.figures) : \A i \in DOMAIN f.panels :
       Roomy(IF f.panels[i].generator = "pattern_chart" THEN f.panels[i].injector
             ELSE "none", f.panels[i].n)

\* A mark is on a bar that is shown and that no other mark is on, wherever the
\* search for its bar ends, and a mark of a candle that goes through a level is
\* never on a bar whose wicks are kept inside that level
\* (common.py:156-186, test_chart_annotations.py:66-83).
MarksLegible == Drawn => Legible(MarksHere, ChartHere)

----------------------------------------------------------------------------
\* What is loaded

\* A course that is served can be read in every language it declares: texts,
\* prose, prompts, the lessons a term refers to and the entry an alias stands
\* for.  And a display id and a permanent key lead to each other, so that what
\* is stored under a key is shown for the item it belongs to
\* (registry.py:108-152, 448-501; schema.py:142-189; glossary.py:163-213).
LoadedIsSound ==
  stage = "served" =>
    LET m == Course.manifest
        roundTrip(list) ==
          \A e \in ToSet(list) : KeysById(list)[e.id] = Keyed(e) /\ IdsByKey(list)[Keyed(e)] = e.id
    IN  /\ roundTrip(IterModules(m)) /\ roundTrip(IterLessons(m))
        /\ roundTrip(IterExercises(m)) /\ roundTrip(Course.figures)
        /\ \A l \in Languages(Course) :
             /\ CourseReads(Course, l)
             /\ \A t \in ToSet(Course.glossary) : TermReads(Course, t, l)
             /\ \A id \in DOMAIN Course.configs : l \in Course.configs[id].prompt
=============================================================================
