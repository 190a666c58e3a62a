---------------------------- MODULE MCExercises -----------------------------
(***************************************************************************)
(* Courses to load.  FullCourse has an exercise for every generator and     *)
(* formula, and the injectors, lengths and choices of the course content   *)
(* of the repository, with the figures of its lessons.  The others vary a  *)
(* small course in one place each.                                         *)
(***************************************************************************)
EXTENDS Exercises

Both == {"en", "es"}

----------------------------------------------------------------------------
\* Quiz exercises

Variant(id, kind) ==
  [id |-> id, kind |-> kind, options |-> << >>, answer |-> Absent,
   items |-> << >>, pairs |-> << >>]
Option(id, correct) == [id |-> id, correct |-> correct]

Choice == [Variant("v1", "single_choice") EXCEPT
             !.options = <<Option("a", FALSE), Option("b", TRUE), Option("c", FALSE)>>]
Several == [Variant("v2", "multi_select") EXCEPT
              !.options = <<Option("a", TRUE), Option("b", TRUE), Option("c", FALSE)>>]
Claim == [Variant("v3", "true_false") EXCEPT !.answer = FALSE]
InOrder == [Variant("v4", "ordering") EXCEPT
              !.items = <<[id |-> "x", position |-> 2], [id |-> "y", position |-> 3],
                          [id |-> "z", position |-> 1]>>]
Match == [Variant("v5", "matching") EXCEPT
            !.pairs = <<[id |-> "p"], [id |-> "q"], [id |-> "r"]>>]

QuizOf(variants) == [type |-> "quiz", prompt |-> Both, variants |-> variants]

----------------------------------------------------------------------------
\* Calculations

Values(vs) == [kind |-> "choice", values |-> vs]
Ints(lo, hi, by) == [kind |-> "int_range", min |-> lo, max |-> hi, step |-> by]
Sums(formula, round, params) ==
  [type |-> "calculation", prompt |-> Both, formula |-> formula, round |-> round,
   params |-> params]

EitherSide == Values(<<"long", "short">>)

Calculations ==
  << Sums("liquidation_price", 2,
          [entry |-> Values(<<Whole(10000)>>), leverage |-> Values(<<Whole(5), Whole(50)>>),
           mmr |-> Values(<< <<1, 200>>, <<1, 100>> >>), side |-> EitherSide]),
     Sums("funding_payment", 2,
          [notional |-> Ints(2000, 2500, 500), rate |-> Values(<< <<1, 2000>>, <<-1, 2500>> >>),
           side |-> EitherSide]),
     Sums("funding_payment", 0,               \* every mistake rounds to the answer
          [notional |-> Values(<<Whole(2000)>>), rate |-> Values(<< <<1, 10000>> >>),
           side |-> EitherSide]),
     Sums("initial_margin", 2,
          [entry |-> Ints(20000, 21000, 1000), quantity |-> Values(<< <<1, 10>>, Whole(2) >>),
           leverage |-> Values(<<Whole(5)>>)]),
     Sums("net_pnl", 2,
          [entry |-> Ints(25000, 27500, 2500), exit |-> Ints(25500, 28000, 2500),
           quantity |-> Values(<< <<1, 10>> >>), side |-> EitherSide,
           fee_rate |-> Values(<< <<1, 5000>> >>)]),
     Sums("market_cap", 2,
          [price |-> Values(<< <<1, 2>>, <<6, 5>> >>), circulating |-> Ints(100, 200, 100)]),
     Sums("fdv", 2,
          [price |-> Values(<< <<7, 2>> >>), max_supply |-> Ints(500, 1000, 500)]),
     Sums("position_size_from_risk", 4,
          [equity |-> Ints(2000, 4000, 2000), risk_pct |-> Values(<< <<1, 200>>, <<1, 50>> >>),
           stop_distance |-> Values(<<Whole(250)>>)]),
     Sums("expectancy", 2,
          [win_rate |-> Values(<< <<9, 20>> >>), avg_win |-> Ints(120, 160, 40),
           avg_loss |-> Ints(320, 360, 40)]),
     Sums("net_delta", 2,
          [taker_buy |-> Ints(1100, 1150, 50), taker_sell |-> Ints(400, 450, 50)]),
     Sums("venue_premium_pct", 3,
          [price_a |-> Values(<<Whole(60000)>>), price_b |-> Ints(60600, 61200, 300)]),
     Sums("style_net_result", 2,
          [notional |-> Ints(5000, 5000, 1000), gross_pct |-> Values(<< <<1, 50>> >>),
           style |-> Values(<<"scalper", "day", "swing">>), fee_rate |-> Values(<< <<1, 2500>> >>),
           round_trips |-> Values(<<Whole(8)>>), funding_rate |-> Values(<< <<1, 10000>> >>),
           funding_intervals |-> Values(<<Whole(3)>>)]) >>

----------------------------------------------------------------------------
\* Charts

Planted(injector, n, targets, choices) ==
  [type |-> "pattern_chart", prompt |-> Both, injector |-> injector, n |-> n,
   targets |-> targets, choices |-> choices]
Every(injector, n, labels) == Planted(injector, n, labels, labels)

Lines == <<"line_holds", "line_break", "line_fakeout">>
Channels == <<"channel_intact", "channel_broken">>

PatternCharts ==
  << Every("fakeout", 130, <<"genuine_breakout", "false_break", "no_break">>),
     Every("volatility_bands", 130, <<"compression", "expansion">>),
     Every("cvd_divergence", 130, <<"cvd_bullish_divergence", "cvd_bearish_divergence",
                                    "cvd_confirms">>),
     Every("cvd_divergence", 150, <<"cvd_bullish_divergence", "cvd_bearish_divergence",
                                    "cvd_confirms">>),
     Every("wyckoff", 130, <<"accumulation", "distribution">>),
     Planted("wyckoff", 130, <<"accumulation", "distribution">>,
             <<"accumulation", "distribution", "none">>),
     Every("multi_timeframe", 140, <<"top_is_higher_frame", "bottom_is_higher_frame">>),
     Every("multi_timeframe", 140, <<"pullback_against_trend", "continuation_with_trend",
                                     "higher_frame_ranges">>),
     Every("origin_zone", 130, <<"zone_respected", "zone_failed", "no_zone">>),
     Every("candle_reaction", 70, <<"rejection_at_level", "overrun_at_level", "open_space",
                                    "indecision">>),
     Every("converging_lines", 130, <<"break_confirmed", "break_unconfirmed",
                                      "compression_holding">>),
     Every("converging_lines", 130, <<"rising_wedge", "falling_wedge", "symmetric_triangle",
                                      "parallel_channel">>),
     Every("derivatives", 130, <<"rising_oi", "falling_oi", "flat_oi">>),
     Every("trend_channel", 130, Lines),
     Every("trend_channel", 130, Channels),
     Every("imbalance", 130, <<"imbalance_unfilled", "imbalance_filled", "no_imbalance">>),
     Every("fibonacci", 130, <<"retrace_382", "retrace_500", "retrace_618">>),
     Every("volume_confirmation", 130, <<"confirmed_breakout", "unconfirmed_breakout">>),
     Every("ma_context", 130, <<"uptrend", "downtrend", "range">>),
     Every("oscillator_reading", 130, <<"overbought", "oversold", "neutral">>),
     Every("macd_cross", 130, <<"signal_cross", "zero_cross", "whipsaw">>) >>

AllDivergences == <<"bullish_regular", "bullish_hidden", "bearish_regular", "bearish_hidden",
                    "none">>
DivergenceCharts ==
  << [type |-> "synthetic_chart", prompt |-> Both, n |-> 160, targets |-> AllDivergences,
      choices |-> AllDivergences],
     [type |-> "fixture_chart", prompt |-> Both, choices |-> <<"bearish_regular", "none">>,
      fixtures |-> << [label |-> "bearish_regular", candles |-> 60,
                       panes |-> [rsi |-> 60, macd |-> 60],
                       marks |-> <<[label |-> "1", at |-> {30}], [label |-> "2", at |-> {50}]>>] >>] >>

\* Panels: with the candles of the resolution, or cut before them.
Panel(injector, n, target, resolved) ==
  [generator |-> "pattern_chart", injector |-> injector, n |-> n, target |-> target,
   show_resolution |-> resolved]
Panels(injector, n, targets, resolved) ==
  [i \in DOMAIN targets |-> Panel(injector, n, targets[i], resolved)]

Figure(id, panels) ==
  [id |-> id, file |-> id, key |-> Absent, caption |-> Both, kind |-> "chart",
   svg |-> Absent, panels |-> panels]

BothWays(injector, n, targets) ==
  Panels(injector, n, targets, TRUE) \o Panels(injector, n, targets, FALSE)

FullPanels ==
  BothWays("wyckoff", 150, <<"accumulation", "distribution">>)
  \o BothWays("volume_confirmation", 150, <<"confirmed_breakout", "unconfirmed_breakout">>)
  \o BothWays("volatility_bands", 150, <<"compression", "expansion">>)
  \o BothWays("trend_channel", 150, <<"line_break", "channel_failed", "channel_broken">>)
  \o BothWays("trade_anatomy", 150, <<"long_setup">>)
  \o BothWays("stop_limit_gap", 150, <<"unfilled_stop_limit">>)
  \o BothWays("oscillator_reading", 150, <<"overbought">>)
  \o BothWays("origin_zone", 150, <<"zone_respected">>)
  \o BothWays("market_structure", 150, <<"uptrend_ladder", "choch_after_uptrend">>)
  \o BothWays("macd_cross", 150, <<"signal_cross", "whipsaw">>)
  \o BothWays("ma_context", 150, <<"uptrend", "downtrend", "range">>)
  \o BothWays("liquidity_sweep", 150, <<"liquidity_sweep", "liquidation_cascade">>)
  \o BothWays("imbalance", 150, <<"imbalance_unfilled", "imbalance_filled">>)
  \o BothWays("fibonacci", 150, <<"retrace_618">>)
  \o BothWays("fakeout", 150, <<"genuine_breakout", "false_break">>)
  \o BothWays("derivatives", 150, <<"rising_oi", "falling_oi">>)
  \o BothWays("cvd_divergence", 150, <<"cvd_bullish_divergence">>)
  \o BothWays("converging_lines", 150, <<"symmetric_triangle", "rising_wedge">>)
  \o BothWays("multi_timeframe", 160, <<"pullback_against_trend">>)
  \o BothWays("multi_timeframe", 150, <<"pullback_against_trend">>)
  \o BothWays("candle_reaction", 45,
              <<"hammer", "shooting_star", "bullish_engulfing", "bearish_engulfing",
                "morning_star", "evening_star", "tweezers_bottom", "tweezers_top", "harami",
                "doji", "rejection_at_level", "open_space">>)
  \o [i \in DOMAIN AllDivergences |->
        [Panel("none", 120, AllDivergences[i], TRUE) EXCEPT !.generator = "synthetic_chart"]]

----------------------------------------------------------------------------
\* Courses

FullConfigs == << QuizOf(<<Choice, Several, Claim, InOrder, Match>>) >>
               \o Calculations \o PatternCharts \o DivergenceCharts

Exercise(id, type) == [id |-> id, key |-> Absent, type |-> type]
Lesson(id, exercises) ==
  [id |-> id, key |-> Absent, title |-> Both, summary |-> Both, uses |-> {},
   exercises |-> exercises]
Module(id, lessons) ==
  [id |-> id, key |-> Absent, title |-> Both, summary |-> Both, assumes |-> {},
   lessons |-> lessons]
Manifest(modules) ==
  [id |-> "course", title |-> Both, languages |-> <<"en", "es">>,
   exercise_types |-> {"quiz", "calculation", "synthetic_chart", "fixture_chart",
                       "pattern_chart"},
   blocks |-> <<[id |-> "b1", title |-> Both, modules |-> modules]>>]

ExerciseName(i) == "e" \o ToString(i)
FullCourse ==
  [directory |-> "course",
   manifest  |-> Manifest(<<Module("m1", <<Lesson("l1",
                   [i \in DOMAIN FullConfigs |->
                      Exercise(ExerciseName(i), FullConfigs[i].type)])>>)>>),
   prose     |-> [l \in Both |-> [id \in {"l1"} |-> {"word"}]],
   configs   |-> [id \in {ExerciseName(i) : i \in DOMAIN FullConfigs} |->
                    FullConfigs[CHOOSE i \in DOMAIN FullConfigs : ExerciseName(i) = id]],
   figures   |-> <<Figure("f1", FullPanels)>>,
   coupling  |-> TRUE,
   glossary  |-> << >>]

\* A small course: two modules, an exercise with a configuration and one
\* without, a figure, a term, and an abbreviation that stands for it.
Term(id, word) ==
  [id |-> id, term |-> [l \in Both |-> word], origin |-> "l1", definition |-> Both,
   senses |-> {}, alias_of |-> Absent, link |-> Both, match |-> {},
   link_except |-> [l \in Both |-> {}]]
Short == [Term("t2", "LIQ") EXCEPT !.alias_of = "t1", !.definition = Absent]

Small ==
  [directory |-> "course",
   manifest  |-> Manifest(
     <<Module("m1", <<Lesson("l1", <<Exercise("e1", "quiz"), Exercise("e2", "quiz")>>)>>),
       [Module("m2", <<Lesson("l2", << >>)>>) EXCEPT !.assumes = {"m1"}]>>),
   prose     |-> [l \in Both |-> [id \in {"l1", "l2"} |-> {"liquidation", "LIQ"}]],
   configs   |-> [id \in {"e1"} |-> QuizOf(<<Claim>>)],
   figures   |-> <<Figure("f1", <<Panel("derivatives", 150, "rising_oi", TRUE)>>)>>,
   coupling  |-> TRUE,
   glossary  |-> <<Term("t1", "liquidation"), Short>>]

WithLesson(i, field, value) ==
  [Small EXCEPT !.manifest.blocks[1].modules[i].lessons[1][field] = value]
WithConfig(config) == [Small EXCEPT !.configs["e1"] = config]
WithTerm(i, field, value) == [Small EXCEPT !.glossary[i][field] = value]

\* Lessons that take each other's name as a key, as after a renumbering.
Swapped ==
  [WithLesson(1, "key", "l2") EXCEPT !.manifest.blocks[1].modules[2].lessons[1].key = "l1"]
EnglishOnly ==
  LET en == {"en"}
      module(m) == [Module(m[1], <<[Lesson(m[2], m[3]) EXCEPT !.title = en, !.summary = en]>>)
                      EXCEPT !.title = en, !.summary = en]
  IN  [Small EXCEPT
        !.manifest = [Manifest(<<module(<<"m1", "l1", <<Exercise("e1", "quiz")>> >>)>>)
                        EXCEPT !.title = en, !.languages = <<"en">>, !.blocks[1].title = en],
        !.prose    = [l \in en |-> [id \in {"l1"} |-> {"liquidation"}]],
        !.configs["e1"].prompt = en,
        !.figures  = << >>, !.coupling = FALSE,
        !.glossary = <<[Term("t1", "liquidation") EXCEPT
                          !.term = [l \in en |-> "liquidation"], !.definition = en]>>]

MCBundles ==
  << FullCourse, Small, Swapped, EnglishOnly,
     WithLesson(2, "key", "l1"),                          \* a given key and a default one
     WithLesson(2, "id", "l1"),
     WithLesson(2, "key", "m1"),
     WithLesson(1, "title", {"en"}),
     WithLesson(2, "uses", {"liquidation"}),
     [WithLesson(2, "uses", {"liquidation"}) EXCEPT !.prose["en"]["l2"] = {"LIQ"}],
     [Small EXCEPT !.manifest.blocks[1].modules[1].assumes = {"m3"}],
     [Small EXCEPT !.manifest.blocks[1].modules[2].assumes = {"m2"}],
     [Small EXCEPT !.manifest.exercise_types = {"calculation"}],
     [Small EXCEPT !.directory = "draft"],
     [Small EXCEPT !.prose["es"]["l2"] = {}],
     [Small EXCEPT !.figures = << >>],
     [Small EXCEPT !.figures[1].panels[1].target = "compression"],
     [Small EXCEPT !.figures[1].file = "f2"],
     [Small EXCEPT !.glossary = Append(@, [Short EXCEPT !.id = "t3", !.alias_of = "t2"])],
     WithTerm(1, "definition", {"en"}),
     WithTerm(1, "origin", "l3"),
     WithTerm(1, "id", "e1"),
     WithTerm(1, "link", {"en"}),
     WithTerm(1, "link_except", [l \in Both |-> IF l = "en" THEN {"l2"} ELSE {}]),
     WithTerm(1, "link_except", [l \in Both |-> IF l = "en" THEN {"l9"} ELSE {}]),
     WithTerm(2, "term", [l \in {"en"} |-> "LIQ"]),
     WithTerm(2, "term", [l \in Both |-> "coined"]),
     [Small EXCEPT !.glossary = SubSeq(@, 2, 2)],
     WithConfig(QuizOf(<<[Choice EXCEPT !.options[1].correct = TRUE]>>)),
     WithConfig(QuizOf(<<[Match EXCEPT !.answer = TRUE]>>)),
     WithConfig(QuizOf(<<[InOrder EXCEPT !.items[1].position = 1]>>)),
     WithConfig(PatternCharts[1]),
     WithConfig([QuizOf(<<Claim>>) EXCEPT !.prompt = {"es"}]) >>

\* What PanesStayAligned and MarksStayLegible (ExercisesProofs), OneAnswerIsRight
\* and NothingIsGivenAway (AnswersProofs) are proved from.
ASSUME ChartedAssumption == \A b \in DOMAIN MCBundles : Charted(MCBundles[b])
ASSUME UncrowdedAssumption == \A b \in DOMAIN MCBundles : Uncrowded(MCBundles[b])
ASSUME FillingAssumption == \A b \in DOMAIN MCBundles : Filling(MCBundles[b])
ASSUME MeasurableAssumption == \A b \in DOMAIN MCBundles : Measurable(MCBundles[b])
ASSUME UnmixedAssumption == \A b \in DOMAIN MCBundles : Unmixed(MCBundles[b])
=============================================================================
