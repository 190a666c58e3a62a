------------------------------ MODULE Patterns ------------------------------
(***************************************************************************)
(* The pattern injectors (exercises/charts/patterns): what each draws on a *)
(* chart for a label, and at which bars.  Prices are left out; a bar that  *)
(* a search over prices picks is given by the bars it searches.            *)
(*                                                                         *)
(* Bars are counted from the first bar of the warm-up, which nobody sees.  *)
(* A position the code writes as a fraction of n is given in thousandths.  *)
(***************************************************************************)
EXTENDS Integers, Sequences, FiniteSets, FiniteSetsExt, SequencesExt

WARMUP == 30
TAIL == 8

----------------------------------------------------------------------------
\* Positions

\* int(f * n), and the bar it is at.  The float product agrees with the exact
\* one at every length the content uses.
At(n, t) == (t * n) \div 1000
Bar(n, t) == WARMUP + At(n, t)
End(n) == WARMUP + n

\* Where range(lo, hi) runs.
Span(lo, hi) == lo..(hi - 1)

\* Fault: the search leaves out the margin at both ends of the window.
SwingNear_Wide(n, t, w) ==
  (WARMUP + Max({0, At(n, t) - w - 1}))..(WARMUP + Min({n - 1, At(n, t) + w + 1}))

\* resolve_swing: the highest or lowest close within w of a position.
SwingNear(n, t, w) ==
  (WARMUP + Max({0, At(n, t) - w}))..(WARMUP + Min({n - 1, At(n, t) + w}))
Swing(n, t) == SwingNear(n, t, 3)

\* candle_extreme: the highest or lowest candle from lo to hi.
Extreme(n, lo, hi) == Span(Max({0, lo}), Min({End(n), hi}))

\* The two bars of each visit the path pays to a level.
Visits(n, positions, w) ==
  UNION {{bar, bar + 1} : bar \in UNION {SwingNear(n, t, w) : t \in positions}}

----------------------------------------------------------------------------
\* What is drawn

\* A mark is at one of the bars `at`; its candle goes past the level `past`.
Mark(label, at) == [label |-> label, at |-> at, past |-> "nothing"]
MarkPast(label, at, level) == [label |-> label, at |-> at, past |-> level]

\* A guard makes the candles of `tests` reach its level and keeps the wicks
\* of `shut` inside it.
Guard(level, tests, shut) == [level |-> level, tests |-> tests, shut |-> shut]

Line(label, start, end) == [label |-> label, start |-> start, end |-> end]

Bare(n) ==
  [warmup |-> WARMUP, bars |-> n, own |-> FALSE, marks |-> << >>,
   levels |-> << >>, guards |-> {}, bands |-> {}, diagonals |-> << >>,
   overlays |-> {}, panes |-> {}, position |-> "none"]

----------------------------------------------------------------------------
\* The injectors.  side and form stand for what is drawn besides prices.

Sides == {"support", "resistance"}

Breakout(n, label, side, past, shut) ==
  LET test == Swing(n, 800)
  IN  [Bare(n) EXCEPT
        !.levels = <<side>>,
        !.marks  = <<IF past THEN MarkPast(label, test, side) ELSE Mark(label, test)>>,
        !.guards = {Guard(side, Visits(n, {280, 500, 710}, At(n, 22)) \cup test, shut)}]

Fakeout(n, target, side) ==
  LET held == Span(0, Bar(n, 780))
      shut == CASE target = "no_break"    -> Span(0, End(n))
                [] target = "false_break" -> held \cup Span(Bar(n, 880), End(n))
                [] OTHER                  -> held
  IN  Breakout(n, "test", side, target # "no_break", shut)

VolumeConfirmation(n, side) ==
  [Breakout(n, "break", side, TRUE, Span(0, Bar(n, 780))) EXCEPT !.panes = {"volume"}]

Wyckoff(n, target) ==
  LET swings(ts) == UNION {Swing(n, t) : t \in ts}
      near == IF target = "accumulation" THEN "resistance" ELSE "support"
      far == IF target = "accumulation" THEN "support" ELSE "resistance"
      event == IF target = "accumulation" THEN "spring" ELSE "upthrust"
      inside == Span(Bar(n, 240), End(n))
      whole == Span(0, End(n))
  IN  IF target = "none"
      THEN [Bare(n) EXCEPT
             !.levels = <<"resistance", "support">>,
             !.guards = {Guard("resistance", swings({300, 500, 700}), whole),
                         Guard("support", swings({200, 400, 600}), whole)}]
      ELSE [Bare(n) EXCEPT
             !.levels = <<"resistance", "support">>,
             !.marks  = <<MarkPast(event, Swing(n, 740), far)>>,
             !.guards = {Guard(near, swings({220, 400, 600}), inside),
                         Guard(far, swings({300, 500, 680}),
                               inside \ Span(Bar(n, 660), Bar(n, 790)))}]

\* A figure names the phases of the range instead.
WyckoffFigureMarks(n, target) ==
  IF target = "none" THEN << >>
  ELSE <<Mark("A", {Bar(n, 140)}), Mark("B", {Bar(n, 450)}), Mark("C", {Bar(n, 740)}),
         Mark("D", {Bar(n, 860)}), Mark("E", {Bar(n, 970)})>>

LiquiditySweep(n, target) ==
  LET sweep == Bar(n, 800)
      event == IF target = "liquidity_sweep" THEN "sweep" ELSE "liquidation"
  IN  [Bare(n) EXCEPT
        !.own    = TRUE,
        !.levels = <<"support">>,
        !.marks  = <<MarkPast(event, {sweep}, "support")>>,
        !.guards = {Guard("support", Visits(n, {220, 480, 720}, At(n, 20)),
                          Span(0, End(n)) \ {sweep})}]

\* The break of structure is after the low it starts from, at the impulse
\* between that low and the retest.
OriginZone(n, target) ==
  LET search == Max({2, At(n, 50)})
      low == Extreme(n, Bar(n, 470) - search, Bar(n, 470) + search + 1)
      retest == Bar(n, 800)
  IN  IF target = "no_zone"
      THEN [Bare(n) EXCEPT
             !.own   = TRUE,
             !.marks = <<Mark("failed_break", Extreme(n, Bar(n, 600), Bar(n, 720)))>>]
      ELSE [Bare(n) EXCEPT
             !.own   = TRUE,
             !.bands = {"origin"},
             !.marks = <<Mark("origin", low), Mark("BOS", Span(Max(low) + 1, retest)),
                         Mark("retest", {retest})>>]

Imbalance(n, target) ==
  LET g == Bar(n, 440)
      gap == Guard("low", {}, Span(0, g))
      after == Span(g + 2, End(n))
  IN  IF target = "no_imbalance"
      THEN [Bare(n) EXCEPT !.own = TRUE, !.marks = <<Mark("traded_through", {g + 2})>>]
      ELSE [Bare(n) EXCEPT
             !.own    = TRUE,
             !.bands  = {"imbalance"},
             !.marks  = IF target = "imbalance_unfilled" THEN <<Mark("imbalance", {g})>>
                        ELSE <<Mark("imbalance", {g}), MarkPast("revisit", after, "low")>>,
             !.guards = IF target = "imbalance_unfilled" THEN {gap, Guard("high", {}, after)}
                        ELSE {gap}]

\* Up to seven noisy paths and a clean one are tried; none may do.
CvdDivergence(n) ==
  [Bare(n) EXCEPT
    !.marks = <<Mark("1", Swing(n, 460)), Mark("2", Swing(n, 900))>>,
    !.panes = {"volume", "cvd"}]

Derivatives(n) == [Bare(n) EXCEPT !.panes = {"oi"}]

\* The candles of a form, the one that is marked and the side it belongs to.
Forms ==
  [hammer            |-> <<1, 0, "support">>,  shooting_star     |-> <<1, 0, "resistance">>,
   bullish_engulfing |-> <<2, 1, "support">>,  bearish_engulfing |-> <<2, 1, "resistance">>,
   morning_star      |-> <<3, 2, "support">>,  evening_star      |-> <<3, 2, "resistance">>,
   tweezers_bottom   |-> <<2, 1, "support">>,  tweezers_top      |-> <<2, 1, "resistance">>,
   harami            |-> <<2, 1, "none">>,     doji              |-> <<1, 0, "none">>,
   small_range       |-> <<1, 0, "none">>]

Judgment ==
  [rejection_at_level |-> {"hammer", "shooting_star"},
   overrun_at_level   |-> {"bullish_engulfing", "bearish_engulfing"},
   open_space         |-> {"hammer", "shooting_star", "bullish_engulfing", "bearish_engulfing"},
   indecision         |-> {"doji", "small_range"}]

CandleReaction(n, target, form) ==
  LET side == Forms[form][3]
      first == End(n) - Forms[form][1]
      at == {first + Forms[form][2]}
      atLevel == side # "none" /\ target \notin {"open_space", "indecision"}
  IN  IF atLevel
      THEN [Bare(n) EXCEPT
             !.own    = TRUE,
             !.levels = <<side>>,
             !.marks  = <<MarkPast(form, at, side)>>,
             !.guards = {Guard(side, Swing(n, 300) \cup Swing(n, 660) \cup {first - 1},
                               Span(0, first))}]
      ELSE [Bare(n) EXCEPT !.own = TRUE, !.marks = <<Mark(form, at)>>]

Fibonacci(n) ==
  [Bare(n) EXCEPT
    !.levels = <<"382", "500", "618">>,
    !.marks  = <<Mark("swing", Swing(n, 500)), Mark("pullback", Swing(n, 800))>>]

MaContext(n) == [Bare(n) EXCEPT !.overlays = {"ema20", "ema50"}]

MacdCross(n) == Bare(n)
OscillatorReading(n) == Bare(n)

\* Two frames: bars is cut to whole candles of the higher one.
RATIO == 4
Turns == [pullback_against_trend |-> 720, continuation_with_trend |-> 640,
          higher_frame_ranges |-> 800]

MultiTimeframe(n, target, shape) ==
  LET bars == n - (n % RATIO)
      warmup == 32
      half == Max({2, At(bars, 30)})
      turn == warmup + At(bars, Turns[shape])
  IN  [Bare(bars) EXCEPT
        !.warmup   = warmup,
        !.own      = TRUE,
        !.marks    = <<Mark("turn", Span(turn - half, turn + half))>>,
        !.position = IF target = "bottom_is_higher_frame" THEN "below" ELSE "above"]

\* Six paths are tried, each calmer or livelier than the last; none may do.
VolatilityBands(n, target) ==
  [Bare(n) EXCEPT
    !.own      = TRUE,
    !.marks    = <<Mark(target, {Bar(n, 810)})>>,
    !.overlays = {"bb_upper", "bb_lower", "kc_upper", "kc_lower"},
    !.panes    = {"momentum", "momentum_state"}]

OnOneLine == {"line_holds", "line_break", "line_fakeout"}
TrendChannel(n, target) ==
  LET half == Max({2, At(n, 30)})
      around(t) == Extreme(n, Bar(n, t) - half, Bar(n, t) + half)
      line(label) == Line(label, Bar(n, 60), End(n) - 1)
  IN  [Bare(n) EXCEPT
        !.diagonals = IF target \in OnOneLine
                        THEN <<line("trendline")>>
                        ELSE <<line("channel"), line("channel_parallel")>>,
        !.marks     = <<Mark("touch", around(60)), Mark("touch", around(300)),
                        Mark("touch", around(540)), Mark("touch", around(720)),
                        Mark("test", around(800))>>,
        !.panes     = {"volume"}]

ConvergingLines(n, target) ==
  LET half == Max({2, At(n, 25)})
      around(t) == Extreme(n, Bar(n, t) - half, Bar(n, t) + half)
      swings == <<70, 170, 270, 370, 470, 570, 660, 740>>
      touches == [i \in DOMAIN swings |-> Mark("touch", around(swings[i]))]
  IN  [Bare(n) EXCEPT
        !.diagonals = <<Line("upper", Bar(n, 70), End(n) - 1),
                        Line("lower", Bar(n, 170), End(n) - 1)>>,
        !.marks     = IF target \in {"break_confirmed", "break_unconfirmed",
                                     "compression_holding"}
                        THEN Append(touches, Mark("test", around(820))) ELSE touches,
        !.panes     = {"volume"}]

\* A pivot is sought from the middle of the leg before it to the middle of the
\* leg after it, which are extremes of neither pivot.
MarketStructure(n, target) ==
  LET pivots == IF target = "choch_after_uptrend" THEN <<60, 200, 320, 460, 580, 720, 880>>
                ELSE <<60, 200, 320, 460, 580, 720>>
      labels == <<"", "HH", "HL", "HH", "HL", "HH", "CHoCH">>
      middle(i) == Bar(n, (pivots[i] + pivots[i + 1]) \div 2)
      window(i) == Span(middle(i - 1) + 1,
                        IF i = Len(pivots) THEN End(n) - TAIL ELSE middle(i))
  IN  [Bare(n) EXCEPT
        !.own   = TRUE,
        !.marks = [k \in 1..(Len(pivots) - 1) |-> Mark(labels[k + 1], window(k + 1))]]

StopLimitGap(n) ==
  LET s == Bar(n, 720)
  IN  [Bare(n) EXCEPT
        !.own    = TRUE,
        !.levels = <<"trigger", "limit">>,
        !.marks  = <<MarkPast("gap", {s}, "trigger"),
                     Mark("unfilled", {Min({s + 4, End(n) - 1})})>>,
        !.guards = {Guard("trigger", {s - 1}, Span(0, s)),
                    Guard("limit", {}, Span(s + 1, End(n)))}]

TradeAnatomy(n) ==
  LET r == Bar(n, 840)
  IN  [Bare(n) EXCEPT
        !.own    = TRUE,
        !.levels = <<"confluence", "entry", "stop", "target">>,
        !.marks  = <<MarkPast("rejection", {r}, "confluence")>>,
        !.guards = {Guard("confluence", Visits(n, {150, 310}, At(n, 20)), Span(0, Bar(n, 370))),
                    Guard("confluence", Swing(n, 800), Span(Bar(n, 480), End(n)) \ {r}),
                    Guard("tip", {}, Span(0, End(n)) \ {r})}]
=============================================================================
