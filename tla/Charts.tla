------------------------------- MODULE Charts -------------------------------
(***************************************************************************)
(* Chart exercises (exercises/pattern_chart.py, synthetic_chart.py and     *)
(* fixture_chart.py) and the figures of lessons (exercises/figures.py):    *)
(* from what an injector builds to what a learner is shown and what        *)
(* grading reveals.                                                        *)
(*                                                                         *)
(* A series is given by its length and a mark by the bars it may be at.    *)
(***************************************************************************)
EXTENDS Patterns, Quiz

----------------------------------------------------------------------------
\* The registry of injectors

Labels ==
  [fakeout             |-> {"genuine_breakout", "false_break", "no_break"},
   wyckoff             |-> {"accumulation", "distribution", "none"},
   liquidity_sweep     |-> {"liquidity_sweep", "liquidation_cascade"},
   origin_zone         |-> {"zone_respected", "zone_failed", "no_zone"},
   imbalance           |-> {"imbalance_unfilled", "imbalance_filled", "no_imbalance"},
   cvd_divergence      |-> {"cvd_bullish_divergence", "cvd_bearish_divergence",
                            "cvd_confirms"},
   derivatives         |-> {"rising_oi", "falling_oi", "flat_oi"},
   candle_reaction     |-> DOMAIN Judgment \cup DOMAIN Forms,
   fibonacci           |-> {"retrace_382", "retrace_500", "retrace_618"},
   ma_context          |-> {"uptrend", "downtrend", "range"},
   macd_cross          |-> {"signal_cross", "zero_cross", "whipsaw"},
   oscillator_reading  |-> {"overbought", "oversold", "neutral"},
   multi_timeframe     |-> DOMAIN Turns \cup {"top_is_higher_frame", "bottom_is_higher_frame"},
   volatility_bands    |-> {"compression", "expansion"},
   volume_confirmation |-> {"confirmed_breakout", "unconfirmed_breakout"},
   trend_channel       |-> {"line_holds", "line_break", "line_fakeout", "channel_intact",
                            "channel_broken", "channel_failed"},
   converging_lines    |-> {"rising_wedge", "falling_wedge", "symmetric_triangle",
                            "ascending_triangle", "descending_triangle", "parallel_channel",
                            "break_confirmed", "break_unconfirmed", "compression_holding"},
   market_structure    |-> {"uptrend_ladder", "choch_after_uptrend"},
   stop_limit_gap      |-> {"unfilled_stop_limit"},
   trade_anatomy       |-> {"long_setup"}]

\* What is drawn besides prices: the side of a level, a form or a shape.
Draws(injector, target) ==
  CASE injector \in {"fakeout", "volume_confirmation"} -> Sides
    [] injector = "candle_reaction" ->
         IF target \in DOMAIN Judgment THEN Judgment[target] ELSE {target}
    [] injector = "multi_timeframe" ->
         IF target \in DOMAIN Turns THEN {target} ELSE DOMAIN Turns
    [] OTHER -> {"nothing"}

Build(injector, n, target, draw) ==
  CASE injector = "fakeout"             -> Fakeout(n, target, draw)
    [] injector = "wyckoff"             -> Wyckoff(n, target)
    [] injector = "liquidity_sweep"     -> LiquiditySweep(n, target)
    [] injector = "origin_zone"         -> OriginZone(n, target)
    [] injector = "imbalance"           -> Imbalance(n, target)
    [] injector = "cvd_divergence"      -> CvdDivergence(n)
    [] injector = "derivatives"         -> Derivatives(n)
    [] injector = "candle_reaction"     -> CandleReaction(n, target, draw)
    [] injector = "fibonacci"           -> Fibonacci(n)
    [] injector = "ma_context"          -> MaContext(n)
    [] injector = "macd_cross"          -> MacdCross(n)
    [] injector = "oscillator_reading"  -> OscillatorReading(n)
    [] injector = "multi_timeframe"     -> MultiTimeframe(n, target, draw)
    [] injector = "volatility_bands"    -> VolatilityBands(n, target)
    [] injector = "volume_confirmation" -> VolumeConfirmation(n, draw)
    [] injector = "trend_channel"       -> TrendChannel(n, target)
    [] injector = "converging_lines"    -> ConvergingLines(n, target)
    [] injector = "market_structure"    -> MarketStructure(n, target)
    [] injector = "stop_limit_gap"      -> StopLimitGap(n)
    [] injector = "trade_anatomy"       -> TradeAnatomy(n)

\* hides_resolution: the label is how the pattern resolves, after the chart ends.
Hiding == {"fakeout", "wyckoff", "origin_zone", "imbalance", "cvd_divergence",
           "derivatives", "volume_confirmation", "trend_channel"}

\* Those whose attempts to draw the label may all fail, and raise.
Unplantable == {"cvd_divergence", "volatility_bands"}

Length(chart) == chart.warmup + chart.bars

\* Annotations and diagonals in the coordinates of the chart that is shown.
\* What is left of the list of marks keeps its numbers.
MarksShown(marks, w) ==
  [i \in {k \in DOMAIN marks : \E bar \in marks[k].at : bar >= w} |->
     [label |-> marks[i].label, at |-> {bar - w : bar \in marks[i].at}]]
LinesShown(lines, w) ==
  [i \in DOMAIN lines |->
     Line(lines[i].label, lines[i].start - w, lines[i].end - w)]

----------------------------------------------------------------------------
\* Pattern charts

ValidPattern(config) ==
  LET targets == ToSet(config.targets)
      choices == ToSet(config.choices)
  IN  /\ config.injector \in DOMAIN Labels
      /\ targets # {}
      /\ targets \subseteq choices
      /\ choices \subseteq Labels[config.injector]

\* The charts an injector may build for a label.
ChartsFor(injector, n, target) ==
  {Build(injector, n, target, draw) : draw \in Draws(injector, target)}

\* A seed draws the target and the chart that is built for it.
PatternSeeds(config) ==
  UNION {{[target |-> t, chart |-> c] : c \in ChartsFor(config.injector, config.n, t)} :
         t \in ToSet(config.targets)}

\* Fault: the shaded zones are drawn before the answer, as in a figure.
Shapes_WithBands(chart) ==
  [levels |-> chart.levels, bands |-> chart.bands,
   diagonals |-> LinesShown(chart.diagonals, chart.warmup)]

\* The fields of two objects (@@ of TLC, which proofs cannot expand).
Joined(f, g) ==
  [x \in DOMAIN f \cup DOMAIN g |-> IF x \in DOMAIN f THEN f[x] ELSE g[x]]

\* A second frame, and on which side of the first it is drawn.
Framed(payload, chart, candles) ==
  IF chart.position = "none" THEN payload
  ELSE Joined(payload, [context |-> candles, position |-> chart.position])

\* What is drawn besides series.  Bands and marks stay with the answer, and
\* two frames do not say which is the higher one.
Shapes(chart) ==
  [levels |-> chart.levels, diagonals |-> LinesShown(chart.diagonals, chart.warmup)]

\* Every series starts at the first bar that is shown.
PatternPayload(config, seed) ==
  LET chart == seed.chart
      w == chart.warmup
      shown == Length(chart) - w
      series ==
        [choices  |-> config.choices,
         candles  |-> shown,
         panes    |-> [pane \in chart.panes \cup {"rsi", "macd"} |-> shown],
         overlays |-> [name \in chart.overlays |-> shown]]
  IN  Framed(Joined(series, Shapes(chart)), chart, (Length(chart) \div RATIO) - (w \div RATIO))

PatternKey(config, seed) ==
  LET chart == seed.chart
      key == [label |-> seed.target, annotations |-> MarksShown(chart.marks, chart.warmup)]
  IN  IF chart.bands = {} THEN key ELSE Joined(key, [bands |-> chart.bands])

----------------------------------------------------------------------------
\* Divergence charts: drawn, or picked among recorded ones

Divergences == {"bullish_regular", "bullish_hidden", "bearish_regular",
                "bearish_hidden", "none"}

\* The two swings that diverge; up to eight paths are tried and all may fail.
DivergenceMarks(n, target) ==
  CASE target = "none" -> << >>
    [] target \in {"bullish_regular", "bearish_regular"} ->
         <<Mark("1", Swing(n, 460)), Mark("2", Swing(n, 900))>>
    [] target \in {"bullish_hidden", "bearish_hidden"} ->
         <<Mark("1", Swing(n, 330)), Mark("2", Swing(n, 880))>>

ValidSynthetic(config) ==
  /\ config.targets # << >>
  /\ ToSet(config.targets) \subseteq ToSet(config.choices)
  /\ ToSet(config.choices) \subseteq Divergences

SyntheticSeeds(config) == [target : ToSet(config.targets)]

SyntheticPayload(config, seed) ==
  [choices |-> config.choices,
   candles |-> End(config.n) - WARMUP,
   panes   |-> [pane \in {"rsi", "macd"} |-> End(config.n) - WARMUP]]

SyntheticKey(config, seed) ==
  [divergence  |-> seed.target,
   annotations |-> MarksShown(DivergenceMarks(config.n, seed.target), WARMUP)]

\* A recorded chart: its label, lengths and swings.
ValidFixtures(config) ==
  /\ config.fixtures # << >>
  /\ {f.label : f \in ToSet(config.fixtures)} \subseteq ToSet(config.choices)
  /\ ToSet(config.choices) \subseteq Divergences

FixtureSeeds(config) == DOMAIN config.fixtures

FixturePayload(config, seed) ==
  [choices |-> config.choices,
   candles |-> config.fixtures[seed].candles,
   panes   |-> config.fixtures[seed].panes]

FixtureKey(config, seed) ==
  [divergence  |-> config.fixtures[seed].label,
   annotations |-> config.fixtures[seed].marks]

----------------------------------------------------------------------------
\* Figures

ResolutionCandles == 24

ValidPanel(panel) ==
  \/ /\ panel.generator = "pattern_chart"
     /\ panel.injector \in DOMAIN Labels
     /\ panel.target \in Labels[panel.injector]
  \/ panel.generator = "synthetic_chart" /\ panel.target \in Divergences

ValidFigure(spec) ==
  /\ spec.kind = "chart" => spec.panels # << >>
  /\ spec.kind = "svg" => spec.svg # Absent
  /\ \A i \in DOMAIN spec.panels : ValidPanel(spec.panels[i])

\* Injectors that draw again over the candles the resolution adds.
FigureOverlays == {"volatility_bands"}
FigureMomentum == {"volatility_bands"}
FigureContext == {"multi_timeframe"}
FigureAnnotations == {"wyckoff"}

PanelCharts(panel) ==
  IF panel.generator = "synthetic_chart"
    THEN {[Bare(panel.n) EXCEPT !.marks = DivergenceMarks(panel.n, panel.target)]}
    ELSE ChartsFor(panel.injector, panel.n, panel.target)

PanelMarks(panel, chart) ==
  IF panel.generator = "pattern_chart" /\ panel.injector \in FigureAnnotations
    THEN WyckoffFigureMarks(panel.n, panel.target)
    ELSE chart.marks

\* extended: the line goes on to the last candle.
Extended(line, end) == Line(line.label, line.start, end)

\* Fault: the frames are not drawn again, so the higher one stops early.
PanelContext_Stale(panel, chart, candles) == Length(chart) \div RATIO

PanelContext(panel, chart, candles) ==
  IF panel.injector \in FigureContext THEN candles \div RATIO
  ELSE Length(chart) \div RATIO

\* The candles that resolve the pattern are added to the path, and to each
\* pane in the way that pane allows.
PanelPayload(panel, chart) ==
  LET w == chart.warmup
      path == Length(chart) + (IF panel.show_resolution THEN ResolutionCandles ELSE 0)
      candles == IF chart.own /\ ~panel.show_resolution THEN Length(chart) ELSE path
      pane(p) == IF p \notin {"momentum", "momentum_state"} THEN path
                 ELSE IF panel.injector \in FigureMomentum THEN candles ELSE Length(chart)
      overlay(name) == IF panel.injector \in FigureOverlays THEN candles
                       ELSE IF name \in {"ema20", "ema50"} THEN path ELSE Length(chart)
      lines == [i \in DOMAIN chart.diagonals |-> Extended(chart.diagonals[i], candles - 1)]
      drawn ==
        [candles     |-> candles - w,
         panes       |-> [p \in chart.panes \cup {"rsi", "macd"} |-> pane(p) - w],
         overlays    |-> [name \in chart.overlays |-> overlay(name) - w],
         levels      |-> chart.levels,
         bands       |-> chart.bands,
         diagonals   |-> LinesShown(lines, w),
         annotations |-> MarksShown(PanelMarks(panel, chart), w)]
  IN  Framed(drawn, chart, PanelContext(panel, chart, candles) - (w \div RATIO))
=============================================================================
