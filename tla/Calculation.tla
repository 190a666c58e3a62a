---------------------------- MODULE Calculation ----------------------------
(***************************************************************************)
(* Calculation exercises (exercises/calculation.py) and their formulas     *)
(* (exercises/formulas.py): a number is computed from sampled parameters   *)
(* and shown among three others, each of which a known mistake leads to.   *)
(*                                                                         *)
(* A number is a fraction <<n, d>> with d > 0 in lowest terms.  Decimal    *)
(* keeps 28 digits; the instances stay far below them, so rounding happens *)
(* only where the code quantizes.  The prose of worked solutions is left   *)
(* out: it prints the numbers computed here.                               *)
(***************************************************************************)
EXTENDS Quiz

CONSTANT SlipBound   \* bound on the arithmetic slips tried, see Slips

ASSUME SlipAssumption == SlipBound \in Nat

----------------------------------------------------------------------------
\* Fractions

Magnitude(n) == IF n < 0 THEN 0 - n ELSE n

Gcd[p \in Nat \X Nat] == IF p[2] = 0 THEN p[1] ELSE Gcd[<<p[2], p[1] % p[2]>>]

\* n / d in lowest terms; d may be negative.
Lowest[q \in Int \X Int] ==
  LET g == Gcd[<<Magnitude(q[1]), Magnitude(q[2])>>]
      n == IF q[2] < 0 THEN 0 - q[1] ELSE q[1]
  IN  <<n \div g, Magnitude(q[2]) \div g>>
Frac(n, d) == Lowest[<<n, d>>]
Whole(n) == <<n, 1>>

a ++ b == Frac(a[1] * b[2] + b[1] * a[2], a[2] * b[2])
a -- b == Frac(a[1] * b[2] - b[1] * a[2], a[2] * b[2])
a ** b == Frac(a[1] * b[1], a[2] * b[2])
a // b == Frac(a[1] * b[2], a[2] * b[1])
Neg(a) == <<0 - a[1], a[2]>>
One == Whole(1)
Two == Whole(2)

\* quantize: the nearest multiple of 10^-digits, as a number of those units,
\* a tie going to the even one.
Quantized(a, digits) ==
  LET n == a[1] * 10 ^ digits
      down == n \div a[2]
      rest == 2 * (n % a[2])
  IN  IF rest < a[2] \/ (rest = a[2] /\ down % 2 = 0) THEN down ELSE down + 1

----------------------------------------------------------------------------
\* Formulas and their mistakes.  p gives each argument its value.

Signed(p, q) == IF p.side = "long" THEN q ELSE Neg(q)

\* One plus or minus the margin rates, as the side has it.
LiquidationFactor(p, imr, mmr) == One ++ Signed(p, mmr -- imr)
Liquidation(p) ==
  p.entry ** LiquidationFactor(p, One // p.leverage, p.mmr)
LiquidationMistakes(p) ==
  LET imr == One // p.leverage
      at(i, m) == p.entry ** LiquidationFactor(p, i, m)
      sign == IF p.side = "long" THEN "subtract mmr" ELSE "add mmr"
  IN  << <<"forget mmr", at(imr, Whole(0))>>,
         <<sign, at(imr, Neg(p.mmr))>>,
         <<"double the cushion", at(Two ** imr, p.mmr)>> >>

Funding(p) == Signed(p, p.notional ** p.rate)
FundingMistakes(p) ==
  << <<"wrong side", Neg(Funding(p))>>,
     <<"two intervals", Funding(p) ** Two>>,
     <<"half an interval", Funding(p) // Two>> >>

InitialMargin(p) == (p.entry ** p.quantity) // p.leverage
InitialMarginMistakes(p) ==
  LET notional == p.entry ** p.quantity
  IN  << <<"half the position", (notional // p.leverage) // Two>>,
         <<"leverage minus one",
           IF p.leverage[1] > p.leverage[2] THEN notional // (p.leverage -- One)
                                            ELSE notional ** Two>>,
         <<"leverage plus one", notional // (p.leverage ++ One)>> >>

PnlGross(p) == Signed(p, p.quantity ** (p.exit -- p.entry))
PnlFees(p) == p.fee_rate ** p.quantity ** (p.entry ++ p.exit)
NetPnl(p) == PnlGross(p) -- PnlFees(p)
NetPnlMistakes(p) ==
  << <<"forget fees", PnlGross(p)>>,
     <<"fee on one fill", PnlGross(p) -- (PnlFees(p) // Two)>>,
     <<"move the wrong way round", Neg(PnlGross(p)) -- PnlFees(p)>> >>

MarketCap(p) == p.price ** p.circulating
MarketCapMistakes(p) ==
  << <<"1.5 times the supply", MarketCap(p) ** <<3, 2>> >>,
     <<"0.6 times the supply", MarketCap(p) ** <<3, 5>> >>,
     <<"double-count the supply", MarketCap(p) ** Two>> >>

Fdv(p) == p.price ** p.max_supply
FdvMistakes(p) ==
  << <<"0.5 times the supply", Fdv(p) ** <<1, 2>> >>,
     <<"1.4 times the supply", Fdv(p) ** <<7, 5>> >>,
     <<"0.9 times the price", Fdv(p) ** <<9, 10>> >> >>

PositionSize(p) == (p.equity ** p.risk_pct) // p.stop_distance
PositionSizeMistakes(p) ==
  << <<"double the risk", Two ** PositionSize(p)>>,
     <<"halve the risk", PositionSize(p) // Two>>,
     <<"ten times too small", PositionSize(p) // Whole(10)>> >>

Expectancy(p) ==
  (p.win_rate ** p.avg_win) -- ((One -- p.win_rate) ** p.avg_loss)
ExpectancyMistakes(p) ==
  LET won == p.win_rate ** p.avg_win
  IN  << <<"win rate for losses too", won -- (p.win_rate ** p.avg_loss)>>,
         <<"add the losing side", won ++ ((One -- p.win_rate) ** p.avg_loss)>>,
         <<"ignore the losing trades", won>> >>

NetDelta(p) == p.taker_buy -- p.taker_sell
NetDeltaMistakes(p) ==
  << <<"add the two sides", p.taker_buy ++ p.taker_sell>>,
     <<"sell minus buy", Neg(NetDelta(p))>>,
     <<"only the buying", p.taker_buy>> >>

VenuePremium(p) == ((p.price_b -- p.price_a) // p.price_a) ** Whole(100)
VenuePremiumMistakes(p) ==
  LET gap == p.price_b -- p.price_a
  IN  << <<"divide by the other venue", (gap // p.price_b) ** Whole(100)>>,
         <<"premium the wrong way round", Neg(VenuePremium(p))>>,
         <<"no percentage", gap // p.price_a>> >>

StyleCost(p, fee) ==
  CASE p.style = "scalper" -> fee ** p.round_trips
    [] p.style = "swing" -> fee ++ (p.funding_rate ** p.notional ** p.funding_intervals)
    [] OTHER -> fee
StyleFee(p) == p.fee_rate ** p.notional ** Two
StyleNet(p) == (p.notional ** p.gross_pct) -- StyleCost(p, StyleFee(p))
StyleNetMistakes(p) ==
  LET gross == p.notional ** p.gross_pct
  IN  << <<"ignore trading costs", gross>>,
         <<"fee on one fill", gross -- StyleCost(p, StyleFee(p) // Two)>>,
         <<"one round trip, no funding", gross -- StyleFee(p)>> >>

\* The registry of formulas: what each needs, computes and may confuse.
Arguments ==
  [liquidation_price       |-> {"entry", "leverage", "mmr", "side"},
   funding_payment         |-> {"notional", "rate", "side"},
   initial_margin          |-> {"entry", "quantity", "leverage"},
   net_pnl                 |-> {"entry", "exit", "quantity", "side", "fee_rate"},
   market_cap              |-> {"price", "circulating"},
   fdv                     |-> {"price", "max_supply"},
   position_size_from_risk |-> {"equity", "risk_pct", "stop_distance"},
   expectancy              |-> {"win_rate", "avg_win", "avg_loss"},
   net_delta               |-> {"taker_buy", "taker_sell"},
   venue_premium_pct       |-> {"price_a", "price_b"},
   style_net_result        |-> {"notional", "gross_pct", "style", "fee_rate",
                                "round_trips", "funding_rate", "funding_intervals"}]

Compute(formula, p) ==
  CASE formula = "liquidation_price"       -> Liquidation(p)
    [] formula = "funding_payment"         -> Funding(p)
    [] formula = "initial_margin"          -> InitialMargin(p)
    [] formula = "net_pnl"                 -> NetPnl(p)
    [] formula = "market_cap"              -> MarketCap(p)
    [] formula = "fdv"                     -> Fdv(p)
    [] formula = "position_size_from_risk" -> PositionSize(p)
    [] formula = "expectancy"              -> Expectancy(p)
    [] formula = "net_delta"               -> NetDelta(p)
    [] formula = "venue_premium_pct"       -> VenuePremium(p)
    [] formula = "style_net_result"        -> StyleNet(p)

Mistakes(formula, p) ==
  CASE formula = "liquidation_price"       -> LiquidationMistakes(p)
    [] formula = "funding_payment"         -> FundingMistakes(p)
    [] formula = "initial_margin"          -> InitialMarginMistakes(p)
    [] formula = "net_pnl"                 -> NetPnlMistakes(p)
    [] formula = "market_cap"              -> MarketCapMistakes(p)
    [] formula = "fdv"                     -> FdvMistakes(p)
    [] formula = "position_size_from_risk" -> PositionSizeMistakes(p)
    [] formula = "expectancy"              -> ExpectancyMistakes(p)
    [] formula = "net_delta"               -> NetDeltaMistakes(p)
    [] formula = "venue_premium_pct"       -> VenuePremiumMistakes(p)
    [] formula = "style_net_result"        -> StyleNetMistakes(p)

----------------------------------------------------------------------------
\* Configurations and instances

ValidSpec(spec) ==
  \/ spec.kind = "int_range" /\ spec.max >= spec.min /\ spec.step > 0
  \/ spec.kind = "choice" /\ spec.values # << >>

ValidCalculation(config) ==
  /\ \A name \in DOMAIN config.params : ValidSpec(config.params[name])
  /\ config.formula \in DOMAIN Arguments
  /\ Arguments[config.formula] \subseteq DOMAIN config.params

\* What a parameter may be sampled as.
Samples(spec) ==
  IF spec.kind = "choice" THEN ToSet(spec.values)
  ELSE {Whole(spec.min + i * spec.step) : i \in 0..((spec.max - spec.min) \div spec.step)}

\* A seed draws the parameters and the order of the four options.
Sampled(config) ==
  LET sampled(name, ps) ==
        {p @@ (name :> v) : p \in ps, v \in Samples(config.params[name])}
  IN  FoldSet(sampled, {<< >>}, DOMAIN config.params)
CalculationSeeds(config) ==
  [params : Sampled(config), order : Shuffles(1..4)]

Entry(value, mistake) == [value |-> value, mistake |-> mistake]

\* What the mistakes lead to, in units of 10^-round, and the values that are not
\* absurdly large next to the right one.
Mistaken(mistakes, round) ==
  [i \in DOMAIN mistakes |-> Entry(Quantized(mistakes[i][2], round), mistakes[i][1])]
Sound(right, round) ==
  LET slack == 8 * Magnitude(right) + 50 * 10 ^ round
  IN  (0 - slack)..slack

\* Slips of 5%, 10%... alternately up and down.  The code tries them until there
\* are three wrong values; SlipBound are enough in the instances.
Slips(expected, right, round) ==
  LET base == Frac(Max({Magnitude(right), 10 ^ round}), 10 ^ round)
      delta(k) == base ** Frac(IF k % 2 = 1 THEN k ELSE 0 - k, 20)
  IN  [k \in 1..SlipBound |-> Entry(Quantized(expected ++ delta(k), round), "slip")]

\* Fault: a mistake that rounds to a value already there is kept.
Take_Repeats(entries, c, range) ==
  IF Len(entries) = 4 \/ c.value \notin range \/ c.value = entries[1].value THEN entries
  ELSE Append(entries, c)

Take(entries, c, range) ==
  IF \/ Len(entries) = 4
     \/ c.value \notin range
     \/ \E i \in DOMAIN entries : entries[i].value = c.value
    THEN entries
    ELSE Append(entries, c)

\* The right value and three others: mistakes, then slips if they are too few.
TakeAll(entries, cs, range) ==
  FoldLeft(LAMBDA es, c : Take(es, c, range), entries, cs)
Filled(entries, slips) ==
  IF Len(entries) = 4 THEN entries ELSE TakeAll(entries, slips, Int)
EntriesOf(expected, mistakes, right, round) ==
  Filled(TakeAll(<<Entry(right, Absent)>>, Mistaken(mistakes, round), Sound(right, round)),
         Slips(expected, right, round))
EntriesFor(expected, mistakes, round) ==
  EntriesOf(expected, mistakes, Quantized(expected, round), round)
Entries(config, p) ==
  EntriesFor(Compute(config.formula, p), Mistakes(config.formula, p), config.round)

\* An option is named by its slot and shows a value.
Arranged(entries, order) == [slot \in 1..4 |-> entries[order[slot]]]
Options(config, seed) == Arranged(Entries(config, seed.params), seed.order)

OptionsPage(options) ==
  [kind    |-> "multiple_choice",
   options |-> [slot \in 1..4 |-> slot],
   values  |-> [slot \in 1..4 |-> options[slot].value]]
CalculationPayload(config, seed) == OptionsPage(Options(config, seed))

OptionsKey(options) ==
  LET right == CHOOSE slot \in 1..4 : options[slot].mistake = Absent
  IN  [optionId |-> right, value |-> options[right].value]
CalculationKey(config, seed) == OptionsKey(Options(config, seed))

CalculationGrade(config, seed, answer) ==
  ChoiceGrade("optionId", CalculationKey(config, seed), answer)

\* Fault: the mistakes are kept in the order they had before the shuffle.
Diagnosis_Unshuffled(config, seed, slot) == Entries(config, seed.params)[slot].mistake

\* The mistake a worked solution names for a wrong option.
Diagnosis(config, seed, slot) == Options(config, seed)[slot].mistake

============================================================================
