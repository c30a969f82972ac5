--------------------------- MODULE ConversionRules ---------------------------
(***************************************************************************)
(* The arithmetic of a conversion decision, as operators on what is known: *)
(*   packages/risk-engine/src/regime-classifier.ts  determineRegime         *)
(*   packages/conversion-engine/src/                fetchMarketSignals,     *)
(*     scoreWRP, scoreAVAX, classifyConversionState, the triggers, evaluate *)
(*   packages/accumulation-engine/src/index.ts      the WRP unit test       *)
(* Scores and hurdles are in 1/10000 points, trends, slopes and slippage in *)
(* 1/10000, qualities and relative volumes in 1/100, multipliers in 1/10.   *)
(* Each threshold of the code is the same number in these units, so that    *)
(* every comparison is exact.                                               *)
(***************************************************************************)
EXTENDS Integers

CONSTANT NoData    \* a cache entry that was never filled

Least(a, b) == IF a < b THEN a ELSE b
Clamp(lo, x, hi) == IF x < lo THEN lo ELSE Least(x, hi)
Magnitude(x) == IF x < 0 THEN -x ELSE x

-----------------------------------------------------------------------------
(* Regimes.  g is what computeSignals sums up of the last hour:             *)
(*   fail    share of executions that failed, in percent                    *)
(*   sigma   spread of the opportunities' gross profits, in dollars         *)
(*   spread  mean net profit of the opportunities, in basis points          *)
(*   trend   "up", "down" or "neutral", from the last three profits         *)
(*   liq     liquidity of the tracked pairs; 0 when the feed has none,      *)
(*           fails, or no token is tracked yet                              *)

LpDepthScore(liq) ==
  CASE liq > 100000 -> 100
    [] liq > 50000 /\ liq <= 100000 -> 75
    [] liq > 20000 /\ liq <= 50000 -> 50
    [] liq > 5000 /\ liq <= 20000 -> 30
    [] OTHER -> 10

\* The condition under which determineRegime returns a regime, looked at alone.
Calls(regime, g) ==
  CASE regime = "SAFE_MODE" -> g.fail > 80
    [] regime = "LP_THIN" -> g.liq \in 1 .. 1999 \/ LpDepthScore(g.liq) < 10
    [] regime = "INV_STRESS" -> g.fail > 50
    [] regime = "HIGH_VOL" -> g.sigma > 50
    [] regime = "GAP_RISK" -> g.liq \in 1 .. 9999 \/ LpDepthScore(g.liq) < 25
    [] regime = "TREND_UP" -> g.trend = "up" /\ g.spread > 15
    [] regime = "TREND_DOWN" -> g.trend = "down" /\ g.spread > 15
    [] regime = "RANGE_MR" -> g.spread > 10 /\ g.sigma < 20
    [] regime = "NORMAL" -> TRUE

\* The order of the tests.
Order == <<"SAFE_MODE", "LP_THIN", "INV_STRESS", "HIGH_VOL", "GAP_RISK",
           "TREND_UP", "TREND_DOWN", "RANGE_MR", "NORMAL">>

Regime == {Order[i] : i \in DOMAIN Order}

\* Mutant: volatility is looked at before the failures.
DetermineRegimeVolatile(g) ==
  IF Calls("HIGH_VOL", g) THEN "HIGH_VOL"
  ELSE Order[CHOOSE i \in DOMAIN Order :
               Calls(Order[i], g) /\ \A j \in 1 .. i - 1 : ~Calls(Order[j], g)]

DetermineRegime(g) ==
  Order[CHOOSE i \in DOMAIN Order :
          Calls(Order[i], g) /\ \A j \in 1 .. i - 1 : ~Calls(Order[j], g)]

\* REGIME_CONFIGS: the rank of "priority", and whether "algorithm" is HALTED.
Rank ==
  [SAFE_MODE |-> 3, LP_THIN |-> 2, INV_STRESS |-> 3, HIGH_VOL |-> 1, GAP_RISK |-> 2,
   TREND_UP |-> 1, TREND_DOWN |-> 1, RANGE_MR |-> 0, NORMAL |-> 0]

Halted == {"SAFE_MODE", "INV_STRESS"}

\* EXTENDED_REGIME_CONFIGS: conversionAllowed, and the multipliers of the
\* sleeve, of the score hurdle and of the unit gain.
Posture(allowed, sleeve, hurdle, gain) ==
  [allowed |-> allowed, sleeve |-> sleeve, hurdle |-> hurdle, gain |-> gain]

Extended ==
  [r \in Regime |->
     CASE r \in {"SAFE_MODE", "LP_THIN", "INV_STRESS", "GAP_RISK"} -> Posture(FALSE, 0, 9990, 9990)
       [] r = "HIGH_VOL" -> Posture(TRUE, 5, 15, 15)
       [] r = "TREND_DOWN" -> Posture(TRUE, 3, 20, 20)
       [] OTHER -> Posture(TRUE, 10, 10, 10)]

-----------------------------------------------------------------------------
(* Market signals.  A cached answer is                                      *)
(*   btc   above (its 21-hour mean), slope (of that mean), vol (percent)    *)
(*   wrp   price (dollars), change (of 24 hours, percent), liq, volume      *)
(*   avax  volume                                                           *)

\* Volumes are compared with 0.8 of themselves, so all but the smallest look
\* like 1.25 times the average.
RelativeVolume(volume) == IF volume <= 1 THEN 100 ELSE 125

Trend(change) ==
  CASE change > 2 -> 20
    [] change \in 1 .. 2 -> 5
    [] change < -2 -> -20
    [] change \in -2 .. -1 -> -5
    [] OTHER -> 0

Slippage(liq) ==
  CASE liq > 100000 -> 20
    [] liq > 50000 /\ liq <= 100000 -> 50
    [] liq > 10000 /\ liq <= 50000 -> 100
    [] OTHER -> 300

\* The price's distance to the mean of five multiples of itself whose mean it is.
ZScore == 0

\* What the code assumes of a market it has no answer for.
BtcOrDefault(b) == IF b = NoData THEN [above |-> TRUE, slope |-> 0, vol |-> 0] ELSE b
WrpOrDefault(w) == IF w = NoData THEN [price |-> 1, change |-> 0, liq |-> 0, volume |-> 0] ELSE w
VolumeOrDefault(v) == IF v = NoData THEN 0 ELSE v

Signals(b, w, v) ==
  LET btc == BtcOrDefault(b)
      wrp == WrpOrDefault(w)
      c == wrp.change
  IN [ btcAbove |-> btc.above, btcSlope |-> btc.slope, btcVol |-> btc.vol,
       trend |-> Trend(c), wrpAbove |-> c > -3, zScore |-> ZScore,
       wrpVolume |-> RelativeVolume(wrp.volume),
       avaxVolume |-> RelativeVolume(VolumeOrDefault(v)),
       trendQuality |-> Clamp(0, 50 + 5 * c, 100),
       pullbackQuality |-> Clamp(0, 50 - (20 * Magnitude(c) + 3) \div 6, 100),
       slippage |-> Slippage(wrp.liq), price |-> wrp.price ]

-----------------------------------------------------------------------------
(* Scores, states and triggers                                              *)

ScoreWRP(s) ==
  Clamp(-1000000,
        20 * s.trend + 1500 * s.trendQuality + 1000 * s.pullbackQuality
          + (IF s.btcAbove THEN 80000 ELSE -80000)
          + (IF s.wrpAbove THEN 100000 ELSE -100000)
          + 500 * (s.wrpVolume - 100)
          - 800 * s.zScore - 5000 * s.btcVol - 200 * s.slippage,
        1000000)

ScoreAVAX(s) ==
  Clamp(-1000000,
        (IF s.btcAbove THEN 100000 ELSE 50000) + 300 * s.avaxVolume - 15 * s.trend
          + 3000 * s.btcVol - (IF s.wrpAbove THEN 80000 ELSE 0),
        1000000)

BtcUp(s) == s.btcAbove /\ s.btcSlope > 0

ConversionState(s) ==
  CASE BtcUp(s) /\ s.zScore <= 150 -> "A"
    [] BtcUp(s) /\ s.zScore > 150 -> "B"
    [] ~BtcUp(s) /\ s.trend > 0 /\ s.wrpAbove -> "C"
    [] OTHER -> "D"

\* CONVERSION_STATE_CONFIGS, maxDeployOrTrimPct.
MaxShare == [A |-> 8, B |-> 3, C |-> 2, D |-> 6]

\* evaluateAvaxToWrpTriggers: which of the conditions hold.
BuyTriggers(s) ==
  { t \in 1 .. 6 :
      CASE t = 1 -> s.btcAbove \/ s.btcSlope > -100
        [] t = 2 -> s.trend >= 0
        [] t = 3 -> s.wrpAbove
        [] t = 4 -> s.wrpVolume > 120
        [] t = 5 -> s.trend > 10
        [] t = 6 -> s.zScore < 150 }

\* evaluateWrpToAvaxTriggers.
SellTriggers(s) ==
  { t \in 1 .. 5 :
      CASE t = 1 -> s.zScore > 150
        [] t = 2 -> s.trend < -10
        [] t = 3 -> ~s.btcAbove \/ s.btcSlope < 0
        [] t = 4 -> ~s.wrpAbove
        [] t = 5 -> s.wrpVolume > 150 /\ s.trend < 0 }

\* The first three and the fifth of evaluateNoTradeConditions: unclear regime,
\* poor signals, flat relative strength, uncertainty.  The others repeat the
\* hurdle, the unit test and the time since the last conversion.
UnclearButFlat(s) ==   \* Mutant: flat relative strength is no reason to stay out
  \/ Magnitude(s.btcSlope) < 50 /\ Magnitude(s.trend) < 5
  \/ s.trendQuality < 30 /\ s.pullbackQuality < 30
  \/ s.btcVol > 80

Unclear(s) ==
  \/ Magnitude(s.btcSlope) < 50 /\ Magnitude(s.trend) < 5
  \/ s.trendQuality < 30 /\ s.pullbackQuality < 30
  \/ Magnitude(s.trend) < 2
  \/ s.btcVol > 80

-----------------------------------------------------------------------------
(* The decision.  inv is the inventory of WRP units, [total, tactical].     *)

MaxConversion == 1000   \* maxSingleConversionUsd
HurdleScore == 15

\* proposedSizeUsd, in 1/10 dollars.
Size(s, posture, inv) ==
  Least(inv.tactical * s.price * MaxShare[ConversionState(s)],
        Least(10 * MaxConversion, MaxConversion * posture.sleeve))

\* evaluateConversionForWRPUnits: what is bought for the amount, less the costs, is
\* more than the required share of the units held (in 1/100000 dollars; a price of
\* zero buys nothing).
EvaluateConversionForWRPUnits(total, price, net, gain) ==
  price > 0 /\ net > 200 * gain * total * price

\* The unit test of a decision: fees, slippage, gas and buffer are costs.
UnitTest(s, posture, inv) ==
  EvaluateConversionForWRPUnits(inv.total, s.price,
    Size(s, posture, inv) * (10000 - 80 - s.slippage) - 15000, posture.gain)

Direction(s) == IF ScoreWRP(s) > ScoreAVAX(s) THEN "buy" ELSE "sell"

\* Mutant: the triggers of the other direction are counted too.
TriggersOkEither(s) ==
  \E T \in {BuyTriggers(s), SellTriggers(s)} :
    \E a, b, c \in T : a < b /\ b < c

\* REQUIRED_TRIGGER_COUNT of the direction's triggers passed: three.
TriggersOk(s) ==
  LET T == IF Direction(s) = "buy" THEN BuyTriggers(s) ELSE SellTriggers(s)
  IN \E a, b, c \in T : a < b /\ b < c

PassedHurdle(s, posture) ==
  Magnitude(ScoreWRP(s) - ScoreAVAX(s)) >= 1000 * HurdleScore * posture.hurdle

\* evaluate approves: no reason to block, and something to convert.  cooled
\* says that the last conversion is long enough ago.
Approves(s, regime, inv, cooled) ==
  LET posture == Extended[regime] IN
  /\ posture.allowed
  /\ PassedHurdle(s, posture)
  /\ TriggersOk(s)
  /\ UnitTest(s, posture, inv)
  /\ ~Unclear(s)
  /\ cooled
  /\ Size(s, posture, inv) > 0
=============================================================================
