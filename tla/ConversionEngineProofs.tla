----------------------- MODULE ConversionEngineProofs -----------------------
(* What ConversionEngine promises for every answer of the market, every sum  *)
(* of the last hour and every inventory, and that its explanation agrees.    *)
EXTENDS ConversionExplanation, FiniteSetTheorems, TLAPS

-----------------------------------------------------------------------------
(* Regimes                                                                   *)

HourSignal ==
  [fail : 0 .. 100, sigma : Nat, spread : Int, trend : {"up", "down", "neutral"}, liq : Nat]

\* determineRegime returns the first regime whose condition holds.
LEMMA RegimeIsFirst ==
  ASSUME NEW g \in HourSignal
  PROVE  \E i \in 1 .. 9 : /\ DetermineRegime(g) = Order[i]
                           /\ Calls(Order[i], g)
                           /\ \A j \in 1 .. i - 1 : ~Calls(Order[j], g)
  <1> DEFINE P(i) == Calls(Order[i], g)
             First(i) == P(i) /\ \A j \in 1 .. i - 1 : ~P(j)
  <1>1. DOMAIN Order = 1 .. 9
    BY DEF Order
  <1>2. P(9)
    BY DEF Order, Calls
  <1>3. \E i \in 1 .. 9 : First(i)
    <2> HIDE DEF P
    <2>1. CASE P(1)
      BY <2>1
    <2>2. CASE ~P(1) /\ P(2)
      <3>1. First(2)
        BY <2>2
      <3>2. QED
        BY <3>1
    <2>3. CASE ~P(1) /\ ~P(2) /\ P(3)
      <3>1. First(3)
        BY <2>3
      <3>2. QED
        BY <3>1
    <2>4. CASE ~P(1) /\ ~P(2) /\ ~P(3) /\ P(4)
      <3>1. First(4)
        BY <2>4
      <3>2. QED
        BY <3>1
    <2>5. CASE ~P(1) /\ ~P(2) /\ ~P(3) /\ ~P(4) /\ P(5)
      <3>1. First(5)
        BY <2>5
      <3>2. QED
        BY <3>1
    <2>6. CASE ~P(1) /\ ~P(2) /\ ~P(3) /\ ~P(4) /\ ~P(5) /\ P(6)
      <3>1. First(6)
        BY <2>6
      <3>2. QED
        BY <3>1
    <2>7. CASE ~P(1) /\ ~P(2) /\ ~P(3) /\ ~P(4) /\ ~P(5) /\ ~P(6) /\ P(7)
      <3>1. First(7)
        BY <2>7
      <3>2. QED
        BY <3>1
    <2>8. CASE ~P(1) /\ ~P(2) /\ ~P(3) /\ ~P(4) /\ ~P(5) /\ ~P(6) /\ ~P(7) /\ P(8)
      <3>1. First(8)
        BY <2>8
      <3>2. QED
        BY <3>1
    <2>9. CASE ~P(1) /\ ~P(2) /\ ~P(3) /\ ~P(4) /\ ~P(5) /\ ~P(6) /\ ~P(7) /\ ~P(8)
      <3>1. First(9)
        BY <1>2, <2>9
      <3>2. QED
        BY <3>1
    <2>10. QED
      BY <2>1, <2>2, <2>3, <2>4, <2>5, <2>6, <2>7, <2>8, <2>9
  <1>4. DetermineRegime(g) = Order[CHOOSE i \in 1 .. 9 : First(i)]
    BY <1>1 DEF DetermineRegime
  <1>5. QED
    <2> HIDE DEF P
    <2>1. PICK i \in 1 .. 9 : i = (CHOOSE k \in 1 .. 9 : First(k)) /\ First(i)
      BY <1>3
    <2>2. QED
      BY <1>4, <2>1 DEF P

\* The conditions, one by one.
LEMMA AlarmsMean ==
  ASSUME NEW g
  PROVE  /\ Calls("SAFE_MODE", g) <=> g.fail > 80
         /\ Calls("INV_STRESS", g) <=> g.fail > 50
         /\ Calls("HIGH_VOL", g) <=> g.sigma > 50
  BY DEF Calls

LEMMA DepthsMean ==
  ASSUME NEW g
  PROVE  /\ g.liq \in 1 .. 1999 => Calls("LP_THIN", g)
         /\ LpDepthScore(g.liq) < 25 => Calls("GAP_RISK", g)
  <1>1. ASSUME g.liq \in 1 .. 1999 PROVE Calls("LP_THIN", g)
    BY <1>1 DEF Calls
  <1>2. ASSUME LpDepthScore(g.liq) < 25 PROVE Calls("GAP_RISK", g)
    BY <1>2 DEF Calls
  <1>3. QED
    BY <1>1, <1>2

\* What the place of a regime in that order excludes, regime by regime.
LEMMA RegimeExcludes ==
  ASSUME NEW g \in HourSignal, NEW r, r = DetermineRegime(g)
  PROVE  /\ r \in Regime /\ Calls(r, g)
         /\ r # "SAFE_MODE" => ~Calls("SAFE_MODE", g)
         /\ r \notin {"SAFE_MODE", "LP_THIN"} =>
              ~Calls("LP_THIN", g)
         /\ r \notin {"SAFE_MODE", "LP_THIN", "INV_STRESS"} =>
              ~Calls("INV_STRESS", g)
         /\ r \notin {"SAFE_MODE", "LP_THIN", "INV_STRESS", "HIGH_VOL"} =>
              ~Calls("HIGH_VOL", g)
         /\ r \notin {"SAFE_MODE", "LP_THIN", "INV_STRESS", "HIGH_VOL", "GAP_RISK"} =>
              ~Calls("GAP_RISK", g)
         /\ r \in {"RANGE_MR", "NORMAL"} => ~Calls("TREND_UP", g) /\ ~Calls("TREND_DOWN", g)
  <1>1. PICK i \in 1 .. 9 : /\ r = Order[i] /\ Calls(Order[i], g)
                            /\ \A j \in 1 .. i - 1 : ~Calls(Order[j], g)
    BY RegimeIsFirst
  <1>2. /\ Order[1] = "SAFE_MODE" /\ Order[2] = "LP_THIN" /\ Order[3] = "INV_STRESS"
        /\ Order[4] = "HIGH_VOL" /\ Order[5] = "GAP_RISK" /\ Order[6] = "TREND_UP"
        /\ Order[7] = "TREND_DOWN" /\ Order[8] = "RANGE_MR" /\ Order[9] = "NORMAL"
        /\ DOMAIN Order = 1 .. 9
    BY DEF Order
  <1>3. r \in Regime /\ Calls(r, g)
    BY <1>1, <1>2 DEF Regime
  <1>4. \A j \in 1 .. 9 : j < i => ~Calls(Order[j], g)
    BY <1>1
  <1>5. r # "SAFE_MODE" => ~Calls("SAFE_MODE", g)
    <2>1. ASSUME r # "SAFE_MODE"
          PROVE  i > 1
      <3>1. i # 1
        BY <1>1, <1>2, <2>1
      <3>2. QED
        BY <3>1
    <2>2. i > 1 => ~Calls("SAFE_MODE", g)
      BY <1>2, <1>4
    <2>3. QED
      BY <2>1, <2>2
  <1>6. r \notin {"SAFE_MODE", "LP_THIN"} =>
          ~Calls("LP_THIN", g)
    <2>1. ASSUME r \notin {"SAFE_MODE", "LP_THIN"}
          PROVE  i > 2
      <3>1. i # 1 /\ i # 2
        BY <1>1, <1>2, <2>1
      <3>2. QED
        BY <3>1
    <2>2. i > 2 => ~Calls("LP_THIN", g)
      BY <1>2, <1>4
    <2>3. QED
      BY <2>1, <2>2
  <1>7. r \notin {"SAFE_MODE", "LP_THIN", "INV_STRESS"} =>
          ~Calls("INV_STRESS", g)
    <2>1. ASSUME r \notin {"SAFE_MODE", "LP_THIN", "INV_STRESS"}
          PROVE  i > 3
      <3>1. i # 1 /\ i # 2 /\ i # 3
        BY <1>1, <1>2, <2>1
      <3>2. QED
        BY <3>1
    <2>2. i > 3 => ~Calls("INV_STRESS", g)
      BY <1>2, <1>4
    <2>3. QED
      BY <2>1, <2>2
  <1>8. r \notin {"SAFE_MODE", "LP_THIN", "INV_STRESS", "HIGH_VOL"} =>
          ~Calls("HIGH_VOL", g)
    <2>1. ASSUME r \notin {"SAFE_MODE", "LP_THIN", "INV_STRESS", "HIGH_VOL"}
          PROVE  i > 4
      <3>1. i # 1 /\ i # 2 /\ i # 3 /\ i # 4
        BY <1>1, <1>2, <2>1
      <3>2. QED
        BY <3>1
    <2>2. i > 4 => ~Calls("HIGH_VOL", g)
      BY <1>2, <1>4
    <2>3. QED
      BY <2>1, <2>2
  <1>9. r \notin {"SAFE_MODE", "LP_THIN", "INV_STRESS", "HIGH_VOL", "GAP_RISK"} =>
          ~Calls("GAP_RISK", g)
    <2>1. ASSUME r \notin {"SAFE_MODE", "LP_THIN", "INV_STRESS", "HIGH_VOL", "GAP_RISK"}
          PROVE  i > 5
      <3>1. i # 1 /\ i # 2 /\ i # 3 /\ i # 4 /\ i # 5
        BY <1>1, <1>2, <2>1
      <3>2. QED
        BY <3>1
    <2>2. i > 5 => ~Calls("GAP_RISK", g)
      BY <1>2, <1>4
    <2>3. QED
      BY <2>1, <2>2
  <1>10. r \in {"RANGE_MR", "NORMAL"} => ~Calls("TREND_UP", g) /\ ~Calls("TREND_DOWN", g)
    <2>1. ASSUME r \in {"RANGE_MR", "NORMAL"}
          PROVE  i > 7
      <3>1. i # 1 /\ i # 2 /\ i # 3 /\ i # 4 /\ i # 5 /\ i # 6 /\ i # 7
        BY <1>1, <1>2, <2>1
      <3>2. QED
        BY <3>1
    <2>2. i > 7 => ~Calls("TREND_UP", g) /\ ~Calls("TREND_DOWN", g)
      BY <1>2, <1>4
    <2>3. QED
      BY <2>1, <2>2
  <1>11. QED
    BY <1>3, <1>5, <1>6, <1>7, <1>8, <1>9, <1>10

-----------------------------------------------------------------------------
(* Types                                                                     *)

LEMMA NewSnapshot ==
  ASSUME NEW g \in HourSignals, NEW s, s = [regime |-> DetermineRegime(g), signals |-> g]
  PROVE  s \in Snapshot /\ s # NoData
  <1>1. g \in HourSignal
    BY ConversionAssumption DEF HourSignal
  <1>2. DetermineRegime(g) \in Regime
    BY <1>1, RegimeExcludes
  <1>3. QED
    BY <1>2, ConversionAssumption DEF Snapshot

LEMMA TypeStep == TypeOK /\ [Next]_vars => TypeOK'
  <1> SUFFICES ASSUME TypeOK, [Next]_vars
               PROVE  TypeOK'
    OBVIOUS
  <1> USE DEF TypeOK, Job
  <1>0. Cooldown \in Nat /\ Cooldown \in 0 .. Cooldown
    BY ConversionAssumption
  <1>1. CASE BeginPool
    BY <1>1 DEF BeginPool, marketVars
  <1>2. CASE BeginConversion
    BY <1>2 DEF BeginConversion, marketVars, regimeVars
  <1>3. CASE EndPool
    BY <1>3 DEF EndPool, marketVars, regimeVars
  <1>4. ASSUME NEW j \in Job, UseSnapshot(j)
        PROVE  TypeOK'
    BY <1>4 DEF UseSnapshot, Classified, marketVars, regimeVars
  <1>5. ASSUME NEW j \in Job, ComputeSignals(j)
        PROVE  TypeOK'
    BY <1>5 DEF ComputeSignals, marketVars
  <1>6. ASSUME NEW j \in Job, KeepSnapshot(j)
        PROVE  TypeOK'
    <2> DEFINE s == [regime |-> DetermineRegime(computing[j]), signals |-> computing[j]]
    <2>1. computing[j] \in HourSignals
      BY <1>6 DEF KeepSnapshot
    <2>2. s \in Snapshot /\ s # NoData
      BY <2>1, NewSnapshot
    <2>3. snap' = s /\ Classified(j, s)
      BY <1>6 DEF KeepSnapshot
    <2> HIDE DEF s
    <2>4. QED
      BY <1>6, <2>2, <2>3 DEF KeepSnapshot, Classified, marketVars
  <1>7. ASSUME NEW j \in Job, ClassifyFails(j)
        PROVE  TypeOK'
    BY <1>7 DEF ClassifyFails, marketVars
  <1>8. CASE FetchMarketSignals
    BY <1>8 DEF FetchMarketSignals, regimeVars
  <1>9. CASE Evaluate
    <2>1. since' \in 0 .. Cooldown
      BY <1>0, <1>9 DEF Evaluate
    <2>2. QED
      BY <1>9, <2>1 DEF Evaluate, marketVars, regimeVars
  <1>10. CASE EvaluateFails
    BY <1>10 DEF EvaluateFails, marketVars, regimeVars
  <1>11. CASE Tick
    <2>1. since' \in 0 .. Cooldown
      BY <1>0, <1>11 DEF Tick, Least
    <2>2. QED
      BY <1>11, <2>1 DEF Tick, marketVars, regimeVars
  <1>12. CASE Restart
    BY <1>0, <1>12 DEF Restart
  <1>13. CASE UNCHANGED vars
    BY <1>13 DEF vars
  <1>14. QED
    BY <1>1, <1>2, <1>3, <1>4, <1>5, <1>6, <1>7, <1>8, <1>9, <1>10, <1>11, <1>12, <1>13 DEF Next

\* Every variable of the two jobs and their caches has its type (RegimeClassifier,
\* conversionWorker).
THEOREM TypeCorrect == Spec => []TypeOK
  <1>1. Init => TypeOK
    <2>1. Cooldown \in 0 .. Cooldown
      BY ConversionAssumption
    <2>2. QED
      BY <2>1 DEF Init, TypeOK, Job
  <1>2. QED
    BY <1>1, TypeStep, PTL DEF Spec

-----------------------------------------------------------------------------
(* What a snapshot says of its own signals                                   *)

TrueSnapshot(s) == s # NoData => s.regime = DetermineRegime(s.signals)

SnapshotsTrue == TrueSnapshot(snap) /\ TrueSnapshot(mine)

LEMMA SnapshotStep == TypeOK /\ SnapshotsTrue /\ [Next]_vars => SnapshotsTrue'
  <1> SUFFICES ASSUME TypeOK, SnapshotsTrue, [Next]_vars
               PROVE  SnapshotsTrue'
    OBVIOUS
  <1> USE DEF SnapshotsTrue
  <1>1. ASSUME NEW j \in Job, UseSnapshot(j)
        PROVE  SnapshotsTrue'
    <2>1. snap' = snap /\ mine' \in {snap, mine}
      BY <1>1 DEF UseSnapshot, Classified, regimeVars
    <2>2. QED
      BY <2>1 DEF TrueSnapshot
  <1>2. ASSUME NEW j \in Job, KeepSnapshot(j)
        PROVE  SnapshotsTrue'
    <2> DEFINE s == [regime |-> DetermineRegime(computing[j]), signals |-> computing[j]]
    <2>1. TrueSnapshot(s)
      BY DEF TrueSnapshot
    <2>2. snap' = s /\ mine' \in {s, mine}
      BY <1>2 DEF KeepSnapshot, Classified
    <2> HIDE DEF s
    <2>3. QED
      BY <2>1, <2>2 DEF TrueSnapshot
  <1>3. CASE BeginPool \/ BeginConversion \/ EndPool \/ FetchMarketSignals \/ Tick
    BY <1>3 DEF BeginPool, BeginConversion, EndPool, FetchMarketSignals, Tick, regimeVars,
                TrueSnapshot
  <1>4. ASSUME NEW j \in Job, ComputeSignals(j) \/ ClassifyFails(j)
        PROVE  SnapshotsTrue'
    BY <1>4 DEF ComputeSignals, ClassifyFails, TrueSnapshot
  <1>5. CASE Evaluate \/ EvaluateFails \/ Restart
    BY <1>5 DEF Evaluate, EvaluateFails, Restart, regimeVars, TrueSnapshot
  <1>6. CASE UNCHANGED vars
    BY <1>6 DEF vars, TrueSnapshot
  <1>7. QED
    BY <1>1, <1>2, <1>3, <1>4, <1>5, <1>6 DEF Next

LEMMA AlwaysTrueSnapshots == Spec => [](TypeOK /\ SnapshotsTrue)
  <1>1. Init => SnapshotsTrue
    BY DEF Init, SnapshotsTrue, TrueSnapshot
  <1>2. QED
    BY <1>1, TypeCorrect, SnapshotStep, PTL DEF Spec

-----------------------------------------------------------------------------
(* What an approval takes                                                    *)

Regimes9 ==
  {"SAFE_MODE", "LP_THIN", "INV_STRESS", "HIGH_VOL", "GAP_RISK",
   "TREND_UP", "TREND_DOWN", "RANGE_MR", "NORMAL"}

LEMMA RegimeList == Regime = Regimes9
  <1>1. DOMAIN Order = 1 .. 9
    BY DEF Order
  <1>2. \A i \in 1 .. 9 : Order[i] \in Regimes9
    BY DEF Order, Regimes9
  <1>3. \A r \in Regimes9 : \E i \in 1 .. 9 : Order[i] = r
    BY DEF Order, Regimes9
  <1>4. QED
    BY <1>1, <1>2, <1>3 DEF Regime

\* The regimes in which conversions are off.
LEMMA NotAllowed ==
  ASSUME NEW r \in Regime, Extended[r].allowed
  PROVE  r \in {"HIGH_VOL", "TREND_UP", "TREND_DOWN", "RANGE_MR", "NORMAL"}
  <1>1. r # "SAFE_MODE"
    BY DEF Extended, Posture
  <1>2. r # "LP_THIN"
    BY DEF Extended, Posture
  <1>3. r # "INV_STRESS"
    BY DEF Extended, Posture
  <1>4. r # "GAP_RISK"
    BY DEF Extended, Posture
  <1>5. QED
    BY <1>1, <1>2, <1>3, <1>4, RegimeList DEF Regimes9

LEMMA TrendOf ==
  ASSUME NEW c \in Int
  PROVE  /\ Trend(c) \in {20, 5, 0, -5, -20}
         /\ c = 0 => Trend(c) = 0
         /\ Trend(c) = -20 => c < -2
  <1>1. CASE c > 2
    BY <1>1 DEF Trend
  <1>2. CASE c \in 1 .. 2
    BY <1>2 DEF Trend
  <1>3. CASE c < -2
    BY <1>3 DEF Trend
  <1>4. CASE c \in -2 .. -1
    BY <1>4 DEF Trend
  <1>5. CASE c = 0
    BY <1>5 DEF Trend
  <1>6. QED
    BY <1>1, <1>2, <1>3, <1>4, <1>5

\* The signals that the triggers and the no-trade conditions look at.
LEMMA SignalFields ==
  ASSUME NEW b \in BtcAnswers \cup {NoData}, NEW w \in WrpAnswers \cup {NoData},
         NEW v, NEW s, s = Signals(b, w, v)
  PROVE  /\ s.btcAbove = BtcOrDefault(b).above /\ s.btcSlope = BtcOrDefault(b).slope
         /\ s.trend = Trend(WrpOrDefault(w).change)
         /\ s.zScore = 0
         /\ s.wrpVolume \in {100, 125}
         /\ s.price = WrpOrDefault(w).price
         /\ WrpOrDefault(w).change \in Int /\ WrpOrDefault(w).price \in Nat
         /\ BtcOrDefault(b).above \in BOOLEAN /\ BtcOrDefault(b).slope \in Int
  <1>1. /\ s.btcAbove = BtcOrDefault(b).above /\ s.btcSlope = BtcOrDefault(b).slope
        /\ s.trend = Trend(WrpOrDefault(w).change)
        /\ s.zScore = 0
        /\ s.wrpVolume = RelativeVolume(WrpOrDefault(w).volume)
        /\ s.price = WrpOrDefault(w).price
    BY DEF Signals, ZScore
  <1>2. s.wrpVolume \in {100, 125}
    BY <1>1 DEF RelativeVolume
  <1>3. w # NoData => w.change \in Int /\ w.price \in Nat
    BY ConversionAssumption
  <1>4. b # NoData => b.above \in BOOLEAN /\ b.slope \in Int
    BY ConversionAssumption
  <1>5. WrpOrDefault(w).change \in Int /\ WrpOrDefault(w).price \in Nat
    BY <1>3 DEF WrpOrDefault
  <1>6. BtcOrDefault(b).above \in BOOLEAN /\ BtcOrDefault(b).slope \in Int
    <2>1. CASE b = NoData
      BY <2>1 DEF BtcOrDefault
    <2>2. CASE b # NoData
      BY <1>4, <2>2, Zenon DEF BtcOrDefault
    <2>3. QED
      BY <2>1, <2>2
  <1>7. QED
    BY <1>1, <1>2, <1>5, <1>6

\* Of the five conditions for a sale, the first and the last cannot hold, so
\* that the three required ones are the others.
LEMMA SaleTriggers ==
  ASSUME NEW s, s.zScore = 0, s.wrpVolume \in {100, 125},
         NEW a \in SellTriggers(s), NEW b \in SellTriggers(s), NEW c \in SellTriggers(s),
         a < b, b < c
  PROVE  /\ s.trend < -10
         /\ ~s.btcAbove \/ s.btcSlope < 0
  <1>1. a \in 1 .. 5 /\ b \in 1 .. 5 /\ c \in 1 .. 5
    BY DEF SellTriggers
  <1>2. 1 \notin SellTriggers(s)
    BY DEF SellTriggers
  <1>3. 5 \notin SellTriggers(s)
    BY DEF SellTriggers
  <1>4. a = 2 /\ b = 3
    BY <1>1, <1>2, <1>3
  <1>5. 2 \in SellTriggers(s) => s.trend < -10
    BY DEF SellTriggers
  <1>6. 3 \in SellTriggers(s) => ~s.btcAbove \/ s.btcSlope < 0
    BY DEF SellTriggers
  <1>7. QED
    BY <1>4, <1>5, <1>6

\* An approved conversion moves a priced, trending market.
LEMMA ApprovalNeeds ==
  ASSUME NEW s, NEW r, NEW i, NEW cooled, Approves(s, r, i, cooled)
  PROVE  /\ Extended[r].allowed
         /\ TriggersOk(s)
         /\ s.price > 0
         /\ ~(Magnitude(s.trend) < 2)
  BY DEF Approves, UnitTest, EvaluateConversionForWRPUnits, Unclear

-----------------------------------------------------------------------------
(* The theorems                                                              *)

\* No conversion on the defaults that stand for a market without answer
\* (evaluate, fetchMarketSignals).
THEOREM NoTradeWithoutData == Spec => []NoDataNoTrade
  <1>1. TypeOK => NoDataNoTrade
    <2> SUFFICES ASSUME TypeOK, Approving
                 PROVE  wrp # NoData /\ wrp.price > 0 /\ wrp.change # 0
      BY DEF NoDataNoTrade
    <2>1. btc \in BtcAnswers \cup {NoData} /\ wrp \in WrpAnswers \cup {NoData}
      BY DEF TypeOK
    <2>2. Now.price > 0 /\ ~(Magnitude(Now.trend) < 2)
      BY ApprovalNeeds DEF Approving
    <2>3. /\ Now.trend = Trend(WrpOrDefault(wrp).change)
          /\ Now.price = WrpOrDefault(wrp).price
          /\ WrpOrDefault(wrp).change \in Int
      BY <2>1, SignalFields DEF Now
    <2>4. WrpOrDefault(wrp).change # 0
      <3>1. ASSUME WrpOrDefault(wrp).change = 0
            PROVE  Now.trend = 0
        BY <2>3, <3>1, TrendOf
      <3>2. Magnitude(0) < 2
        BY DEF Magnitude
      <3>3. QED
        BY <2>2, <3>1, <3>2
    <2>5. wrp # NoData
      BY <2>4 DEF WrpOrDefault
    <2>6. WrpOrDefault(wrp) = wrp
      BY <2>5 DEF WrpOrDefault
    <2>7. QED
      BY <2>2, <2>3, <2>4, <2>5, <2>6
  <1>2. QED
    BY <1>1, TypeCorrect, PTL

\* No conversion by a snapshot of mostly failed executions or all but empty
\* pairs: determineRegime's order lets no regime but the halting ones in.
THEOREM FailureStopsConversions == Spec => []FailingNeverConverts
  <1>1. TypeOK /\ SnapshotsTrue => FailingNeverConverts
    <2> SUFFICES ASSUME TypeOK, SnapshotsTrue, Approving
                 PROVE  /\ mine.signals.fail <= 50
                        /\ mine.signals.liq \notin 1 .. 1999
                        /\ mine.signals.liq = 0 => mine.signals.sigma > 50
      BY DEF FailingNeverConverts
    <2> DEFINE g == mine.signals
               r == mine.regime
    <2>1. mine \in Snapshot /\ mine # NoData
      BY DEF Approving, TypeOK
    <2>2. g \in HourSignals /\ r \in Regime /\ r = DetermineRegime(g)
      BY <2>1 DEF Snapshot, SnapshotsTrue, TrueSnapshot
    <2>3. g \in HourSignal
      BY <2>2, ConversionAssumption DEF HourSignal
    <2>4. Extended[r].allowed
      BY ApprovalNeeds DEF Approving
    <2> HIDE DEF g, r
    <2>5. r \in {"HIGH_VOL", "TREND_UP", "TREND_DOWN", "RANGE_MR", "NORMAL"}
      BY <2>2, <2>4, NotAllowed
    <2>6. ~Calls("LP_THIN", g) /\ ~Calls("INV_STRESS", g)
      BY <2>2, <2>3, <2>5, RegimeExcludes
    <2>7. r # "HIGH_VOL" => ~Calls("GAP_RISK", g)
      BY <2>2, <2>3, <2>5, RegimeExcludes
    <2>8. r = "HIGH_VOL" => g.sigma > 50
      <3>1. Calls(r, g)
        BY <2>2, <2>3, RegimeExcludes
      <3>2. QED
        BY <3>1, AlarmsMean
    <2>9. g.fail <= 50
      <3>1. g.fail \in Int
        BY <2>3 DEF HourSignal
      <3>2. ~(g.fail > 50)
        BY <2>6, AlarmsMean
      <3>3. QED
        BY <3>1, <3>2
    <2>10. g.liq \notin 1 .. 1999
      BY <2>6, DepthsMean
    <2>11. ASSUME g.liq = 0
           PROVE  g.sigma > 50
      <3>1. LpDepthScore(0) < 25
        BY DEF LpDepthScore
      <3>2. Calls("GAP_RISK", g)
        BY <2>11, <3>1, DepthsMean
      <3>3. QED
        BY <2>7, <2>8, <3>2
    <2>12. QED
      BY <2>9, <2>10, <2>11, ZenonT(40) DEF g
  <1>2. QED
    BY <1>1, AlwaysTrueSnapshots, PTL

\* WRP is sold only where BTC is known to be weak and WRP known to have fallen,
\* which is where the state machine rotates to AVAX (evaluate).
THEOREM SalesNeedWeakness == Spec => []SellsOnlyInWeakness
  <1>1. TypeOK => SellsOnlyInWeakness
    <2> SUFFICES ASSUME TypeOK, Approving, Direction(Now) = "sell"
                 PROVE  /\ ConversionState(Now) = "D"
                        /\ btc # NoData /\ (~btc.above \/ btc.slope < 0)
                        /\ wrp # NoData /\ wrp.change <= -3
      BY DEF SellsOnlyInWeakness
    <2>1. btc \in BtcAnswers \cup {NoData} /\ wrp \in WrpAnswers \cup {NoData}
      BY DEF TypeOK
    <2>2. /\ Now.btcAbove = BtcOrDefault(btc).above
          /\ Now.btcSlope = BtcOrDefault(btc).slope
          /\ Now.trend = Trend(WrpOrDefault(wrp).change)
          /\ Now.zScore = 0 /\ Now.wrpVolume \in {100, 125}
          /\ WrpOrDefault(wrp).change \in Int
          /\ BtcOrDefault(btc).above \in BOOLEAN /\ BtcOrDefault(btc).slope \in Int
      BY <2>1, SignalFields DEF Now
    <2>3. TriggersOk(Now)
      BY ApprovalNeeds DEF Approving
    <2>4. \E a, b, c \in SellTriggers(Now) : a < b /\ b < c
      BY <2>3 DEF TriggersOk
    <2>5. Now.trend < -10 /\ (~Now.btcAbove \/ Now.btcSlope < 0)
      BY <2>2, <2>4, SaleTriggers
    <2>6. WrpOrDefault(wrp).change < -2
      <3>1. Now.trend = -20
        BY <2>2, <2>5, TrendOf
      <3>2. QED
        BY <2>2, <3>1, TrendOf
    <2>7. wrp # NoData /\ wrp.change <= -3
      <3>1. wrp # NoData
        BY <2>6 DEF WrpOrDefault
      <3>2. WrpOrDefault(wrp) = wrp
        BY <3>1 DEF WrpOrDefault
      <3>3. QED
        BY <2>2, <2>6, <3>1, <3>2
    <2>8. btc # NoData /\ (~btc.above \/ btc.slope < 0)
      <3>1. btc # NoData
        BY <2>2, <2>5 DEF BtcOrDefault
      <3>2. BtcOrDefault(btc) = btc
        BY <3>1 DEF BtcOrDefault
      <3>3. QED
        BY <2>2, <2>5, <3>1, <3>2
    <2>9. ConversionState(Now) = "D"
      <3>1. ~BtcUp(Now)
        BY <2>2, <2>5 DEF BtcUp
      <3>2. ~(Now.trend > 0)
        BY <2>2, <2>5, TrendOf
      <3>3. QED
        BY <3>1, <3>2 DEF ConversionState
    <2>10. QED
      BY <2>7, <2>8, <2>9
  <1>2. QED
    BY <1>1, TypeCorrect, PTL

\* Whatever the market answers and the hour sums up to, a conversion is approved
\* only on evidence (ConversionEngine.evaluate).
THEOREM ConversionsNeedEvidence == Spec => []ApprovedOnEvidence
  <1>1. NoDataNoTrade /\ FailingNeverConverts /\ SellsOnlyInWeakness => ApprovedOnEvidence
    BY DEF ApprovedOnEvidence
  <1>2. QED
    BY <1>1, NoTradeWithoutData, FailureStopsConversions, SalesNeedWeakness, PTL

LEMMA Ranks ==
  /\ Rank["SAFE_MODE"] = 3 /\ Rank["INV_STRESS"] = 3
  /\ Rank["LP_THIN"] = 2 /\ Rank["GAP_RISK"] = 2
  /\ Rank["HIGH_VOL"] = 1 /\ Rank["TREND_UP"] = 1 /\ Rank["TREND_DOWN"] = 1
  /\ Rank["RANGE_MR"] = 0 /\ Rank["NORMAL"] = 0
  BY DEF Rank

\* A snapshot's regime has the highest priority of those whose conditions its
\* signals meet, but for two pairs (determineRegime, REGIME_CONFIGS).
THEOREM PrioritiesRespected == Spec => []PriorityRespected
  <1>1. TypeOK /\ SnapshotsTrue => PriorityRespected
    <2> DEFINE g == snap.signals
               q == snap.regime
    <2> SUFFICES ASSUME TypeOK, SnapshotsTrue, snap # NoData, NEW r \in Regime, Calls(r, g)
                 PROVE  \/ Rank[r] <= Rank[q]
                        \/ <<q, r>> \in {<<"LP_THIN", "INV_STRESS">>, <<"HIGH_VOL", "GAP_RISK">>}
      BY DEF PriorityRespected
    <2>1. g \in HourSignals /\ q = DetermineRegime(g)
      BY DEF TypeOK, Snapshot, SnapshotsTrue, TrueSnapshot
    <2>2. g \in HourSignal
      BY <2>1, ConversionAssumption DEF HourSignal
    <2> HIDE DEF g, q
    <2>3. q \in Regimes9 /\ r \in Regimes9
      BY <2>1, <2>2, RegimeExcludes, RegimeList
    <2>4. CASE q = "SAFE_MODE" \/ q = "INV_STRESS"
      <3>1. Rank[q] = 3
        BY <2>4, Ranks
      <3>2. Rank[r] \in 0 .. 3
        BY <2>3, Ranks DEF Regimes9
      <3>3. QED
        BY <3>1, <3>2
    <2>5. CASE q = "LP_THIN" \/ q = "GAP_RISK"
      <3>1. r # "SAFE_MODE"
        BY <2>1, <2>2, <2>5, RegimeExcludes
      <3>2. r = "INV_STRESS" => q = "LP_THIN"
        BY <2>1, <2>2, <2>5, RegimeExcludes
      <3>3. r # "INV_STRESS" => Rank[r] \in 0 .. 2
        BY <2>3, <3>1, Ranks DEF Regimes9
      <3>4. Rank[q] = 2
        BY <2>5, Ranks
      <3>5. QED
        BY <3>2, <3>3, <3>4
    <2>6. CASE q \in {"HIGH_VOL", "TREND_UP", "TREND_DOWN"}
      <3>1. r \notin {"SAFE_MODE", "INV_STRESS", "LP_THIN"}
        BY <2>1, <2>2, <2>6, RegimeExcludes
      <3>2. r = "GAP_RISK" => q = "HIGH_VOL"
        BY <2>1, <2>2, <2>6, RegimeExcludes
      <3>3. r # "GAP_RISK" => Rank[r] \in 0 .. 1
        BY <2>3, <3>1, Ranks DEF Regimes9
      <3>4. Rank[q] = 1
        BY <2>6, Ranks
      <3>5. QED
        BY <3>2, <3>3, <3>4
    <2>7. CASE q \in {"RANGE_MR", "NORMAL"}
      <3>1. r \notin {"SAFE_MODE", "INV_STRESS", "LP_THIN", "GAP_RISK"}
        BY <2>1, <2>2, <2>7, RegimeExcludes
      <3>2. r \notin {"HIGH_VOL", "TREND_UP", "TREND_DOWN"}
        BY <2>1, <2>2, <2>7, RegimeExcludes
      <3>3. Rank[r] = 0 /\ Rank[q] = 0
        BY <2>3, <2>7, <3>1, <3>2, Ranks DEF Regimes9
      <3>4. QED
        BY <3>3
    <2>8. QED
      BY <2>3, <2>4, <2>5, <2>6, <2>7 DEF Regimes9
  <1>2. QED
    BY <1>1, AlwaysTrueSnapshots, PTL

-----------------------------------------------------------------------------
(* The explanation                                                           *)

\* The numbers that the scores add up.
LEMMA ScoreFields ==
  ASSUME NEW b \in BtcAnswers \cup {NoData}, NEW w \in WrpAnswers \cup {NoData},
         NEW v \in AvaxAnswers \cup {NoData}, NEW s, s = Signals(b, w, v)
  PROVE  /\ {s.trend, s.trendQuality, s.pullbackQuality} \subseteq Int
         /\ {s.wrpVolume, s.avaxVolume, s.zScore, s.btcVol} \subseteq Int
         /\ s.slippage \in {20, 50, 100, 300}
         /\ s.price \in Nat
  <1>1. /\ s.btcVol = BtcOrDefault(b).vol
        /\ s.trend = Trend(WrpOrDefault(w).change)
        /\ s.zScore = 0
        /\ s.wrpVolume = RelativeVolume(WrpOrDefault(w).volume)
        /\ s.avaxVolume = RelativeVolume(VolumeOrDefault(v))
        /\ s.trendQuality = Clamp(0, 50 + 5 * WrpOrDefault(w).change, 100)
        /\ s.pullbackQuality =
             Clamp(0, 50 - (20 * Magnitude(WrpOrDefault(w).change) + 3) \div 6, 100)
        /\ s.slippage = Slippage(WrpOrDefault(w).liq)
        /\ s.price = WrpOrDefault(w).price
    BY DEF Signals, ZScore
  <1>2. WrpOrDefault(w).change \in Int /\ WrpOrDefault(w).price \in Nat
    BY SignalFields
  <1>3. WrpOrDefault(w).liq \in Nat /\ BtcOrDefault(b).vol \in Nat
    <2>1. w # NoData => w.liq \in Nat
      BY ConversionAssumption
    <2>2. b # NoData => b.vol \in Nat
      BY ConversionAssumption
    <2>3. QED
      BY <2>1, <2>2 DEF WrpOrDefault, BtcOrDefault
  <1>4. s.slippage \in {20, 50, 100, 300}
    BY <1>1, <1>3 DEF Slippage
  <1>5. s.trendQuality \in Int
    BY <1>1, <1>2 DEF Clamp, Least
  <1>6. s.pullbackQuality \in Int
    <2> DEFINE c == WrpOrDefault(w).change
    <2>1. Magnitude(c) \in Int
      BY <1>2 DEF Magnitude
    <2>2. (20 * Magnitude(c) + 3) \div 6 \in Int
      BY <2>1
    <2>3. QED
      BY <1>1, <2>2 DEF Clamp, Least
  <1>7. {s.wrpVolume, s.avaxVolume} \subseteq Int
    BY <1>1 DEF RelativeVolume
  <1>8. QED
    BY <1>1, <1>2, <1>3, <1>4, <1>5, <1>6, <1>7, TrendOf

LEMMA ScoresTyped ==
  ASSUME NEW s, {s.trend, s.trendQuality, s.pullbackQuality} \subseteq Int,
         {s.wrpVolume, s.avaxVolume, s.zScore, s.btcVol} \subseteq Int, s.slippage \in Int
  PROVE  ScoreWRP(s) \in Int /\ ScoreAVAX(s) \in Int
  BY SMTT(20) DEF ScoreWRP, ScoreAVAX, Clamp, Least

LEMMA Postures ==
  ASSUME NEW r \in Regime
  PROVE  /\ Extended[r].hurdle \in {10, 15, 20, 9990} /\ Extended[r].gain \in {10, 15, 20, 9990}
         /\ Extended[r].sleeve \in {0, 3, 5, 10}
  <1>1. Extended[r] \in {Posture(FALSE, 0, 9990, 9990), Posture(TRUE, 5, 15, 15),
                         Posture(TRUE, 3, 20, 20), Posture(TRUE, 10, 10, 10)}
    BY DEF Extended
  <1>2. QED
    BY <1>1 DEF Posture

\* What is nothing to convert does not pass the unit test either: the buffer
\* alone is more than it brings.
LEMMA NothingNoUnits ==
  ASSUME NEW s, NEW r \in Regime, NEW i \in Inventories, s.price \in Nat,
         s.slippage \in {20, 50, 100, 300}, UnitTest(s, Extended[r], i)
  PROVE  Size(s, Extended[r], i) > 0
  <1> DEFINE size == Size(s, Extended[r], i)
             share == MaxShare[ConversionState(s)]
             worth == i.tactical * s.price
             all == i.total * s.price
  <1>1. i.tactical \in Nat /\ i.total \in Nat
    BY ConversionAssumption
  <1>2. ConversionState(s) \in {"A", "B", "C", "D"}
    BY DEF ConversionState
  <1>3. share \in {8, 3, 2, 6}
    BY <1>2 DEF MaxShare
  <1>4. worth \in Nat /\ all \in Nat
    BY <1>1
  <1>5. size \in Nat
    <2>1. worth * share \in Nat
      <3> HIDE DEF worth, share
      <3>1. QED
        BY <1>3, <1>4
    <2>2. Least(10 * 1000, 1000 * Extended[r].sleeve) \in Nat
      BY Postures DEF Least
    <2>3. QED
      BY <2>1, <2>2 DEF Size, Least, MaxConversion
  <1>6. size * (10000 - 80 - s.slippage) - 15000 > 200 * Extended[r].gain * i.total * s.price
    BY DEF UnitTest, EvaluateConversionForWRPUnits
  <1>7. 200 * Extended[r].gain * i.total * s.price >= 0
    <2>1. \A g \in {10, 15, 20, 9990} : 200 * g * i.total * s.price = 200 * g * all
      BY <1>1
    <2>2. \A g \in {10, 15, 20, 9990} : 200 * g * all >= 0
      <3> HIDE DEF all
      <3>1. QED
        BY <1>4
    <2>3. QED
      BY <2>1, <2>2, Postures
  <1>8. CASE size = 0
    <2>1. size * (10000 - 80 - s.slippage) - 15000 = -15000
      BY <1>8
    <2>2. 200 * Extended[r].gain * i.total * s.price \in Int
      BY <1>1, Postures
    <2> HIDE DEF size
    <2>3. QED
      BY <1>6, <1>7, <2>1, <2>2
  <1>9. QED
    BY <1>5, <1>8

\* Three of a handful are at least three.
LEMMA ThreeOf ==
  ASSUME NEW T \in SUBSET (1 .. 6), NEW a \in T, NEW b \in T, NEW c \in T, a < b, b < c
  PROVE  Cardinality(T) \in Nat /\ Cardinality(T) >= 3
  <1>1. IsFiniteSet(T)
    <2>1. 1 \in Int /\ 6 \in Int
      OBVIOUS
    <2>2. IsFiniteSet(1 .. 6)
      BY <2>1, FS_Interval, Zenon
    <2>3. QED
      BY <2>2, FS_Subset
  <1>2. IsFiniteSet({a}) /\ Cardinality({a}) = 1
    BY FS_Singleton
  <1>3. b \notin {a} /\ c \notin {a} \cup {b}
    OBVIOUS
  <1>4. IsFiniteSet({a} \cup {b}) /\ Cardinality({a} \cup {b}) = 2
    BY <1>2, <1>3, FS_AddElement
  <1>5. Cardinality(({a} \cup {b}) \cup {c}) = 3
    BY <1>3, <1>4, FS_AddElement
  <1>6. ({a} \cup {b}) \cup {c} \in SUBSET T
    OBVIOUS
  <1>7. QED
    BY <1>1, <1>5, <1>6, FS_Subset, FS_CardinalityType

\* A decision gives no reason exactly when each gate is passed.
LEMMA NoReasons ==
  ASSUME NEW s, NEW r, NEW i, NEW cooled \in BOOLEAN
  PROVE  BlockedReasons(s, r, i, cooled) = {} <=>
           /\ Extended[r].allowed /\ PassedHurdle(s, Extended[r]) /\ TriggersOk(s)
           /\ UnitTest(s, Extended[r], i) /\ ~Unclear(s) /\ cooled
  <1> DEFINE R == BlockedReasons(s, r, i, cooled)
  <1>1. "regime" \in R <=> ~Extended[r].allowed
    BY Zenon DEF BlockedReasons
  <1>2. "hurdle" \in R <=> ~PassedHurdle(s, Extended[r])
    BY DEF BlockedReasons
  <1>3. "triggers" \in R <=> ~TriggersOk(s)
    BY DEF BlockedReasons
  <1>4. "units" \in R <=> ~UnitTest(s, Extended[r], i)
    BY DEF BlockedReasons
  <1>5. "no-trade" \in R <=> \/ Unclear(s) \/ ~cooled \/ ~PassedHurdle(s, Extended[r])
                             \/ ~UnitTest(s, Extended[r], i)
    BY DEF BlockedReasons
  <1>6. R \subseteq {"regime", "hurdle", "triggers", "units", "no-trade"}
    BY DEF BlockedReasons
  <1> HIDE DEF R
  <1>7. R = {} <=> /\ "regime" \notin R /\ "hurdle" \notin R /\ "triggers" \notin R
                   /\ "units" \notin R /\ "no-trade" \notin R
    BY <1>6
  <1>8. R = {} <=> /\ Extended[r].allowed /\ PassedHurdle(s, Extended[r]) /\ TriggersOk(s)
                   /\ UnitTest(s, Extended[r], i) /\ ~Unclear(s) /\ cooled
    BY <1>1, <1>2, <1>3, <1>4, <1>5, <1>7, Zenon
  <1>9. QED
    BY <1>8 DEF R

\* The page shows no gate as failed that an approved conversion passed, although
\* the explanation works scores, direction and triggers out again by thresholds
\* of its own; and no refusal is shown without a reason (buildExplanation).
THEOREM ExplanationsAgree == Spec => []ExplanationAgrees
  <1>1. TypeOK => ExplanationAgrees
    <2> DEFINE cooled == since = Cooldown
               r == mine.regime
               post == Extended[r]
               d == Decision(Now, r, inv, cooled)
               e == BuildExplanation(d, Now)
    <2> SUFFICES ASSUME TypeOK, at["conversion"] = "evaluate"
                 PROVE  /\ Approving => {e.scores, e.triggers, e.units, e.verdict.status} = {"pass"}
                        /\ e.verdict.says # "no trade"
                        /\ e.verdict.says = "blocked" <=> ~Approving
      BY DEF ExplanationAgrees
    <2>1. r \in Regime /\ inv \in Inventories
      BY DEF TypeOK, Snapshot
    <2>2. /\ {Now.trend, Now.trendQuality, Now.pullbackQuality} \subseteq Int
          /\ {Now.wrpVolume, Now.avaxVolume, Now.zScore, Now.btcVol} \subseteq Int
          /\ Now.slippage \in {20, 50, 100, 300} /\ Now.price \in Nat
      <3>1. /\ btc \in BtcAnswers \cup {NoData} /\ wrp \in WrpAnswers \cup {NoData}
            /\ avax \in AvaxAnswers \cup {NoData}
        BY DEF TypeOK
      <3>2. QED
        BY <3>1, ScoreFields DEF Now
    <2>3. ScoreWRP(Now) \in Int /\ ScoreAVAX(Now) \in Int
      BY <2>2, ScoresTyped
    <2>4. Approving <=> Approves(Now, r, inv, cooled)
      BY DEF Approving
    <2> DEFINE reasons == BlockedReasons(Now, r, inv, cooled)
               size == Size(Now, post, inv)
    <2>5. Approving <=> reasons = {} /\ size > 0
      <3>1. reasons = {} <=>
              /\ post.allowed /\ PassedHurdle(Now, post) /\ TriggersOk(Now)
              /\ UnitTest(Now, post, inv) /\ ~Unclear(Now) /\ cooled
        BY NoReasons
      <3> HIDE DEF reasons, size
      <3>2. Approves(Now, r, inv, cooled) <=>
              /\ post.allowed /\ PassedHurdle(Now, post) /\ TriggersOk(Now)
              /\ UnitTest(Now, post, inv) /\ ~Unclear(Now) /\ cooled /\ size > 0
        BY Zenon DEF Approves, size
      <3>3. QED
        BY <2>4, <3>1, <3>2, Zenon
    <2>6. reasons = {} => size > 0
      BY <2>1, <2>2, NoReasons, NothingNoUnits
    <2>7. /\ d.reasons = reasons
          /\ d.direction = IF reasons = {} /\ size > 0 THEN Direction(Now) ELSE "none"
          /\ d.units = UnitTest(Now, post, inv)
      BY DEF Decision
    <2>8. e.verdict = [status |-> Passed(d.approved),
                       says |-> IF d.approved THEN d.direction ELSE IF d.reasons # {} THEN "blocked" ELSE "no trade"]
      BY DEF BuildExplanation, VerdictSection
    <2>9. CASE Approving
      <3>1. reasons = {} /\ size > 0
        BY <2>5, <2>9
      <3>2. d.approved
        BY <3>1 DEF Decision
      <3>3. e.verdict.status = "pass" /\ e.verdict.says = Direction(Now)
        BY <2>7, <2>8, <3>1, <3>2 DEF Passed
      <3>4. Direction(Now) \in {"buy", "sell"}
        BY DEF Direction
      <3>5. PassedHurdle(Now, post) /\ TriggersOk(Now) /\ UnitTest(Now, post, inv)
        BY <3>1, NoReasons
      <3>6. e.scores = "pass"
        <4> DEFINE gap == Magnitude(ScoreWRP(Now) - ScoreAVAX(Now))
        <4>1. gap \in Int
          BY <2>3 DEF Magnitude
        <4>2. gap >= 1000 * 15 * post.hurdle
          BY <3>5 DEF PassedHurdle, HurdleScore
        <4>3. post.hurdle \in {10, 15, 20, 9990}
          BY <2>1, Postures
        <4> HIDE DEF gap, post
        <4>4. gap >= 150000
          BY <4>1, <4>2, <4>3
        <4>5. QED
          BY <4>4 DEF gap, BuildExplanation, ScoresSection, Graded
      <3>7. e.triggers = "pass"
        <4> DEFINE T == IF ScoreWRP(Now) > ScoreAVAX(Now) THEN BuyTriggers(Now) ELSE SellTriggers(Now)
        <4>1. T \in SUBSET (1 .. 6)
          <5>1. BuyTriggers(Now) \subseteq 1 .. 6 /\ SellTriggers(Now) \subseteq 1 .. 5
            BY DEF BuyTriggers, SellTriggers
          <5>2. QED
            BY <5>1
        <4>2. \E a, b, c \in T : a < b /\ b < c
          BY <3>5 DEF TriggersOk, Direction
        <4>3. e.triggers = Graded(Cardinality(T), 3, 2)
          BY DEF BuildExplanation, TriggersSection
        <4> HIDE DEF T
        <4>4. Cardinality(T) >= 3
          BY <4>1, <4>2, ThreeOf
        <4>5. QED
          BY <4>3, <4>4 DEF Graded
      <3>8. e.units = "pass"
        BY <2>7, <3>5 DEF BuildExplanation, UnitSection, Passed
      <3>9. QED
        BY <2>9, <3>3, <3>4, <3>6, <3>7, <3>8
    <2>10. CASE ~Approving
      <3>1. ~(reasons = {} /\ size > 0) /\ reasons # {}
        BY <2>5, <2>6, <2>10
      <3>2. ~d.approved
        <4>1. d.approved = (reasons = {} /\ size > 0)
          BY DEF Decision
        <4> HIDE DEF d, reasons, size
        <4>2. QED
          BY <3>1, <4>1, Zenon
      <3>3. e.verdict.says = "blocked"
        <4>1. d.reasons # {}
          BY <2>7, <3>1
        <4> HIDE DEF d
        <4>2. e.verdict.says = IF d.approved THEN d.direction
                               ELSE IF d.reasons # {} THEN "blocked" ELSE "no trade"
          BY DEF BuildExplanation, VerdictSection
        <4> HIDE DEF e
        <4>3. QED
          BY <3>2, <4>1, <4>2, Zenon
      <3>4. QED
        BY <2>10, <3>3
    <2>11. QED
      BY <2>9, <2>10
  <1>2. QED
    BY <1>1, TypeCorrect, PTL

=============================================================================
