--------------------------- MODULE ConversionEngine ---------------------------
(***************************************************************************)
(* The WRP/AVAX conversion job and what it shares with the pool refresh:   *)
(*   apps/worker/src/index.ts                        conversionWorker,      *)
(*                                                   poolRefreshWorker      *)
(*   packages/risk-engine/src/regime-classifier.ts   RegimeClassifier       *)
(*   packages/conversion-engine/src/                 fetchMarketSignals,    *)
(*                                                   ConversionEngine       *)
(* Both jobs of a worker process classify the regime with one classifier,  *)
(* whose snapshot is kept for 30 s; a market's answer is kept for 60 s and,*)
(* when requests fail, as long as it takes.  A tick of the clock is one    *)
(* minute.                                                                 *)
(***************************************************************************)
EXTENDS ConversionRules

CONSTANTS
  HourSignals,   \* what the last hour's rows and the feed may add up to
  BtcAnswers,    \* what the BTC request may answer
  WrpAnswers,    \* what the WRP request may answer
  AvaxAnswers,   \* the volumes that the AVAX request may answer
  Inventories,   \* rows "accumulation_sleeve_state" may hold
  Cooldown       \* minutes between two conversions

ASSUME ConversionAssumption ==
  /\ HourSignals \subseteq
       [fail : 0 .. 100, sigma : Nat, spread : Int,
        trend : {"up", "down", "neutral"}, liq : Nat]
  /\ BtcAnswers \subseteq [above : BOOLEAN, slope : Int, vol : Nat]
  /\ WrpAnswers \subseteq [price : Nat, change : Int, liq : Nat, volume : Nat]
  /\ AvaxAnswers \subseteq Nat
  /\ Inventories \subseteq [total : Nat, tactical : Nat]
  /\ Cooldown \in Nat
  /\ \A A \in {HourSignals, BtcAnswers, WrpAnswers} : NoData \notin A
  /\ NoData \notin Nat /\ NoData \notin [regime : Regime, signals : HourSignals]

VARIABLES
  inv,        \* the inventory; nothing in the repository changes its units
  tracked,    \* setTrackedTokens was called
  computing,  \* the signals that each job's classify() has read, if it is at work
  snap,       \* lastSnapshot
  at,         \* where each job stands
  mine,       \* the snapshot that the conversion job goes by
  btc, wrp, avax,   \* the cached answers
  fresh,      \* lastSnapshot is younger than 30 s
  since       \* minutes since lastConversionAt, counted up to Cooldown

vars == <<inv, tracked, computing, snap, at, mine, btc, wrp, avax, fresh, since>>
regimeVars == <<tracked, computing, snap>>
marketVars == <<btc, wrp, avax>>

Job == {"pool", "conversion"}
Snapshot == [regime : Regime, signals : HourSignals]

Init ==
  /\ inv \in Inventories
  /\ tracked = FALSE
  /\ computing = [j \in Job |-> NoData]
  /\ snap = NoData
  /\ at = [j \in Job |-> "idle"]
  /\ mine = NoData
  /\ btc = NoData /\ wrp = NoData /\ avax = NoData
  /\ fresh = FALSE
  /\ since = Cooldown    \* lastConversionAt = 0

-----------------------------------------------------------------------------
(* classify()                                                              *)

\* The pool refresh names the tokens to track before it classifies.
BeginPool ==
  /\ at["pool"] = "idle"
  /\ at' = [at EXCEPT !["pool"] = "classify"]
  /\ tracked' = TRUE
  /\ UNCHANGED <<inv, computing, snap, mine, marketVars, fresh, since>>

BeginConversion ==
  /\ at["conversion"] = "idle"
  /\ at' = [at EXCEPT !["conversion"] = "classify"]
  /\ UNCHANGED <<inv, regimeVars, mine, marketVars, fresh, since>>

\* Where a job goes once it has its snapshot: the pool refresh scans, or leaves
\* it at a halted regime; the conversion job asks for the market's signals.
Classified(j, s) ==
  IF j = "pool"
  THEN /\ at' = [at EXCEPT ![j] = IF s.regime \in Halted THEN "idle" ELSE "scan"]
       /\ UNCHANGED mine
  ELSE /\ at' = [at EXCEPT ![j] = "signals"]
       /\ mine' = s

UseSnapshot(j) ==
  /\ at[j] = "classify" /\ computing[j] = NoData
  /\ snap # NoData /\ fresh
  /\ Classified(j, snap)
  /\ UNCHANGED <<inv, regimeVars, marketVars, fresh, since>>

\* computeSignals: without tracked tokens there is no liquidity to see.
ComputeSignals(j) ==
  /\ at[j] = "classify" /\ computing[j] = NoData
  /\ ~(snap # NoData /\ fresh)
  /\ \E g \in HourSignals :
       /\ ~tracked => g.liq = 0
       /\ computing' = [computing EXCEPT ![j] = g]
  /\ UNCHANGED <<inv, tracked, snap, at, mine, marketVars, fresh, since>>

\* Whoever finishes last leaves its snapshot, whenever it read its signals.
KeepSnapshot(j) ==
  /\ computing[j] # NoData
  /\ LET s == [regime |-> DetermineRegime(computing[j]), signals |-> computing[j]]
     IN snap' = s /\ Classified(j, s)
  /\ computing' = [computing EXCEPT ![j] = NoData]
  /\ fresh' = TRUE
  /\ UNCHANGED <<inv, tracked, marketVars, since>>

\* A database query throws.
ClassifyFails(j) ==
  /\ at[j] = "classify"
  /\ at' = [at EXCEPT ![j] = "idle"]
  /\ computing' = [computing EXCEPT ![j] = NoData]
  /\ UNCHANGED <<inv, tracked, snap, mine, marketVars, fresh, since>>

\* The pool refresh is done with its scan, or gives up waiting for it.
EndPool ==
  /\ at["pool"] = "scan"
  /\ at' = [at EXCEPT !["pool"] = "idle"]
  /\ UNCHANGED <<inv, regimeVars, mine, marketVars, fresh, since>>

-----------------------------------------------------------------------------
(* fetchMarketSignals                                                      *)

\* Three requests at once.  Where the cached answer is in date or the request
\* fails, the answer stays as it is, however old.
FetchMarketSignals ==
  /\ at["conversion"] = "signals"
  /\ at' = [at EXCEPT !["conversion"] = "evaluate"]
  /\ btc' \in BtcAnswers \cup {btc}
  /\ wrp' \in WrpAnswers \cup {wrp}
  /\ avax' \in AvaxAnswers \cup {avax}
  /\ UNCHANGED <<inv, regimeVars, mine, fresh, since>>

-----------------------------------------------------------------------------
(* evaluate()                                                              *)

Now == Signals(btc, wrp, avax)

\* evaluate, run now, approves a conversion.
Approving ==
  /\ at["conversion"] = "evaluate"
  /\ Approves(Now, mine.regime, inv, since = Cooldown)

Evaluate ==
  /\ at["conversion"] = "evaluate"
  /\ since' = IF Approving THEN 0 ELSE since
  /\ at' = [at EXCEPT !["conversion"] = "idle"]
  /\ mine' = NoData
  /\ UNCHANGED <<inv, regimeVars, marketVars, fresh>>

\* The inventory cannot be read.
EvaluateFails ==
  /\ at["conversion"] = "evaluate"
  /\ at' = [at EXCEPT !["conversion"] = "idle"]
  /\ mine' = NoData
  /\ UNCHANGED <<inv, regimeVars, marketVars, fresh, since>>

-----------------------------------------------------------------------------
\* A minute outlives the snapshot's 30 s.
Tick ==
  /\ since' = Least(since + 1, Cooldown)
  /\ fresh' = FALSE
  /\ UNCHANGED <<inv, regimeVars, at, mine, marketVars>>

\* The process starts anew: caches, snapshot and lastConversionAt are its own.
Restart ==
  /\ tracked' = FALSE
  /\ computing' = [j \in Job |-> NoData]
  /\ snap' = NoData
  /\ at' = [j \in Job |-> "idle"]
  /\ mine' = NoData
  /\ btc' = NoData /\ wrp' = NoData /\ avax' = NoData
  /\ fresh' = FALSE
  /\ since' = Cooldown
  /\ UNCHANGED inv

Next ==
  \/ BeginPool \/ BeginConversion \/ EndPool
  \/ \E j \in Job : UseSnapshot(j) \/ ComputeSignals(j) \/ KeepSnapshot(j) \/ ClassifyFails(j)
  \/ FetchMarketSignals \/ Evaluate \/ EvaluateFails
  \/ Tick \/ Restart

Spec == Init /\ [][Next]_vars

-----------------------------------------------------------------------------
(* Properties                                                              *)

\* Every variable has its type; a job that waits for the market has a snapshot
\* (conversionWorker, RegimeClassifier).
TypeOK ==
  /\ inv \in Inventories
  /\ tracked \in BOOLEAN
  /\ computing \in [Job -> HourSignals \cup {NoData}]
  /\ snap \in Snapshot \cup {NoData}
  /\ at \in [Job -> {"idle", "classify", "scan", "signals", "evaluate"}]
  /\ mine \in Snapshot \cup {NoData}
  /\ btc \in BtcAnswers \cup {NoData}
  /\ wrp \in WrpAnswers \cup {NoData}
  /\ avax \in AvaxAnswers \cup {NoData}
  /\ fresh \in BOOLEAN
  /\ since \in 0 .. Cooldown
  /\ at["conversion"] \in {"signals", "evaluate"} => mine # NoData

\* No conversion is approved on the defaults that stand for a market without
\* answer: it takes a WRP answer with a price and a movement, however the
\* requests failed and the scores add up (evaluate, fetchMarketSignals).
NoDataNoTrade ==
  Approving => wrp # NoData /\ wrp.price > 0 /\ wrp.change # 0

\* No conversion is approved by a snapshot in which most executions failed or
\* the pairs were all but empty, nor before tokens were tracked unless spreads
\* were wild: the order of determineRegime's tests lets no other regime in.
FailingNeverConverts ==
  Approving =>
    /\ mine.signals.fail <= 50
    /\ mine.signals.liq \notin 1 .. 1999
    /\ mine.signals.liq = 0 => mine.signals.sigma > 50

\* WRP is sold for AVAX only where the state machine says "rotate to AVAX":
\* with BTC known to be weak and WRP known to have fallen for good (evaluate
\* takes the direction from the scores and never asks the state).
SellsOnlyInWeakness ==
  Approving /\ Direction(Now) = "sell" =>
    /\ ConversionState(Now) = "D"
    /\ btc # NoData /\ (~btc.above \/ btc.slope < 0)
    /\ wrp # NoData /\ wrp.change <= -3

\* What it takes to approve a conversion (ConversionEngine.evaluate): a market
\* that answered and moves, a regime of an hour that mostly succeeded, and for a
\* sale a BTC and a WRP known to be weak.
ApprovedOnEvidence == NoDataNoTrade /\ FailingNeverConverts /\ SellsOnlyInWeakness

\* The regime of a snapshot has the highest priority of those whose condition
\* its signals meet (REGIME_CONFIGS), except that thin pools hide a halt and
\* volatility hides a liquidity gap.
PriorityRespected ==
  snap # NoData =>
    \A r \in Regime :
      Calls(r, snap.signals) =>
        \/ Rank[r] <= Rank[snap.regime]
        \/ <<snap.regime, r>> \in {<<"LP_THIN", "INV_STRESS">>, <<"HIGH_VOL", "GAP_RISK">>}
=============================================================================
