------------------------------- MODULE V3Sizing -------------------------------
(***************************************************************************)
(* How much of a V3 pool a trade would take:                               *)
(*   packages/opportunity-engine/src/v3-simulator.ts   simulateV3Trade     *)
(*                                   optimal-sizer.ts  findOptimalTradeSize*)
(*                                   lp-band-builder.ts buildLPBandProfile *)
(* A pool is given by its positions, as on the chain; both tokens are worth*)
(* one dollar and have no decimals.                                        *)
(***************************************************************************)
EXTENDS V3Math, FiniteSets, FiniteSetsExt

CONSTANTS
  Pools,      \* the pools looked at: [positions, sqrtPrice, fee]
  SellPools,  \* the pools a search sells in
  Amounts,    \* the amounts simulated
  Searches,   \* the largest amounts of a search
  GasCost,    \* gasCostPerSwapUsd
  MaxSteps,   \* steps of a simulation, 500 in the code
  MaxIter     \* iterations of a search, 60 in the code

\* A pool as the chain has it.
IsPool(pl) ==
  /\ DOMAIN pl = {"positions", "sqrtPrice", "fee"}
  /\ IsFiniteSet(pl.positions)
  /\ \A pos \in pl.positions :
       /\ {pos.lower, pos.upper} \subseteq MinTick .. -MinTick
       /\ pos.lower < pos.upper /\ pos.liquidity \in Nat \ {0}
  /\ pl.sqrtPrice \in MinSqrtRatio + 1 .. MaxSqrtRatio - 1
  /\ pl.fee \in 0 .. Pips - 1

ASSUME SizingAssumption ==
  /\ {GasCost, MaxSteps, MaxIter} \subseteq Nat
  /\ Amounts \subseteq Nat /\ Searches \subseteq Nat \ {0}
  /\ \A pl \in Pools \cup SellPools : IsPool(pl)

VARIABLES
  pool,       \* the pool at hand
  done,       \* what was asked of it
  answer      \* and what was answered

v3Vars == <<pool, done, answer>>

-----------------------------------------------------------------------------
(* What the chain tells of a pool.                                         *)

Covers(pos, tick) == pos.lower <= tick /\ tick < pos.upper
TotalLiquidity(positions) == MapThenSumSet(LAMBDA pos : pos.liquidity, positions)
LiquidityAt(pl, tick) == TotalLiquidity({pos \in pl.positions : Covers(pos, tick)})

Initialized(pl) == {pos.lower : pos \in pl.positions} \cup {pos.upper : pos \in pl.positions}
Net(pl, tick) ==
  TotalLiquidity({pos \in pl.positions : pos.lower = tick})
  - TotalLiquidity({pos \in pl.positions : pos.upper = tick})

\* A position adds its liquidity to the ticks it ends at.
AddPosition(pos, ticks) ==
  [t \in DOMAIN ticks \cup {pos.lower, pos.upper} |->
     LET m == IF t \in DOMAIN ticks THEN ticks[t] ELSE [net |-> 0, gross |-> 0]
         l == pos.liquidity
     IN  [net |-> m.net + (IF t = pos.lower THEN l ELSE 0) - (IF t = pos.upper THEN l ELSE 0),
          gross |-> m.gross + (IF t \in {pos.lower, pos.upper} THEN l ELSE 0)]]

\* buildTickMap: the positions that are not closed, and the ticks they leave.
BuildTickMap(positions) ==
  LET ticks == FoldSet(AddPosition, <<>>, {pos \in positions : pos.liquidity # 0})
  IN  [t \in {u \in DOMAIN ticks : ticks[u].gross # 0} |-> ticks[t]]

-----------------------------------------------------------------------------
(* simulateV3Trade.                                                        *)

None == 1000   \* no tick

\* ArrayTickMap.getNextInitializedTick
getNextInitializedTick(ticks, tick, zeroForOne) ==
  LET ahead == IF zeroForOne THEN {t \in ticks : t <= tick} ELSE {t \in ticks : t > tick}
  IN  IF ahead = {} THEN None ELSE IF zeroForOne THEN Max(ahead) ELSE Min(ahead)

StartSwap(pl, amount) ==
  [ price |-> pl.sqrtPrice, tick |-> TickOf(pl.sqrtPrice),
    liquidity |-> LiquidityAt(pl, TickOf(pl.sqrtPrice)),
    left |-> amount, out |-> 0, crossed |-> 0, cliff |-> FALSE, abort |-> "none" ]

\* A drop to less than half.
Cliff(before, after) == before > 0 /\ after > 0 /\ 2 * after < before

\* Mutant: liquidity is added when a tick is crossed downwards, too.
CrossedUp(liquidity, net, zeroForOne) == liquidity + net
Crossed(liquidity, net, zeroForOne) == IF zeroForOne THEN liquidity - net ELSE liquidity + net

\* The state after a step to the limit of one range, which crosses the tick next
\* or not and leaves the liquidity after.
Stepped(s, step, zeroForOne, next, cross, after) ==
  [ price |-> step.next,
    tick |-> IF ~cross THEN TickOf(step.next) ELSE IF zeroForOne THEN next - 1 ELSE next,
    liquidity |-> after,
    left |-> s.left - (step.in + step.fee),
    out |-> s.out + step.out,
    crossed |-> s.crossed + (IF cross THEN 1 ELSE 0),
    cliff |-> s.cliff \/ (cross /\ Cliff(s.liquidity, after)),
    abort |-> IF after = 0 THEN "exhausted" ELSE "none" ]

StepWithin(pl, zeroForOne, s, next, limit, step) ==
  Stepped(s, step, zeroForOne, next, step.next = limit,
          IF step.next = limit THEN Crossed(s.liquidity, Net(pl, next), zeroForOne)
                               ELSE s.liquidity)

StepTo(pl, zeroForOne, s, next, limit) ==
  StepWithin(pl, zeroForOne, s, next, limit,
             computeSwapStep(s.price, limit, s.liquidity, s.left, pl.fee))

\* The price at a tick, kept inside the range of prices.
Limit(target, zeroForOne) ==
  IF zeroForOne THEN Larger(target, MinSqrtRatio + 1) ELSE Smaller(target, MaxSqrtRatio - 1)

\* One round of the loop, towards the tick next.
Round(pl, zeroForOne, s, next) ==
  IF s.left <= 0 \/ s.abort # "none" THEN s
  ELSE IF next = None THEN [s EXCEPT !.abort = "gap"]
  ELSE IF s.liquidity = 0 THEN [s EXCEPT !.abort = "empty"]
  ELSE StepTo(pl, zeroForOne, s, next, Limit(tickToSqrtPriceX96(next), zeroForOne))

SimStep(pl, zeroForOne, s) ==
  Round(pl, zeroForOne, s, getNextInitializedTick(Initialized(pl), s.tick, zeroForOne))

OutOfSteps(s) == IF s.abort = "none" /\ s.left > 0 THEN [s EXCEPT !.abort = "steps"] ELSE s

\* The loop from a state of it: the pool's own at first.
Run(pl, zeroForOne, start) ==
  LET walk[n \in 0 .. MaxSteps] ==
        IF n = 0 THEN start ELSE SimStep(pl, zeroForOne, walk[n - 1])
  IN  OutOfSteps(walk[MaxSteps])

simulateV3Trade(pl, zeroForOne, amount) == Run(pl, zeroForOne, StartSwap(pl, amount))

-----------------------------------------------------------------------------
(* findOptimalTradeSize.                                                   *)

MinusInfinity == -100000

\* What a purchase brings when the token bought is sold in the second pool.
ProfitOf(bought, sell, amount) ==
  IF bought.abort # "none" \/ bought.out <= 0 THEN MinusInfinity
  ELSE simulateV3Trade(sell, FALSE, bought.out).out - amount - 2 * GasCost

\* Mutant: what was paid is sold again, not what was bought.
evaluateProfitOfInput(buy, sell, amount) ==
  IF amount <= 0 THEN MinusInfinity
  ELSE ProfitOf([simulateV3Trade(buy, TRUE, amount) EXCEPT !.out = amount], sell, amount)

\* Buys token1 with token0 in one pool and sells it in another: an aborted
\* purchase is worth nothing, an aborted sale what it brought so far.
evaluateProfit(buy, sell, amount) ==
  IF amount <= 0 THEN MinusInfinity
  ELSE ProfitOf(simulateV3Trade(buy, TRUE, amount), sell, amount)

Better(best, amount, profit) ==
  IF best.amount = 0 \/ profit > best.profit
    THEN [amount |-> amount, profit |-> profit] ELSE best

\* One iteration: the profits r1 and r2 at m1 and m2 say which third to drop.
Narrowed(s, n, m1, r1, m2, r2) ==
  IF r1 < r2 THEN [lo |-> m1, hi |-> s.hi, n |-> n, best |-> Better(s.best, m2, r2)]
             ELSE [lo |-> s.lo, hi |-> m2, n |-> n, best |-> Better(s.best, m1, r1)]

Probe(buy, sell, s, n, m1, m2) ==
  Narrowed(s, n, m1, evaluateProfit(buy, sell, m1), m2, evaluateProfit(buy, sell, m2))

Third(buy, sell, s, n) ==
  IF s.lo + 1 >= s.hi THEN s
  ELSE Probe(buy, sell, s, n, s.lo + (s.hi - s.lo) \div 3, s.hi - (s.hi - s.lo) \div 3)

\* What the search ended with; without an iteration, the lower end.
Found(buy, sell, end) ==
  [ converged |-> end.hi - end.lo <= 1, iterations |-> end.n,
    best |-> IF end.best.amount # 0 THEN end.best
             ELSE [amount |-> end.lo, profit |-> evaluateProfit(buy, sell, end.lo)] ]

\* The ternary search.
findOptimalTradeSize(buy, sell, low, high) ==
  LET start == [lo |-> low, hi |-> high, n |-> 0,
                best |-> [amount |-> 0, profit |-> MinusInfinity]]
      search[n \in 0 .. MaxIter] ==
        IF n = 0 THEN start ELSE Third(buy, sell, search[n - 1], n)
  IN  Found(buy, sell, search[MaxIter])

-----------------------------------------------------------------------------
(* buildLPBandProfile.                                                     *)

\* The initialized ticks in order, and the liquidity above each.
Ordered(pl) ==
  LET ticks == Initialized(pl)
  IN  [i \in 1 .. Cardinality(ticks) |->
         CHOOSE t \in ticks : Cardinality({u \in ticks : u <= t}) = i]

Nets(pl, ticks) == [i \in DOMAIN ticks |-> Net(pl, ticks[i])]

\* Mutant: a band takes the net liquidity of its upper tick.
CumulativeUpper(pl, ticks, i) == SumFunctionOnSet(Nets(pl, ticks), 2 .. i + 1)
Cumulative(pl, ticks, i) == SumFunctionOnSet(Nets(pl, ticks), 1 .. i)

estimateBandCapacityUsd(lower, upper, liquidity) ==
  LET p == tickToSqrtPriceX96(lower)
      q == tickToSqrtPriceX96(upper)
  IN  IF liquidity <= 0 THEN 0
      ELSE getAmount0Delta(p, q, liquidity, FALSE) + getAmount1Delta(p, q, liquidity, FALSE)

\* Mutant: only a gap ends the safe range.
EndsAtGap(band) == band.gap
Ends(band) == band.gap \/ band.cliff

\* The safe range, from the band of the price up, and the tick that ends it.
computeSafeEnvelope(bands, tick) ==
  LET here  == {i \in DOMAIN bands : bands[i].lower <= tick /\ tick < bands[i].upper}
      stops == {i \in DOMAIN bands : i >= Max(here) /\ Ends(bands[i])}
      last  == IF here = {} THEN 0 ELSE IF stops = {} THEN Len(bands) ELSE Min(stops) - 1
      safe  == IF here = {} THEN {} ELSE Max(here) .. last
      Token0(i) == getAmount0Delta(tickToSqrtPriceX96(bands[i].lower),
                                   tickToSqrtPriceX96(bands[i].upper), bands[i].liquidity, FALSE)
      Token1(i) == getAmount1Delta(tickToSqrtPriceX96(bands[i].lower),
                                   tickToSqrtPriceX96(bands[i].upper), bands[i].liquidity, FALSE)
  IN  [ token0 |-> SumFunctionOnSet([i \in safe |-> Token0(i)], safe),
        token1 |-> SumFunctionOnSet([i \in safe |-> Token1(i)], safe),
        end |-> IF here = {} \/ stops = {} THEN None ELSE bands[Min(stops)].lower ]

buildLPBandProfile(pl) ==
  LET ticks   == Ordered(pl)
      liq     == [i \in 1 .. Len(ticks) - 1 |-> Cumulative(pl, ticks, i)]
      full    == {i \in DOMAIN liq : liq[i] > 0}
      average == IF full = {} THEN 0
                 ELSE MapThenSumSet(LAMBDA i : liq[i], full) \div Cardinality(full)
      bands   == [i \in DOMAIN liq |->
                   [ lower |-> ticks[i], upper |-> ticks[i + 1], liquidity |-> liq[i],
                     gap   |-> liq[i] <= 0,
                     thin  |-> i \in full /\ 5 * liq[i] < average,
                     cliff |-> i > 1 /\ Cliff(liq[i - 1], liq[i]) ]]
  IN  [ bands    |-> bands,
        capacity |-> MapThenSumSet(LAMBDA i :
                       estimateBandCapacityUsd(ticks[i], ticks[i + 1], liq[i]), DOMAIN liq),
        envelope |-> computeSafeEnvelope(bands, TickOf(pl.sqrtPrice)) ]

-----------------------------------------------------------------------------
(* One question about a pool.                                              *)

V3Init ==
  /\ pool \in Pools
  /\ done = [what |-> "nothing"]
  /\ answer = [what |-> "nothing"]

Simulate(zeroForOne, amount) ==
  /\ done.what = "nothing"
  /\ done' = [what |-> "trade", zeroForOne |-> zeroForOne, amount |-> amount]
  /\ answer' = simulateV3Trade(pool, zeroForOne, amount)
  /\ UNCHANGED pool

Profile ==
  /\ done.what = "nothing"
  /\ done' = [what |-> "profile"]
  /\ answer' = buildLPBandProfile(pool)
  /\ UNCHANGED pool

Size(sell, hi) ==
  /\ done.what = "nothing"
  /\ done' = [what |-> "size", sell |-> sell, hi |-> hi]
  /\ answer' = findOptimalTradeSize(pool, sell, 1, hi)
  /\ UNCHANGED pool

V3Next ==
  \/ \E zeroForOne \in BOOLEAN, amount \in Amounts : Simulate(zeroForOne, amount)
  \/ Profile
  \/ \E sell \in SellPools, hi \in Searches : Size(sell, hi)

V3Spec == V3Init /\ [][V3Next]_v3Vars

-----------------------------------------------------------------------------
(* Properties, of pools whose prices are below one: the code's ticks above *)
(* zero have no price of their own.                                        *)

BelowPar(pl) == \A t \in Initialized(pl) : t <= 0

\* What a simulation gave, sold back to the pool at the price it left behind,
\* never buys more than it cost, whether the trade was filled or broken off: no
\* rounding, crossing or fee makes one too cheap.
RoundTripLoses ==
  (done.what = "trade" /\ BelowPar(pool)) =>
    LET back == simulateV3Trade([pool EXCEPT !.sqrtPrice = answer.price],
                                ~done.zeroForOne, answer.out)
    IN  back.out <= done.amount - answer.left

\* The profile's bands are the pool's liquidity: between two ticks that of
\* the positions that cover them, none where it says gap.
BandsExact ==
  done.what = "profile" =>
    \A i \in DOMAIN answer.bands : \A t \in answer.bands[i].lower .. answer.bands[i].upper - 1 :
      /\ answer.bands[i].liquidity = LiquidityAt(pool, t)
      /\ answer.bands[i].gap <=> \A pos \in pool.positions : ~Covers(pos, t)

\* A purchase of token0 for less than the envelope's token1 meets neither a
\* gap nor a cliff, when the price stands at the lower end of its band: only
\* the limit of steps ends it early, after a tick for each.
EnvelopeSafe ==
  (done.what = "profile" /\ BelowPar(pool)
     /\ \E t \in Initialized(pool) : pool.sqrtPrice = tickToSqrtPriceX96(t)) =>
    \A amount \in 1 .. answer.envelope.token1 - 1 :
      LET sim == simulateV3Trade(pool, FALSE, amount)
      IN  /\ ~sim.cliff
          /\ sim.abort = "none" \/ (sim.abort = "steps" /\ sim.crossed = MaxSteps)

\* The ticks the scanner would save for the pool's positions are those of the
\* chain, and what they sum to is the liquidity the positions give each price.
TicksTrue ==
  done.what = "profile" =>
    LET map == BuildTickMap(pool.positions)
    IN  /\ DOMAIN map = Initialized(pool)
        /\ \A t \in DOMAIN map :
             SumFunctionOnSet([u \in DOMAIN map |-> map[u].net], {u \in DOMAIN map : u <= t})
               = LiquidityAt(pool, t)

\* A profile's bands and envelope are those of the pool, and so are its ticks.
ProfileTrue == BandsExact /\ EnvelopeSafe /\ TicksTrue

\* A search shows no profit where there is none to take: when token1 brings
\* no more in the second pool than it costs in the first.  And the profit it
\* shows is that of the amount it shows.
SizeHonest ==
  (done.what = "size" /\ BelowPar(pool) /\ BelowPar(done.sell)) =>
    /\ answer.best.profit = evaluateProfit(pool, done.sell, answer.best.amount)
    /\ answer.best.amount \in 1 .. done.hi
    /\ done.sell.sqrtPrice >= pool.sqrtPrice => answer.best.profit <= 0

=============================================================================
