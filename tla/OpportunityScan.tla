-------------------------- MODULE OpportunityScan --------------------------
(***************************************************************************)
(* The scan for opportunities over its two caches, from the refresh of the *)
(* pools to the candidates, as the pool-refresh worker calls it:           *)
(*   packages/opportunity-engine/src/index.ts   OpportunityEngine          *)
(* A scan that outlives the worker's timeout goes on beside the next one.  *)
(* Prices are integers around Unit (token0 for one token1), money is in    *)
(* cents, liquidity in dollars, fractions in basis points; a quotient is   *)
(* rounded down.                                                           *)
(***************************************************************************)
EXTENDS DexScreenerFeed, Sequences

CONSTANTS
  Scan,           \* scans of a behaviour
  Reader,         \* other callers of getTokenPairs
  Lists,          \* Lists[t]: the pools a response for token t may list
  Venue, VenueOf, \* adapters, and the adapter of each pool
  V3,             \* pools whose adapter derives the price from sqrtPriceX96
  Estimate,       \* each pool's liquidity as its adapter estimates it
  Price, Unit,    \* price levels of the market, and a price of one
  Concurrency,    \* fetchConcurrency
  Timeout,        \* POOL_REFRESH_TIMEOUT_MS in ticks
  TradeSize, GasUsd, FailureUsd, FeeBps, BufferBps, \* configuration and costs of a trade
  MaxMoves,       \* bound: changes of the market and of the listing
  Settings        \* the settings a behaviour may run in

Moves == {"trade", "relist"}
Faults == {"retry", "throw", "adapter", "quote", "scan"}

ASSUME ScanAssumption ==
  /\ Scan \subseteq Caller /\ Reader \subseteq Caller /\ Scan \cap Reader = {}
  /\ Lists \in [Token -> SUBSET Pool]
  /\ VenueOf \in [Pool -> Venue] /\ V3 \subseteq Pool
  /\ Estimate \in [Pool -> Level]
  /\ Price \subseteq Nat \ {0}
  /\ {Unit, Concurrency} \subseteq Nat \ {0}
  /\ \A x \in Settings :
       /\ x.actors \subseteq Caller /\ x.may \subseteq Moves \cup Faults
       /\ x.order \in Seq(Token) /\ x.venues \subseteq Venue
       /\ x.listings \subseteq Pairs /\ x.markets \subseteq [Pool -> Price]
  /\ {Timeout, TradeSize, GasUsd, FailureUsd, BufferBps, MaxMoves} \subseteq Nat
  /\ FeeBps \in 0 .. 10000

VARIABLES
  setting,   \* who takes part, target tokens, adapters, what may happen, how it starts
  market,    \* each pool's price: token0 for one token1
  since,     \* when the listing of a pool last changed
  moves,     \* changes so far
  poolCache, \* poolCache: what the adapters last told, and what was not killed
  dexPairs,  \* dexScreenerPairCache: liquidityUsd, 0 for a pair never seen
  scan,      \* where each scan is
  pairs,     \* the pairs a scan has still to score
  trade,     \* the pair being quoted
  out        \* the candidates a scan has found

worldVars == <<setting, clock, listing, market, since, moves>>
engineVars == <<poolCache, dexPairs, scan, pairs, trade, out>>
vars == <<worldVars, feedVars, engineVars>>

Order == setting.order
NoPool == [price |-> 0, liq |-> 0]
NoTrade == [buy |-> None, sell |-> None, tvl |-> 0, size |-> 0, boughtAt |-> 0, got |-> 0]
Idle == [at |-> "idle", started |-> 0, dex |-> "stale", next |-> 1, read |-> 1,
         workers |-> 0, venues |-> {}]

Init ==
  /\ setting \in Settings
  /\ FeedInit
  /\ listing \in setting.listings
  /\ market \in setting.markets
  /\ since = [p \in Pool |-> 0]
  /\ moves = 0
  /\ poolCache = [p \in Pool |-> NoPool]
  /\ dexPairs = Unlisted
  /\ scan = [s \in Scan |-> Idle]
  /\ pairs = [s \in Scan |-> {}]
  /\ trade = [s \in Scan |-> NoTrade]
  /\ out = [s \in Scan |-> {}]

-----------------------------------------------------------------------------
(* The world: time, the market and what DexScreener lists.                 *)

Tick ==
  /\ clock < MaxTime
  /\ clock' = clock + 1
  /\ UNCHANGED <<setting, listing, market, since, moves, feedVars, engineVars>>

Trade(p, price) ==
  /\ "trade" \in setting.may
  /\ moves < MaxMoves
  /\ moves' = moves + 1
  /\ market' = [market EXCEPT ![p] = price]
  /\ UNCHANGED <<setting, clock, listing, since, feedVars, engineVars>>

Relist(p, level) ==
  /\ "relist" \in setting.may
  /\ moves < MaxMoves
  /\ listing[p] # level
  /\ moves' = moves + 1
  /\ listing' = [listing EXCEPT ![p] = level]
  /\ listing' \in setting.listings
  /\ since' = [since EXCEPT ![p] = clock]
  /\ UNCHANGED <<setting, clock, market, feedVars, engineVars>>

-----------------------------------------------------------------------------
(* The start: the worker takes one job at a time and gives up waiting for  *)
(* it after the timeout.                                                   *)

Running(s) == scan[s].at \notin {"idle", "ended"}

Begin(s) ==
  /\ s \in setting.actors
  /\ scan[s].at = "idle"
  /\ \A o \in Scan : Running(o) => clock >= scan[o].started + Timeout
  /\ scan' = [scan EXCEPT ![s] =
       [at |-> "refresh", started |-> clock, dex |-> "refresh", next |-> 1, read |-> 1,
        workers |-> Concurrency, venues |-> setting.venues]]
  /\ UNCHANGED <<worldVars, feedVars, poolCache, dexPairs, pairs, trade, out>>

\* The regime classifier and the native price ask for a token's pairs.
Read(r, t) ==
  /\ r \in setting.actors
  /\ Ask(r, t, "get")
  /\ UNCHANGED <<worldVars, cache, engineVars>>

-----------------------------------------------------------------------------
(* refreshDexScreenerData.  refreshAll has workers that take the tokens in *)
(* turn; a worker whose request fails ends and takes refreshAll with it,   *)
(* while the others go on.                                                 *)

InFlight(s) == {t \in Token : At(s, t) # "idle"}
Refreshing(s) == {t \in InFlight(s) : calls[<<s, t>>].op = "refresh"}

AskRefresh(s) ==
  /\ scan[s].at # "idle"
  /\ scan[s].next <= Len(Order)
  /\ scan[s].dex # "read"
  /\ Cardinality(Refreshing(s)) < scan[s].workers
  /\ Ask(s, Order[scan[s].next], "refresh")
  /\ scan' = [scan EXCEPT ![s].next = @ + 1]
  /\ UNCHANGED <<worldVars, cache, poolCache, dexPairs, pairs, trade, out>>

\* refreshAll has resolved: the tokens are read one after the other.
BeginRead(s) ==
  /\ scan[s].dex = "refresh"
  /\ scan[s].next > Len(Order)
  /\ InFlight(s) = {}
  /\ scan' = [scan EXCEPT ![s].dex = IF Order = <<>> THEN "fresh" ELSE "read"]
  /\ UNCHANGED <<worldVars, feedVars, poolCache, dexPairs, pairs, trade, out>>

AskPairs(s) ==
  /\ scan[s].dex = "read"
  /\ scan[s].read <= Len(Order)
  /\ InFlight(s) = {}
  /\ Ask(s, Order[scan[s].read], "get")
  /\ UNCHANGED <<worldVars, cache, engineVars>>

\* The scan goes on with the answer of a call.
TakePairs(s, t, listed) ==
  /\ dexPairs' = [p \in Pool |->
                    IF p \in Lists[t] /\ listed[p] > 0 THEN listed[p] ELSE dexPairs[p]]
  /\ scan' = [scan EXCEPT
       ![s].read = @ + 1,
       ![s].dex = IF scan[s].read = Len(Order) THEN "fresh" ELSE "read"]

Answered(c, t, listed) ==
  /\ IF c \in Scan /\ calls[<<c, t>>].op = "get"
       THEN TakePairs(c, t, listed)
       ELSE UNCHANGED <<dexPairs, scan>>
  /\ UNCHANGED <<worldVars, poolCache, pairs, trade, out>>

FeedHit(c, t) == Hit(c, t) /\ Answered(c, t, cache[t].pairs)
FeedResponds(c, t) == Respond(c, t) /\ Answered(c, t, calls[<<c, t>>].pairs)

FeedThrows(c, t) ==
  /\ "throw" \in setting.may
  /\ Throw(c, t)
  /\ scan' = IF c \in Scan
               THEN [scan EXCEPT ![c].dex = "stale", ![c].workers = @ - 1]
               ELSE scan
  /\ UNCHANGED <<worldVars, poolCache, dexPairs, pairs, trade, out>>

FeedLoads(c, t) == Load(c, t) /\ UNCHANGED <<worldVars, engineVars>>
FeedRetries(c, t) == "retry" \in setting.may /\ Retry(c, t) /\ UNCHANGED <<worldVars, engineVars>>

-----------------------------------------------------------------------------
(* refreshPools: an adapter tells the pools it could read, or fails.  The  *)
(* V3 adapters give the price the other way round.                         *)

Price0Per1(p) == IF p \in V3 THEN (Unit * Unit) \div market[p] ELSE market[p]

Reading(p) ==
  [price |-> Price0Per1(p), liq |-> IF dexPairs[p] > 0 THEN dexPairs[p] ELSE Estimate[p]]

AdapterAnswers(s, v, read) ==
  /\ scan[s].at = "refresh" /\ v \in scan[s].venues
  /\ poolCache' = [p \in Pool |-> IF p \in read THEN Reading(p) ELSE poolCache[p]]
  /\ scan' = [scan EXCEPT ![s].venues = @ \ {v}]
  /\ UNCHANGED <<worldVars, feedVars, dexPairs, pairs, trade, out>>

Refreshed(s) == scan[s].at = "refresh" /\ scan[s].venues = {} /\ scan[s].dex \in {"fresh", "stale"}

-----------------------------------------------------------------------------
(* killDeadPools and findCrossVenuePairs, in one go.                       *)

MinLiquidity == 100

\* Mutant: the adapter's own liquidity comes first.
EffectiveOwnFirst(p) == IF poolCache[p].liq > 0 THEN poolCache[p].liq ELSE dexPairs[p]

EffectiveLiquidity(p) == IF dexPairs[p] > 0 THEN dexPairs[p] ELSE poolCache[p].liq

Alive(p) == poolCache[p].price > 0 /\ EffectiveLiquidity(p) >= MinLiquidity
Smaller(a, b) == IF a < b THEN a ELSE b
Larger(a, b) == IF a > b THEN a ELSE b

Crosses(a, b) ==
  /\ a # b /\ Alive(a) /\ Alive(b)
  /\ poolCache[a].liq >= MinLiquidity /\ poolCache[b].liq >= MinLiquidity
  /\ 1000 * poolCache[a].price < 999 * poolCache[b].price

CrossVenuePairs ==
  { [buy |-> k[1], sell |-> k[2], from |-> poolCache[k[1]], to |-> poolCache[k[2]]] :
    k \in {j \in Pool \X Pool : Crosses(j[1], j[2])} }

FindPairs(s) ==
  /\ Refreshed(s)
  /\ poolCache' = [p \in Pool |-> IF Alive(p) THEN poolCache[p] ELSE NoPool]
  /\ pairs' = [pairs EXCEPT ![s] = CrossVenuePairs]
  /\ scan' = [scan EXCEPT ![s].at = "gas"]
  /\ UNCHANGED <<worldVars, feedVars, dexPairs, trade, out>>

GasPrice(s) ==
  /\ scan[s].at = "gas"
  /\ scan' = [scan EXCEPT ![s].at = "score"]
  /\ UNCHANGED <<worldVars, feedVars, poolCache, dexPairs, pairs, trade, out>>

\* The query of the tracked tokens or of the gas price fails.
ScanThrows(s) ==
  /\ "scan" \in setting.may
  /\ Refreshed(s) \/ scan[s].at = "gas"
  /\ scan' = [scan EXCEPT ![s].at = "ended"]
  /\ pairs' = [pairs EXCEPT ![s] = {}]
  /\ UNCHANGED <<worldVars, feedVars, poolCache, dexPairs, trade, out>>

-----------------------------------------------------------------------------
(* scoreCandidate up to the quotes: the size of the trade and what the     *)
(* prices promise.                                                         *)

MinTradeSize == 500
Tvl(pair) == Smaller(pair.from.liq, pair.to.liq)
TvlCap(tvl) == 2 * tvl                  \* 2% of it, in cents

SpreadBps(pair) == ((pair.to.price - pair.from.price) * 10000) \div pair.from.price
KellyBps(spread) == Smaller(5000, 5 * spread)

\* Mutant: the minimum is applied last.
OptimalSizeAtLeast(tvl, spread) ==
  Larger(Smaller(Smaller((TvlCap(tvl) * KellyBps(spread)) \div 10000, TvlCap(tvl)), TradeSize),
         MinTradeSize)

OptimalSize(tvl, spread) ==
  Smaller(Smaller(Larger((TvlCap(tvl) * KellyBps(spread)) \div 10000, MinTradeSize),
                  TvlCap(tvl)),
          TradeSize)

ImpactBps(p, size, liq) == IF p \in V3 THEN (100 * size) \div (3 * liq) ELSE (50 * size) \div liq
Impact(pair, size) ==
  ImpactBps(pair.buy, size, pair.from.liq) + ImpactBps(pair.sell, size, pair.to.liq)

Of(bps, amount) == (bps * amount) \div 10000

NetProfit(pair, size) ==
  Of(SpreadBps(pair), size) - Of(2 * FeeBps + BufferBps + Impact(pair, size), size)
    - GasUsd - FailureUsd

WorthQuoting(pair, size) ==
  /\ SpreadBps(pair) <= 100000
  /\ size >= MinTradeSize
  /\ Of(SpreadBps(pair), size) > 0
  /\ 2 * Impact(pair, size) <= SpreadBps(pair)
  /\ NetProfit(pair, size) >= -100

Score(s, pair) ==
  LET size == OptimalSize(Tvl(pair), SpreadBps(pair))
  IN /\ scan[s].at = "score" /\ pair \in pairs[s]
     /\ pairs' = [pairs EXCEPT ![s] = @ \ {pair}]
     /\ IF WorthQuoting(pair, size)
          THEN /\ scan' = [scan EXCEPT ![s].at = "buyQuote"]
               /\ trade' = [trade EXCEPT ![s] =
                    [buy |-> pair.buy, sell |-> pair.sell, tvl |-> Tvl(pair), size |-> size,
                     boughtAt |-> 0, got |-> 0]]
          ELSE UNCHANGED <<scan, trade>>
     /\ UNCHANGED <<worldVars, feedVars, poolCache, dexPairs, out>>

-----------------------------------------------------------------------------
(* The quotes, which ask the pools themselves.  A quote that fails leaves  *)
(* the candidate with what the cached prices promise.                      *)

\* The pools a quote may come from: the V3 adapter passes over the pool it is
\* given and takes the first fee tier that its factory knows.
Quoted(pool) == IF pool \in V3 THEN {p \in V3 : VenueOf[p] = VenueOf[pool]} ELSE {pool}

AfterFee(amount) == Of(10000 - FeeBps, amount)
Buys(amount, price) == AfterFee((amount * Unit) \div price)
Sells(amount, price) == AfterFee((amount * price) \div Unit)

BuyQuote(s) ==
  /\ scan[s].at = "buyQuote"
  /\ scan' = [scan EXCEPT ![s].at = "sellQuote"]
  /\ \E p \in Quoted(trade[s].buy) :
       trade' = [trade EXCEPT ![s].boughtAt = market[p],
                              ![s].got = Buys(trade[s].size, market[p])]
  /\ UNCHANGED <<worldVars, feedVars, poolCache, dexPairs, pairs, out>>

Found(s, quoted, soldAt) ==
  [buy |-> trade[s].buy, sell |-> trade[s].sell, tvl |-> trade[s].tvl, size |-> trade[s].size,
   quoted |-> quoted, boughtAt |-> IF quoted THEN trade[s].boughtAt ELSE 0, soldAt |-> soldAt]

\* Mutant: the proceeds are compared with the gas alone.
GainsProceeds(s, price) == Sells(trade[s].got, price) > GasUsd

Gains(s, price) == Sells(trade[s].got, price) - trade[s].size > GasUsd

SellQuote(s) ==
  /\ scan[s].at = "sellQuote"
  /\ scan' = [scan EXCEPT ![s].at = "score"]
  /\ trade' = [trade EXCEPT ![s] = NoTrade]
  /\ \E p \in Quoted(trade[s].sell) :
       out' = IF Gains(s, market[p])
                THEN [out EXCEPT ![s] = @ \cup {Found(s, TRUE, market[p])}]
                ELSE out
  /\ UNCHANGED <<worldVars, feedVars, poolCache, dexPairs, pairs>>

QuoteFails(s) ==
  /\ "quote" \in setting.may
  /\ scan[s].at \in {"buyQuote", "sellQuote"}
  /\ scan' = [scan EXCEPT ![s].at = "score"]
  /\ trade' = [trade EXCEPT ![s] = NoTrade]
  /\ out' = [out EXCEPT ![s] = @ \cup {Found(s, FALSE, 0)}]
  /\ UNCHANGED <<worldVars, feedVars, poolCache, dexPairs, pairs>>

End(s) ==
  /\ scan[s].at = "score" /\ pairs[s] = {}
  /\ scan' = [scan EXCEPT ![s].at = "ended"]
  /\ UNCHANGED <<worldVars, feedVars, poolCache, dexPairs, pairs, trade, out>>

-----------------------------------------------------------------------------
FeedStep(c, t) ==
  FeedHit(c, t) \/ FeedLoads(c, t) \/ FeedResponds(c, t) \/ FeedRetries(c, t) \/ FeedThrows(c, t)

RefreshStep(s) == AskRefresh(s) \/ BeginRead(s) \/ AskPairs(s)

ScoreStep(s) ==
  \/ FindPairs(s) \/ GasPrice(s) \/ ScanThrows(s)
  \/ \E pair \in pairs[s] : Score(s, pair)
  \/ BuyQuote(s) \/ SellQuote(s) \/ QuoteFails(s) \/ End(s)

Adapter(s, v) ==
  \E read \in SUBSET {p \in Pool : VenueOf[p] = v} :
    /\ "adapter" \in setting.may \/ read = {p \in Pool : VenueOf[p] = v}
    /\ AdapterAnswers(s, v, read)

ScanStep(s) ==
  RefreshStep(s) \/ ScoreStep(s) \/ \E v \in Venue : Adapter(s, v)

Next ==
  \/ Tick
  \/ \E p \in Pool : (\E x \in Price : Trade(p, x)) \/ (\E l \in Level : Relist(p, l))
  \/ \E s \in Scan : Begin(s) \/ ScanStep(s)
  \/ \E r \in Reader, t \in Token : Read(r, t)
  \/ \E c \in Caller, t \in Token : FeedStep(c, t)

\* Requests are answered or given up (fetch has time limits of its own), and
\* what waited for a promise is run.
Fairness ==
  /\ \A s \in Scan : WF_vars(ScanStep(s) \/ \E t \in Token : FeedStep(s, t))
  /\ \A r \in Reader, t \in Token : WF_vars(FeedStep(r, t))

Spec == Init /\ [][Next]_vars /\ Fairness

-----------------------------------------------------------------------------
CachedPool == [price : Nat, liq : Level]
PoolPair == [buy : Pool, sell : Pool, from : CachedPool, to : CachedPool]

TypeOK ==
  /\ setting \in Settings
  /\ FeedTypeOK
  /\ market \in [Pool -> Price]
  /\ since \in [Pool -> 0 .. MaxTime]
  /\ moves \in 0 .. MaxMoves
  /\ poolCache \in [Pool -> CachedPool]
  /\ dexPairs \in Pairs
  /\ \A s \in Scan : pairs[s] \subseteq PoolPair
  /\ \A s \in Scan :
       /\ scan[s].at \in {"idle", "refresh", "gas", "score", "buyQuote", "sellQuote", "ended"}
       /\ scan[s].dex \in {"refresh", "read", "fresh", "stale"}
       /\ scan[s].read \in 1 .. Len(Order) + 1 /\ scan[s].next \in 1 .. Len(Order) + 1
       /\ scan[s].workers \in 0 .. Concurrency

\* The listing of a pool has not changed since before the scan started.
Steady(s, p) == since[p] < scan[s].started

(* index.ts:251-265.  A scan whose refresh of the DexScreener data succeeded *)
(* sees what is listed: the data of a pool that has been listed unchanged    *)
(* since before the scan is exact, whatever other scans and readers wrote,   *)
(* and whichever of their requests were on the way.                          *)
FreshLiquidity ==
  \A s \in Scan : scan[s].dex = "fresh" =>
    \A t \in {Order[i] : i \in DOMAIN Order} : \A p \in Lists[t] :
      Steady(s, p) /\ listing[p] > 0 => dexPairs[p] = listing[p]

(* index.ts:288, 384-392.  Such a scan never pairs a pool that has been      *)
(* listed as dead since before it started, however much liquidity the pool's *)
(* adapter, or an older answer, had told.                                    *)
NoDeadPool ==
  \A s \in Scan : scan[s].dex = "fresh" =>
    \A pair \in pairs[s] : \A p \in {pair.buy, pair.sell} :
      (\E i \in DOMAIN Order : p \in Lists[Order[i]]) /\ Steady(s, p) =>
        ~ listing[p] \in 1 .. MinLiquidity - 1

(* index.ts:251-288.  A scan goes by the liquidity that is listed.            *)
ListedLiquidity == FreshLiquidity /\ NoDeadPool

(* index.ts:582-592.  A candidate whose two quotes succeeded buys token1 for *)
(* less than it sells it for, also when the cached prices had the wrong      *)
(* orientation or the market moved between refresh and quotes.               *)
QuotedGains ==
  \A s \in Scan : \A c \in out[s] : c.quoted => c.boughtAt < c.soldAt

(* index.ts:174-190, 498-508.  No candidate, quoted or not, trades less than *)
(* five dollars or more than 2% of the smaller pool.                         *)
TradeWithinTvl ==
  \A s \in Scan : \A c \in out[s] : c.size >= MinTradeSize /\ c.size <= TvlCap(c.tvl)

(* index.ts:498-592.  What a scan returns is worth a trade of its size.       *)
CandidatesSound == QuotedGains /\ TradeWithinTvl

(* index.ts:279-283.  Every scan that starts ends: no failing adapter, token *)
(* chain or quote leaves it running.                                         *)
ScanEnds == \A s \in Scan : []<>~Running(s)

(* shared-types/src/index.ts:122: price0Per1 is the "price of token1 in      *)
(* terms of token0".  In a market that stands still a candidate buys token1  *)
(* where it is cheaper.                                                      *)
BuysCheaper == \A s \in Scan : \A c \in out[s] : market[c.buy] < market[c.sell]
=============================================================================
