----------------------------- MODULE DexAdapters -----------------------------
(***************************************************************************)
(* The DEX adapters of a worker process, for one pair of tokens at two     *)
(* venues (packages/dex-adapters/src):                                     *)
(*   sushiswap-v2.ts  solidly-v2.ts  uniswap-v3.ts  algebra-v1.ts          *)
(*   liquidity-estimator.ts                                                *)
(* What an adapter lists, what it quotes and what it would swap in are     *)
(* looked up separately: a listing goes by cached addresses, a quote and a *)
(* swap ask the factory again.  Token x has the 18 decimals that stand for *)
(* a token that does not answer; y is a stablecoin and has fewer.          *)
(***************************************************************************)
EXTENDS Integers, FiniteSets

CONSTANTS
  Reserves,   \* [venue -> [slot -> <<of x, of y>>]] in units of 500 tokens
  OtherRate   \* what a pool of another pair would say of this one: y for 100 x

Venue == {"buy", "sell"}

\* The pools a pair may have at a venue of each protocol.
Slots ==
  [v2 |-> {"pair"}, solidly |-> {"volatile", "stable"},
   v3 |-> {"500", "2500", "3000", "10000"}, algebra |-> {"pool"}]

ASSUME AdapterAssumption ==
  /\ \A v \in Venue, k \in DOMAIN Slots : Slots[k] \subseteq DOMAIN Reserves[v]
  /\ \A v \in Venue : \A s \in DOMAIN Reserves[v] : Reserves[v][s] \in (Nat \ {0}) \X (Nat \ {0})
  /\ OtherRate \in Nat

VARIABLES
  venue,      \* of each: its kind; the V3 tiers it lists, and whether its quoter is
              \* one; whether an Algebra venue's first pool is of another pair
  deployed,   \* the factory's pools of the pair
  found,      \* the addresses the process has cached (poolPairMap at Algebra)
  meta,       \* the venues whose adapter has y's symbol and decimals cached
  listed      \* [venue -> set of [slot, known]], the pools in the scan's cache

adapterVars == <<venue, deployed, found, meta, listed>>

SlotsOf(v) == Slots[venue[v].kind]
Nowhere == "nowhere"

\* VENUE_PRESETS, by the venue whose factory it is, and the tiers listed there.
Presets == [uniswap |-> {"500", "3000", "10000"}, traderjoe |-> {"500", "2500", "10000"}]

\* fromVenue: another factory gets Uniswap's tiers, and its router for a quoter.
FromVenue(factory) ==
  LET preset == factory \in DOMAIN Presets
  IN  [kind |-> "v3", tiers |-> Presets[IF preset THEN factory ELSE "uniswap"],
       quoter |-> preset, others |-> FALSE]
Failure == "failure"

-----------------------------------------------------------------------------
(* Listing.                                                                *)

\* resolveTokenMeta: a failure is answered by "???" and 18 decimals, and not
\* kept.
ResolveTokenMeta(v, answers) ==
  meta' = IF answers THEN meta \cup {v} ELSE meta

\* The addresses an adapter keeps and the pools it reads, where the factory answers
\* for some pools and some pools answer.  V2 keeps every address it was told; a
\* factory call that throws ends the listing, a pool that fails is left out.
V2Pools(v, answered, read) ==
  LET known == found[v] \cup (deployed[v] \cap answered)
  IN  [keeps |-> known, sees |-> known \cap read]

\* So does V3, of the tiers in its configuration.
V3Pools(v, answered, read) ==
  LET known == found[v] \cup (deployed[v] \cap answered \cap venue[v].tiers)
  IN  [keeps |-> known, sees |-> known \cap read]

\* Solidly asks the factory each time, for either kind in turn.
SolidlyPools(v, answered, read) ==
  [keeps |-> {}, sees |-> deployed[v] \cap answered \cap read]

\* Algebra asks no factory but the pools the database named at startup, and
\* notes the pair of those it has read.
AlgebraPools(v, answered, read) ==
  LET sees == deployed[v] \cap read IN [keeps |-> found[v] \cup sees, sees |-> sees]

\* getPools, into the scan's cache: pools that are not read stay as they were.
GetPools(v, answered, read, answers) ==
  LET now == CASE venue[v].kind = "v2" -> V2Pools(v, answered, read)
               [] venue[v].kind = "v3" -> V3Pools(v, answered, read)
               [] venue[v].kind = "solidly" -> SolidlyPools(v, answered, read)
               [] venue[v].kind = "algebra" -> AlgebraPools(v, answered, read)
  IN  /\ found' = [found EXCEPT ![v] = now.keeps]
      /\ IF now.sees = {} THEN UNCHANGED meta ELSE ResolveTokenMeta(v, answers)
      /\ listed' = [listed EXCEPT ![v] = {l \in @ : l.slot \notin now.sees}
           \cup [slot : now.sees, known : {(v \in meta) \/ answers}]]
      /\ UNCHANGED <<venue, deployed>>

\* A pool is created on the chain.
Deploy(v, s) ==
  /\ s \in SlotsOf(v) \ deployed[v]
  /\ deployed' = [deployed EXCEPT ![v] = @ \cup {s}]
  /\ UNCHANGED <<venue, found, meta, listed>>

-----------------------------------------------------------------------------
(* What a listing says: reserves by the decimals known to the adapter.      *)

\* Ten times the reserves, in tokens: a tenth of y where its decimals failed.
AdjX(v, l) == 10 * Reserves[v][l.slot][1]
AdjY(v, l) == IF l.known THEN 10 * Reserves[v][l.slot][2] ELSE Reserves[v][l.slot][2]

Root(n) == CHOOSE r \in 0 .. n : r * r <= n /\ (r + 1) * (r + 1) > n

\* estimateV2LiquidityUsd: twice the stablecoin's side, or the mean of two
\* amounts of different tokens.
EstimateV2LiquidityUsd(v, l) ==
  IF l.known THEN (2 * AdjY(v, l)) \div 10 ELSE (AdjX(v, l) + AdjY(v, l)) \div 20

\* estimateV3LiquidityUsd: the same, or the raw liquidity over 10^12, which for
\* 18 and 6 decimals is the geometric mean of the reserves in tokens.
EstimateV3LiquidityUsd(v, l) ==
  IF l.known THEN (2 * AdjY(v, l)) \div 10
  ELSE Root(Reserves[v][l.slot][1] * Reserves[v][l.slot][2])

Concentrated(v) == venue[v].kind \in {"v3", "algebra"}
LiquidityUsd(v, l) ==
  IF Concentrated(v) THEN EstimateV3LiquidityUsd(v, l) ELSE EstimateV2LiquidityUsd(v, l)

\* price0Per1 as a fraction.  V2 and Solidly say x for a y, sqrtPriceX96ToPrice
\* says y for an x.
Price0Per1(v, l) ==
  IF Concentrated(v) THEN <<AdjY(v, l), AdjX(v, l)>> ELSE <<AdjX(v, l), AdjY(v, l)>>

-----------------------------------------------------------------------------
(* Where a quote and a swap go.                                            *)

\* The first of the tiers in the adapter's own order, and 3000 where there is
\* none; no failure is caught.
ResolveFeeTier(v) ==
  IF "3000" \in deployed[v] THEN "3000"
  ELSE IF "500" \in deployed[v] THEN "500"
  ELSE IF "10000" \in deployed[v] THEN "10000"
  ELSE "3000"

\* Volatile first; a call that fails counts as no pair.
ResolveStable(v, failed) ==
  IF "volatile" \in deployed[v] \ failed THEN "volatile"
  ELSE IF "stable" \in deployed[v] \ failed THEN "stable"
  ELSE "volatile"

\* What resolveFeeTier comes to; rpc: calls may fail.
FeeTiers(v, rpc) == {ResolveFeeTier(v)} \cup (IF rpc THEN {Failure} ELSE {})

\* buildSwapCalldata: the pools a swap may be built for.  The routers of V2 and
\* Algebra find the pool of a pair themselves.
V2Swap(v, rpc) == {"pair"}
AlgebraSwap(v, rpc) == {"pool"}
V3Swap(v, rpc) == FeeTiers(v, rpc)
SolidlySwap(v, rpc) == {ResolveStable(v, f) : f \in IF rpc THEN SUBSET SlotsOf(v) ELSE {{}}}

Routes(v, rpc) ==
  CASE venue[v].kind = "v2" -> V2Swap(v, rpc)
    [] venue[v].kind = "v3" -> V3Swap(v, rpc)
    [] venue[v].kind = "solidly" -> SolidlySwap(v, rpc)
    [] venue[v].kind = "algebra" -> AlgebraSwap(v, rpc)

\* findPoolForPair: the pool of the pair once it was listed, else the first that
\* the venue has, whatever its pair.
FindPoolForPair(v) ==
  IF "pool" \in found[v] THEN "pool" ELSE IF venue[v].others THEN "other" ELSE "pool"

\* The router's answer to an amount of x (or of y) at a pool's price.
Out(v, slot, amount, ofX) ==
  LET r == IF slot = "other" THEN <<100, OtherRate>> ELSE Reserves[v][slot]
  IN  IF ofX THEN ((amount * r[2]) \div r[1]) \div 10 ELSE (amount * r[1] * 10) \div r[2]

NoQuote == [slot |-> Nowhere, out |-> 0]
QuoteIn(v, slot, amount, ofX) ==
  IF slot \in deployed[v] \cup {"other"} /\ amount > 0
    THEN [slot |-> slot, out |-> Out(v, slot, amount, ofX)] ELSE NoQuote

\* getQuote.  V2 and Solidly ask the router for the pool they would swap in.
V2Quote(v, amount, ofX, rpc) == {QuoteIn(v, s, amount, ofX) : s \in V2Swap(v, rpc)}
SolidlyQuote(v, amount, ofX, rpc) == {QuoteIn(v, s, amount, ofX) : s \in SolidlySwap(v, rpc)}

\* A V3 venue of an unknown factory has the router for a quoter, and fails.
V3Quote(v, amount, ofX, rpc) ==
  {IF venue[v].quoter THEN QuoteIn(v, s, amount, ofX) ELSE NoQuote : s \in V3Swap(v, rpc)}

\* So has every Algebra venue of the database; there the spot price of a pool
\* stands in.
AlgebraQuote(v, amount, ofX, rpc) == {QuoteIn(v, FindPoolForPair(v), amount, ofX)}

GetQuote(v, amount, ofX, rpc) ==
  (CASE venue[v].kind = "v2" -> V2Quote(v, amount, ofX, rpc)
     [] venue[v].kind = "v3" -> V3Quote(v, amount, ofX, rpc)
     [] venue[v].kind = "solidly" -> SolidlyQuote(v, amount, ofX, rpc)
     [] venue[v].kind = "algebra" -> AlgebraQuote(v, amount, ofX, rpc))
  \cup (IF rpc THEN {NoQuote} ELSE {})
=============================================================================
