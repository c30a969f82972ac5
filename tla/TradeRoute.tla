------------------------------ MODULE TradeRoute ------------------------------
(***************************************************************************)
(* One trade of the pair, x into y at the venue "buy" and back at "sell":  *)
(*   packages/opportunity-engine/src/index.ts  the quotes of a candidate    *)
(*   packages/execution-engine/src/index.ts    RouteSimulator, the two      *)
(*     swaps, ensureTokenApproval, parseTransferAmount and the pnl          *)
(* with the wallet's balances and approvals.  Locks, rows, retries and      *)
(* crashes are ExecutionEngine's; here every await is about amounts, pools  *)
(* and approvals.                                                           *)
(***************************************************************************)
EXTENDS DexAdapters

CONSTANTS
  TradeSize,      \* tradeSizeUsd
  Drifts,         \* what a pool's price may have lost when a swap lands, per 100
  RouteSettings   \* the venues, the wallet and what may go wrong

\* What may go wrong: the node, an approval, a pool created meanwhile, time.
RouteFaults == {"rpc", "approve", "deploy", "age"}

ASSUME RouteAssumption ==
  /\ TradeSize \in Nat \ {0}
  /\ Drifts \subseteq 0 .. 100
  /\ \A s \in RouteSettings :
       /\ s.faults \subseteq RouteFaults
       /\ s.held \in [{"x", "y"} -> Nat]
       /\ s.deployed \in [Venue -> SUBSET UNION {Slots[k] : k \in DOMAIN Slots}]
       /\ \A v \in Venue : /\ s.venue[v].kind \in DOMAIN Slots
                           /\ s.deployed[v] \subseteq Slots[s.venue[v].kind]

VARIABLES
  route,      \* one of RouteSettings
  deal,       \* the opportunity's two steps, as the job carries them
  stage,      \* what the job awaits
  calldata,   \* the pools that the swaps were built for
  wallet,     \* the wallet's x and y
  allowed,    \* <<token, venue>> approved without limit
  got,        \* what each leg brought
  booked,     \* profitRaw of the execution's row
  disturbed   \* a pool was created, or the factory failed, since the quotes

dealVars == <<deal, calldata, got, booked>>
routeVars == <<adapterVars, route, stage, dealVars, wallet, allowed, disturbed>>

Rpc == "rpc" \in route.faults
Over == stage \in {"failed", "landed"}
NoDeal == [amountIn |-> 0, buyOut |-> 0, sellIn |-> 0, sellOut |-> 0,
           quoted |-> [v \in Venue |-> Nowhere],
           liquidity |-> [v \in Venue |-> 0], old |-> FALSE]

RouteInit ==
  /\ route \in RouteSettings
  /\ venue = route.venue /\ deployed = route.deployed
  /\ found = [v \in Venue |-> {}] /\ meta = {} /\ listed = [v \in Venue |-> {}]
  /\ deal = NoDeal /\ stage = "scan"
  /\ calldata = [v \in Venue |-> Nowhere]
  /\ wallet = route.held /\ allowed = route.allowed
  /\ got = [v \in Venue |-> 0] /\ booked = 0
  /\ disturbed = FALSE

-----------------------------------------------------------------------------
(* The scan.                                                               *)

\* refreshPools, at one venue.
Refresh(v) ==
  /\ stage = "scan"
  /\ \E answered, read \in (IF Rpc THEN SUBSET SlotsOf(v) ELSE {SlotsOf(v)}),
        answers \in (IF Rpc THEN BOOLEAN ELSE {TRUE}) :
       GetPools(v, answered, read, answers)
  /\ UNCHANGED <<route, stage, dealVars, wallet, allowed, disturbed>>

\* amountInRaw: the size at the listing's price, taken for dollars.
AmountIn(l) == LET p == Price0Per1("buy", l) IN (TradeSize * 100 * p[2]) \div p[1]

\* The two quotes of a candidate.  Where one fails the candidate goes on with
\* what it has; where both answer it must gain.
Evaluate(b, s, bq, sq) ==
  /\ stage = "scan"
  /\ sq.out > 0 => sq.out > AmountIn(b)
  /\ deal' = [amountIn |-> AmountIn(b), buyOut |-> bq.out, sellIn |-> bq.out, sellOut |-> sq.out,
       quoted |-> [v \in Venue |-> IF v = "buy" THEN bq.slot ELSE sq.slot],
       liquidity |-> [v \in Venue |-> IF v = "buy" THEN LiquidityUsd("buy", b)
                                      ELSE LiquidityUsd("sell", s)],
       old |-> FALSE]
  /\ stage' = "queued" /\ disturbed' = FALSE
  /\ UNCHANGED <<adapterVars, route, calldata, wallet, allowed, got, booked>>

Quote ==
  \E b \in listed["buy"], s \in listed["sell"] :
    \E bq \in GetQuote("buy", AmountIn(b), TRUE, Rpc) :
      \E sq \in (IF bq.out = 0 THEN {NoQuote}
                 ELSE GetQuote("sell", bq.out, FALSE, Rpc)) :
        Evaluate(b, s, bq, sq)

\* The pools of the job grow older than a minute.
Age ==
  /\ "age" \in route.faults /\ ~Over /\ stage # "scan" /\ ~deal.old
  /\ deal' = [deal EXCEPT !.old = TRUE]
  /\ UNCHANGED <<adapterVars, route, stage, calldata, wallet, allowed, got, booked, disturbed>>

NewPool(v, s) ==
  /\ "deploy" \in route.faults /\ ~Over /\ stage # "scan"
  /\ Deploy(v, s)
  /\ disturbed' = TRUE
  /\ UNCHANGED <<route, stage, dealVars, wallet, allowed>>

-----------------------------------------------------------------------------
(* The job, up to its first transaction.                                   *)

AwaitsIn(from, to) == stage = from /\ stage' = to

\* slippageMultiplier: by the shallower of the pools scored; in 500 USD.
Slippage ==
  LET least == IF deal.liquidity["buy"] < deal.liquidity["sell"]
               THEN deal.liquidity["buy"] ELSE deal.liquidity["sell"]
  IN  IF least > 200 THEN 2 ELSE IF least > 100 THEN 3 ELSE IF least > 20 THEN 5 ELSE 8
Kept(amount) == (amount * (100 - Slippage)) \div 100

\* buyAmountOutMin: without a quote, one unit.
BuyMin == IF deal.buyOut > 0 THEN Kept(deal.buyOut) ELSE 1
SellMin == Kept(deal.amountIn)

\* buildSwapCalldata at v, which asks the factory once more.
Build(v, from, to) ==
  \E s \in Routes(v, Rpc) :
    /\ AwaitsIn(from, IF s = Failure THEN "failed" ELSE to)
    /\ calldata' = [calldata EXCEPT ![v] = IF s = Failure THEN @ ELSE s]
    /\ disturbed' = (disturbed \/ (Rpc /\ venue[v].kind = "solidly"))
    /\ UNCHANGED <<adapterVars, route, deal, wallet, allowed, got, booked>>

\* ensureTokenApproval: the receipt's status is not looked at, so that a reverted
\* approval goes on; a call that throws does not.
Ensure(token, v, from, to) ==
  /\ \/ <<token, v>> \in allowed /\ AwaitsIn(from, to) /\ UNCHANGED allowed
     \/ <<token, v>> \notin allowed /\ AwaitsIn(from, to) /\ allowed' = allowed \cup {<<token, v>>}
     \/ /\ "approve" \in route.faults /\ <<token, v>> \notin allowed
        /\ AwaitsIn(from, to) /\ UNCHANGED allowed
     \/ Rpc /\ AwaitsIn(from, "failed") /\ UNCHANGED allowed
  /\ UNCHANGED <<adapterVars, route, dealVars, wallet, disturbed>>

\* The chain takes a swap only of what is held, allowed and not nothing.
Swappable(token, v, slot, amount) ==
  slot \in deployed[v] /\ <<token, v>> \in allowed /\ amount \in 1 .. wallet[token]

\* Mutant: only the leg that comes first is simulated.
LegsPassFirst(bs, ss) == Swappable("x", "buy", bs, deal.amountIn)

\* estimateGas of both swaps, as the wallet stands: before the buy.
LegsPass(bs, ss) ==
  /\ Swappable("x", "buy", bs, deal.amountIn)
  /\ Swappable("y", "sell", ss, deal.sellIn)

\* simulate: the pools' age; a liquidity of 500 USD or of five times the amount of
\* token0, in its own units and less than 500 USD below 100 tokens; an adapter for
\* either venue; both swaps.
SimulateLegs ==
  /\ stage = "simulate"
  /\ \E bs \in Routes("buy", Rpc), ss \in Routes("sell", Rpc), fails \in {FALSE, Rpc} :
       LET minLiq == IF deal.amountIn < 10000 THEN 0 ELSE 1
           passes == /\ ~deal.old /\ ~fails
                     /\ \A v \in Venue : v \in route.registered /\ deal.liquidity[v] >= minLiq
                     /\ LegsPass(bs, ss)
       IN  stage' = IF passes THEN "buy" ELSE "failed"
  /\ UNCHANGED <<adapterVars, route, dealVars, wallet, allowed, disturbed>>

-----------------------------------------------------------------------------
(* The two transactions.                                                   *)

Other(token) == IF token = "x" THEN "y" ELSE "x"

\* A swap lands for what the pool pays by then, or reverts.
Swap(v, token, amount, min, from, to) ==
  \E d \in Drifts :
    LET out == (Out(v, calldata[v], amount, token = "x") * (100 - d)) \div 100
    IN  \/ /\ Swappable(token, v, calldata[v], amount) /\ out >= min
           /\ AwaitsIn(from, to)
           /\ wallet' = [wallet EXCEPT ![token] = @ - amount, ![Other(token)] = @ + out]
           /\ got' = [got EXCEPT ![v] = out]
           /\ UNCHANGED <<adapterVars, route, deal, calldata, allowed, booked, disturbed>>
        \/ /\ ~(Swappable(token, v, calldata[v], amount) /\ out >= min)
           /\ AwaitsIn(from, "failed")
           /\ UNCHANGED <<adapterVars, route, dealVars, wallet, allowed, disturbed>>

Buy == Swap("buy", "x", deal.amountIn, BuyMin, "buy", "bought")

\* parseTransferAmount of the buy's receipt: what came in is sold.
SellAmount == got["buy"]
Sell == Swap("sell", "y", SellAmount, SellMin, "sell", "book")

\* profitRaw: what the sell's receipt brought over what went in.
Book ==
  /\ AwaitsIn("book", "landed")
  /\ booked' = got["sell"] - deal.amountIn
  /\ UNCHANGED <<adapterVars, route, deal, calldata, wallet, allowed, got, disturbed>>

Job ==
  \/ Build("buy", "queued", "approve") \/ Ensure("x", "buy", "approve", "simulate")
  \/ SimulateLegs \/ Buy
  \/ Build("sell", "bought", "approveSell") \/ Ensure("y", "sell", "approveSell", "sell")
  \/ Sell \/ Book

RouteNext ==
  \/ \E v \in Venue : Refresh(v)
  \/ Quote \/ Age \/ Job
  \/ \E v \in Venue : \E s \in SlotsOf(v) : NewPool(v, s)

RouteSpec == RouteInit /\ [][RouteNext]_routeVars

-----------------------------------------------------------------------------
(* Properties.                                                             *)

Bought == got["buy"] > 0
Sold == got["sell"] > 0

\* A swap goes through the pool whose quote justified it, unless the factory
\* changed or failed in between (getQuote and buildSwapCalldata resolve it anew).
RouteHolds ==
  \A v \in Venue :
    (IF v = "buy" THEN Bought ELSE Sold) /\ deal.quoted[v] # Nowhere /\ ~disturbed
      => calldata[v] = deal.quoted[v]

\* Whatever failed on the way, x is spent only on a buy that was quoted and paid
\* that quote less the slippage -- of a quote of one unit the minimum leaves
\* nothing, and nothing may come of it; a pair of legs that lands gives the x
\* back less the slippage, and takes none of the y held before; what is booked
\* is what the wallet gained.
LossBounded ==
  /\ ~Bought /\ deal.buyOut # 1 => wallet = route.held
  /\ Bought => deal.buyOut > 0 /\ got["buy"] >= Kept(deal.buyOut)
  /\ Sold => wallet["x"] >= route.held["x"] - deal.amountIn + Kept(deal.amountIn)
  /\ wallet["y"] >= route.held["y"]
  /\ stage = "landed" => wallet = [route.held EXCEPT !["x"] = @ + booked]

TradeAsScored == RouteHolds /\ LossBounded
=============================================================================
