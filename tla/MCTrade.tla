------------------------------- MODULE MCTrade -------------------------------
(* Small instances of NonceManager, V3Sizing, FlashArb and TradeRoute, which  *)
(* share no state: a behaviour hands out nonces, asks one question about a    *)
(* pool, executes candidates by flash loan, or quotes and executes one        *)
(* candidate in two legs; the other parts rest.                               *)
EXTENDS MCNonceManager, V3Sizing, FlashArb, TradeRoute, TLC

VARIABLE part

\* 2^(-1/2), 2^-1 and 2^-2 in 8 bits.
Bits == <<181, 128, 64>>
Lowest == -7

Positions ==
  {[lower |-> a, upper |-> b, liquidity |-> l] :
     a \in {-4, -2}, b \in {-2, 0, 2}, l \in {20, 200}}

NoPositions == [positions |-> {}, sqrtPrice |-> 40, fee |-> 0]
SomePositions == {pos \in Positions : pos.lower < pos.upper}
\* Two positions with a gap between them.
Gapped ==
  {[positions |-> {[lower |-> -6, upper |-> -4, liquidity |-> l],
                   [lower |-> -2, upper |-> 0, liquidity |-> m]},
    sqrtPrice |-> p, fee |-> f] : l \in {20, 200}, m \in {20, 200}, p \in {8, 12, 20, 32}, f \in {0, 1}}
SomePools ==
  {[positions |-> {pos, other}, sqrtPrice |-> p, fee |-> f] :
     pos \in SomePositions, other \in SomePositions, p \in {16, 20, 32, 40, 50}, f \in {0, 1}}
  \cup Gapped \cup {NoPositions}
SomeSellPools ==
  {[positions |-> {pos}, sqrtPrice |-> p, fee |-> 0] : pos \in SomePositions, p \in {20, 40}}

Deviations == {-1, 0, 1}
Routes20(sell) == [buy |-> 20, sell |-> sell]
SomeQuotes ==
  {q \in [Opp -> {Routes20(11), Routes20(1)}] : Cardinality({o \in Opp : q[o].sell = 1}) < 2}

Faulted == {{}, {"db"}, {"redis"}, {"rpc", "send", "legs"}, {"lost"}}
SomeSettings ==
  {[queued |-> Opp, faults |-> f, mock |-> FALSE] : f \in Faulted}
  \cup {[queued |-> Opp, faults |-> {"db"}, mock |-> TRUE]}
  \cup {[queued |-> {}, faults |-> {}, mock |-> FALSE]}

Pools4(pair, low, high, middle) ==
  "pair" :> pair @@ "volatile" :> <<120, 114>> @@ "pool" :> pair @@ "2500" :> <<15, 15>>
  @@ "stable" :> low @@ "500" :> high @@ "3000" :> middle @@ "10000" :> <<12, 12>>
SomeReserves ==
  [v \in Venue |-> IF v = "buy" THEN Pools4(<<120, 120>>, <<30, 33>>, <<120, 120>>, <<60, 66>>)
                   ELSE Pools4(<<126, 120>>, <<33, 30>>, <<120, 114>>, <<63, 60>>)]

\* The factory that the V3 adapter knows has a tier the adapter never asks for;
\* an unknown one has no quoter.
At(k, tiers, quoter, others) ==
  [kind |-> k, tiers |-> tiers, quoter |-> quoter, others |-> others]
V2 == At("v2", {}, TRUE, FALSE)
Solidly == At("solidly", {}, TRUE, FALSE)
V3 == FromVenue("traderjoe")
V3Unknown == FromVenue("unknown")
Algebra(others) == At("algebra", {}, TRUE, others)

Trading(b, s, pb, ps, y, a, f) ==
  [venue |-> [v \in Venue |-> IF v = "buy" THEN b ELSE s],
   deployed |-> [v \in Venue |-> IF v = "buy" THEN pb ELSE ps],
   held |-> [x |-> 20000, y |-> y], allowed |-> a, faults |-> f,
   registered |-> IF f = {"age"} THEN {"buy"} ELSE Venue]
Before == {<<"y", "sell">>}
SomeRoutes ==
  UNION {
    {Trading(V2, V3, {"pair"}, {"500", "10000"}, 1500, Before, f) :
       f \in {{}, {"rpc"}, {"deploy", "approve"}, {"age"}, {"age", "approve"}}},
    {Trading(V3, Solidly, {"500", "2500"}, {"volatile"}, 1500, Before, f) :
       f \in {{"rpc"}, {"deploy"}}},
    {Trading(V3, Solidly, {"500", "2500", "3000"}, {"stable"}, 1500, Before, f) :
       f \in {{"rpc"}, {"deploy"}}},
    {Trading(Solidly, Algebra(TRUE), {"volatile", "stable"}, {"pool"}, 1500, Before, f) :
       f \in {{"rpc"}, {"approve"}}},
    {Trading(Algebra(o), V2, {"pool"}, {"pair"}, 1500, Before, f) :
       f \in {{"rpc"}, {"approve"}}, o \in BOOLEAN},
    {Trading(V2, V3Unknown, {"pair"}, {"500"}, 1500, Before, f) : f \in {{"rpc"}, {"approve"}}},
    {Trading(V2, V2, {"pair"}, {"pair"}, y, a, {"approve"}) : y \in {0, 1500}, a \in {{}, Before}}}

PartsInit ==
  /\ part \in {"nonces", "pool", "flash", "legs"}
  /\ Init /\ (part # "nonces" => faults = {"overrun"})
  /\ V3Init /\ (part # "pool" => pool = NoPositions)
  /\ FlashInit /\ (part = "flash" <=> lending.queued # {})
  /\ part # "flash" => \A o \in Opp : quote[o] = Routes20(11)
  /\ RouteInit /\ (part # "legs" => route = CHOOSE r \in RouteSettings : TRUE)

PartsNext ==
  /\ UNCHANGED part
  /\ \/ part = "nonces" /\ Next /\ UNCHANGED <<v3Vars, flashVars, routeVars>>
     \/ part = "pool" /\ V3Next /\ UNCHANGED <<vars, flashVars, routeVars>>
     \/ part = "flash" /\ FlashNext /\ UNCHANGED <<vars, v3Vars, routeVars>>
     \/ part = "legs" /\ RouteNext /\ UNCHANGED <<vars, v3Vars, flashVars>>

PartsSpec ==
  /\ PartsInit /\ [][PartsNext]_<<part, vars, v3Vars, flashVars, routeVars>>
  /\ Fairness /\ \A o \in Opp : WF_flashVars(JobStep(o))
=============================================================================
