------------------------------ MODULE MCConsole ------------------------------
(* Small instances of the console's parts beside the conversion job that     *)
(* fills one of its pages; they share no state: a behaviour is about one of  *)
(* them, and the others rest.                                                *)
EXTENDS MCConversionEngine, PriceService, PoolDesk, LiquidityDesk, OperatorConsole,
        LoginLimiter

VARIABLE part

\* Prices: two requests, for the market or for an estimate of one token; the
\* worker's refreshes, one at a time; and balances of two wrapped tokens.
Avax == CHOOSE t \in Listed : TRUE
SomeAsks ==
  {[of |-> "market", asks |-> Ask, about |-> Token]}
  \cup {[of |-> "fair", asks |-> Ask, about |-> {t}] : t \in Token}
  \cup {[of |-> "native", asks |-> {CHOOSE q \in Ask : TRUE}, about |-> {Avax}],
        [of |-> "balance", asks |-> Ask, about |-> Token]}

\* Pools: two tokens, one of them spelled in two ways; a V2 and a V3 venue.
KeyOf(v, a, b, f) == [venue |-> v, t0 |-> a, t1 |-> b, fee |-> f]
V2Pair == KeyOf("v2", "x", "y", 30)
Keys ==
  {V2Pair, KeyOf("v2", "X", "y", 30), KeyOf("v2", "y", "x", 30), KeyOf("v2", "x", "x", 30),
   KeyOf("v2", "y", "x", 5), KeyOf("v3", "x", "y", 5), KeyOf("v3", "x", "y", 30)}
Addresses == [t \in {"x", "X", "y"} |-> IF t = "y" THEN 2 ELSE 1]
Pairs ==
  [k \in [venue : {"v2", "v3"}, tokens : SUBSET {1, 2}, fee : {0, 5, 30}] |->
     IF k.tokens # {1, 2} \/ k.fee = 30 THEN NoPool ELSE IF k.venue = "v2" THEN "p" ELSE "q"]
SomeDesks ==
  {[at |-> {"d1"}, keys |-> {V2Pair, KeyOf("v2", "y", "x", 5), KeyOf("v3", "x", "y", 5)},
    typed |-> {}, by |-> {"form"}],
   [at |-> {"d1"}, keys |-> {V2Pair, KeyOf("v3", "x", "y", 30), KeyOf("v2", "x", "x", 30)},
    typed |-> {}, by |-> {"form", "v2"}],
   [at |-> {"d1", "d2"}, keys |-> {V2Pair, KeyOf("v2", "X", "y", 30)}, typed |-> {}, by |-> {"v2"}],
   [at |-> {"d1", "d2"}, keys |-> {V2Pair, KeyOf("v3", "x", "y", 5)}, typed |-> {}, by |-> {"worker"}],
   [at |-> {"d1", "d2"}, keys |-> {V2Pair}, typed |-> {"z"}, by |-> {"form", "worker"}]}

\* Liquidity: two requests to the API at once, or the browser's wallet.
SomeHands ==
  {[via |-> {"api"}, hands |-> {"h1", "h2"}, calls |-> 2, firstIsZero |-> TRUE],
   [via |-> {"api"}, hands |-> {"h1"}, calls |-> 2, firstIsZero |-> FALSE],
   [via |-> {"wallet"}, hands |-> {"h1"}, calls |-> 2, firstIsZero |-> TRUE]}

\* A fraction of failed transactions per hour is let through, and does not parse.
Schema == [p \in Param |-> IF p = "maxFailedTxPerHour" THEN {1} ELSE {1, 2}]
Defaults == [p \in Param |-> 1]

PartsInit ==
  /\ part \in {"conversion", "prices", "pools", "liquidity", "params", "login"}
  /\ Init /\ (part # "conversion" => inv = CHOOSE i \in Inventories : TRUE)
  /\ PriceInit /\ (part # "prices" => service = CHOOSE s \in PriceSettings : TRUE)
  /\ DeskInit /\ (part # "pools" => desk = CHOOSE s \in DeskSettings : TRUE)
  /\ LiquidityInit /\ (part # "liquidity" => lset = CHOOSE s \in LiquiditySettings : TRUE)
  /\ ConsoleInit /\ (part # "params" <=> about = "nothing")
  /\ LoginInit

\* The parts that p is not.
Rest(p) ==
  /\ p # "conversion" => UNCHANGED vars
  /\ p # "prices" => UNCHANGED priceVars
  /\ p # "pools" => UNCHANGED deskVars
  /\ p # "liquidity" => UNCHANGED liquidityVars
  /\ p # "params" => UNCHANGED consoleVars
  /\ p # "login" => UNCHANGED loginVars

PartsNext ==
  /\ UNCHANGED part /\ Rest(part)
  /\ \/ part = "conversion" /\ Next
     \/ part = "prices" /\ PriceNext
     \/ part = "pools" /\ DeskNext
     \/ part = "liquidity" /\ LiquidityNext
     \/ part = "params" /\ ConsoleNext
     \/ part = "login" /\ LoginNext

PartsSpec ==
  PartsInit
  /\ [][PartsNext]_<<part, vars, priceVars, deskVars, liquidityVars, consoleVars, loginVars>>
=============================================================================
