---------------------------- MODULE MCRiskEngine ----------------------------
(* Small instances of RiskEngine: an hour of two ticks, and three failures on *)
(* two chains or on one.                                                      *)
EXTENDS RiskEngine

CONSTANTS f1, f2, f3, c1, c2

OnTwoChains == [f \in Failure |-> IF f = f3 THEN c2 ELSE c1]
OnOneChain == [f \in Failure |-> c1]

Limit3 == {3}
Limits12 == {1, 2}

\* Operators and changes of the limit; nobody to clear the switch; reports cut
\* short; reports that the clock overtakes.
SafetySettings ==
  { {"operator", "config"}, {}, {"crash", "redis", "operator"}, {"slow", "config"} }
=============================================================================
