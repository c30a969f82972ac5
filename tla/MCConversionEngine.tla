-------------------------- MODULE MCConversionEngine --------------------------
(* A small instance of ConversionEngine whose inputs lie on both sides of the  *)
(* thresholds of determineRegime, the triggers and the no-trade conditions.    *)
EXTENDS ConversionExplanation

Hour(f, v, sp, t, l) == [fail |-> f, sigma |-> v, spread |-> sp, trend |-> t, liq |-> l]

SomeHours ==
  { Hour(0, 0, 0, "neutral", 0), Hour(60, 60, 12, "neutral", 1000), Hour(60, 60, 0, "down", 60000),
    Hour(90, 10, 20, "down", 15000), Hour(10, 60, 20, "up", 0), Hour(10, 10, 20, "up", 60000),
    Hour(10, 30, 20, "down", 60000), Hour(20, 5, 12, "neutral", 60000),
    Hour(0, 30, 5, "up", 60000) }

SomeBtc ==
  { [above |-> TRUE, slope |-> 60, vol |-> 5], [above |-> TRUE, slope |-> -60, vol |-> 5],
    [above |-> FALSE, slope |-> -120, vol |-> 40] }

SomeWrp ==
  { [price |-> 1, change |-> 0, liq |-> 200000, volume |-> 9],
    [price |-> 1, change |-> 4, liq |-> 200000, volume |-> 9],
    [price |-> 1, change |-> -1, liq |-> 60000, volume |-> 9],
    [price |-> 2, change |-> -5, liq |-> 60000, volume |-> 9],
    [price |-> 0, change |-> 1, liq |-> 5000, volume |-> 0],
    [price |-> 1, change |-> -12, liq |-> 200000, volume |-> 1] }

SomeAvax == {9}

\* A sleeve worth converting.
SomeInventories == { [total |-> 500, tactical |-> 400] }
=============================================================================
