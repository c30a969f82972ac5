--------------------------- MODULE MCLiquidityMap ---------------------------
(* Small instances of LiquidityMap: a window of two blocks for the quick    *)
(* scan and of three for the full one on a chain of five.                 *)
EXTENDS LiquidityMap

Setting(kind, faults) == [kind |-> kind, faults |-> faults]

SafetySettings ==
  { Setting("nft", {"chunk", "position"}), Setting("nft", {"meta", "crash"}),
    Setting("direct", {"crash"}), Setting("v2", {"chunk"}), Setting("v2", {}) }

QuietSettings == {Setting("direct", {})}
=============================================================================
