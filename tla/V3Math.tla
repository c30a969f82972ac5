-------------------------------- MODULE V3Math --------------------------------
(***************************************************************************)
(* The fixed-point arithmetic of a concentrated-liquidity pool:            *)
(*   packages/opportunity-engine/src/v3-math.ts                            *)
(* Widths keep their proportion: K bits stand for 32, so that a square     *)
(* root price has 3 K fractional bits (X96) and a ratio 4 K (X128).  The   *)
(* base of a tick, 1.0001 in the code, is 2, and fees are parts of Pips.   *)
(* Every number is a natural, as the code's bigints are where it uses them.*)
(***************************************************************************)
EXTENDS Integers, SequencesExt

CONSTANTS
  K,         \* bits that stand for 32
  Pips,      \* 1_000_000, the unit of fees
  BitRatio,  \* the Q128 constants, one for each bit of a tick
  MinTick    \* MIN_TICK

ASSUME MathAssumption ==
  /\ {K, Pips} \subseteq Nat \ {0}
  /\ BitRatio \in Seq(1 .. 2 ^ (4 * K))
  /\ MinTick \in Int

Q96 == 2 ^ (3 * K)
Q128 == 2 ^ (4 * K)
MaxUint160 == 2 ^ (5 * K) - 1
MaxUint256 == 2 ^ (8 * K) - 1
MinSqrtRatio == 2 ^ K
MaxSqrtRatio == 2 ^ (5 * K) - 1

\* They are powers of two, or one less.
ASSUME WidthAssumption == {Q96, MinSqrtRatio, MaxSqrtRatio} \subseteq Nat \ {0}

\* The larger and the smaller of two numbers.
Larger(a, b) == IF a > b THEN a ELSE b
Smaller(a, b) == IF a > b THEN b ELSE a

DivUp(a, b) == IF a % b = 0 THEN a \div b ELSE a \div b + 1

mulDivRoundingUp(a, b, denominator) == DivUp(a * b, denominator)

-----------------------------------------------------------------------------
(* Ticks and prices.                                                       *)

\* The product over the bits of |tick|: the ratio of a tick below zero.
BitProduct(n) ==
  FoldLeftDomain(
    LAMBDA ratio, i : IF (n \div 2 ^ (i - 1)) % 2 = 1
                        THEN (ratio * BitRatio[i]) \div Q128 ELSE ratio,
    Q128, BitRatio)

\* Above zero the ratio is inverted twice, once in 160 bits and once in 256.
tickToSqrtPriceX96(tick) ==
  LET ratio == BitProduct(IF tick < 0 THEN -tick ELSE tick)
      used  == IF tick > 0 THEN MaxUint256 \div DivUp(MaxUint160, ratio) ELSE ratio
  IN  DivUp(used, 2 ^ K)

\* floor of the logarithm of the price, in a base of 2.
TickOf(sqrtPrice) ==
  CHOOSE t \in -4 * K .. 6 * K :
    LET AtMost(u) == IF u < 0 THEN Q96 * Q96 <= sqrtPrice * sqrtPrice * 2 ^ (-u)
                              ELSE Q96 * Q96 * 2 ^ u <= sqrtPrice * sqrtPrice
    IN  AtMost(t) /\ ~AtMost(t + 1)

\* The ticks at or below par.
TickBelow == MinTick .. 0

\* The ratios are those of the ticks: MIN_SQRT_RATIO is the price of MIN_TICK, and
\* of a price, the tick is the last one whose price does not exceed it.
ASSUME TickAssumption ==
  /\ \A t \in TickBelow : /\ tickToSqrtPriceX96(t) \in MinSqrtRatio .. MaxSqrtRatio - 1
                          /\ t # MinTick => tickToSqrtPriceX96(t) > MinSqrtRatio
  /\ \A p \in MinSqrtRatio .. MaxSqrtRatio :
       /\ TickOf(p) \in Int
       /\ \A t \in TickBelow : t <= TickOf(p) <=> tickToSqrtPriceX96(t) <= p

-----------------------------------------------------------------------------
(* The amounts between two prices and the price after an amount.           *)

getAmount0Delta(p, q, liquidity, roundUp) ==
  LET lower == Smaller(p, q)
      upper == Larger(p, q)
      part  == liquidity * Q96 * (upper - lower)
  IN  IF roundUp THEN DivUp(DivUp(part, upper), lower) ELSE (part \div upper) \div lower

getAmount1Delta(p, q, liquidity, roundUp) ==
  LET part == liquidity * (Larger(p, q) - Smaller(p, q))
  IN  IF roundUp THEN DivUp(part, Q96) ELSE part \div Q96

\* Both are also taken for an amount that leaves the pool, with the same sign.
NextFromAmount0(sqrtPrice, liquidity, amount) ==
  mulDivRoundingUp(liquidity * Q96, sqrtPrice, liquidity * Q96 + amount * sqrtPrice)

NextFromAmount1(sqrtPrice, liquidity, amount) ==
  sqrtPrice + (amount * Q96) \div liquidity

getNextSqrtPriceFromInput(sqrtPrice, liquidity, amount, zeroForOne) ==
  IF zeroForOne THEN NextFromAmount0(sqrtPrice, liquidity, amount)
                ELSE NextFromAmount1(sqrtPrice, liquidity, amount)

getNextSqrtPriceFromOutput(sqrtPrice, liquidity, amount, zeroForOne) ==
  IF zeroForOne THEN NextFromAmount1(sqrtPrice, liquidity, amount)
                ELSE NextFromAmount0(sqrtPrice, liquidity, amount)

-----------------------------------------------------------------------------
(* One step of a swap, inside one range of ticks.  The direction is the    *)
(* target's, not the trade's; remaining < 0 is an exact output.            *)

computeSwapStep(current, target, liquidity, remaining, fee) ==
  LET zeroForOne == current >= target
      exactIn    == remaining >= 0
      In(p)      == IF zeroForOne THEN getAmount0Delta(p, current, liquidity, TRUE)
                                  ELSE getAmount1Delta(current, p, liquidity, TRUE)
      Out(p)     == IF zeroForOne THEN getAmount1Delta(p, current, liquidity, FALSE)
                                  ELSE getAmount0Delta(current, p, liquidity, FALSE)
      lessFee    == (remaining * (Pips - fee)) \div Pips
      next       == IF exactIn
                      THEN IF lessFee >= In(target) THEN target
                           ELSE getNextSqrtPriceFromInput(current, liquidity, lessFee, zeroForOne)
                      ELSE IF -remaining >= Out(target) THEN target
                           ELSE getNextSqrtPriceFromOutput(current, liquidity, -remaining, zeroForOne)
      out        == IF exactIn THEN Out(next) ELSE Smaller(Out(next), -remaining)
  IN  [ next |-> next, in |-> In(next), out |-> out,
        fee  |-> IF exactIn /\ next # target
                   THEN remaining - In(next)
                   ELSE mulDivRoundingUp(In(next), fee, Pips - fee) ]

=============================================================================
