------------------------ MODULE ConversionExplanation ------------------------
(***************************************************************************)
(* What the conversion page is told of a decision:                         *)
(*   packages/conversion-engine/src/index.ts           the decision's costs *)
(*                                                     and reasons          *)
(*   packages/conversion-engine/src/explainability.ts  buildExplanation     *)
(* The explanation is handed the decision and the signals, and works most  *)
(* of it out again, by thresholds of its own.  Costs are in 1/100000       *)
(* dollars.                                                                *)
(***************************************************************************)
EXTENDS ConversionEngine, FiniteSets

\* costs.totalCostUsd: fees and buffer of 0.8 percent, slippage, gas.
TotalCost(s, size) == size * (30 + 50 + s.slippage) + 15000

\* blockedReasons, by their kinds.
BlockedReasons(s, regime, i, cooled) ==
  LET posture == Extended[regime] IN
  {r \in {"regime", "hurdle", "triggers", "units", "no-trade"} :
     CASE r = "regime" -> ~posture.allowed
       [] r = "hurdle" -> ~PassedHurdle(s, posture)
       [] r = "triggers" -> ~TriggersOk(s)
       [] r = "units" -> ~UnitTest(s, posture, i)
       [] r = "no-trade" -> Unclear(s) \/ ~cooled \/ ~PassedHurdle(s, posture)
                              \/ ~UnitTest(s, posture, i)}

\* The part of the decision that buildExplanation reads.
Decision(s, regime, i, cooled) ==
  LET posture == Extended[regime]
      size == Size(s, posture, i)
      reasons == BlockedReasons(s, regime, i, cooled)
      approved == reasons = {} /\ size > 0
  IN  [direction |-> IF approved THEN Direction(s) ELSE "none", approved |-> approved,
       units |-> UnitTest(s, posture, i), size |-> size,
       cost |-> TotalCost(s, size), reasons |-> reasons]

-----------------------------------------------------------------------------
(* buildExplanation: the status of each section.                           *)

Graded(n, pass, neutral) ==
  IF n >= pass THEN "pass" ELSE IF n >= neutral THEN "neutral" ELSE "fail"
Passed(b) == IF b THEN "pass" ELSE "fail"

\* Scores apart by 15 pass, whatever the hurdle of the regime.
ScoresSection(s) == Graded(Magnitude(ScoreWRP(s) - ScoreAVAX(s)), 150000, 80000)

StateSection(s) ==
  CASE ConversionState(s) = "A" -> "pass"
    [] ConversionState(s) = "D" -> "fail"
    [] OTHER -> "neutral"

\* Mutant: the triggers of a purchase are shown for either direction.
TriggersSectionOfBuy(s) == Graded(Cardinality(BuyTriggers(s)), 3, 2)

\* The direction is worked out from the scores once more.
TriggersSection(s) ==
  Graded(Cardinality(IF ScoreWRP(s) > ScoreAVAX(s) THEN BuyTriggers(s) ELSE SellTriggers(s)), 3, 2)

UnitSection(d) == Passed(d.units)

\* Less than two percent of the size.
CostSection(d) == Passed(d.cost < 200 * d.size)

VerdictSection(d) ==
  [status |-> Passed(d.approved),
   says |-> IF d.approved THEN d.direction ELSE IF d.reasons # {} THEN "blocked" ELSE "no trade"]

BuildExplanation(d, s) ==
  [scores |-> ScoresSection(s), state |-> StateSection(s), triggers |-> TriggersSection(s),
   units |-> UnitSection(d), cost |-> CostSection(d), verdict |-> VerdictSection(d)]

-----------------------------------------------------------------------------
(* Properties.                                                             *)

\* The page never shows a gate as failed that a conversion was let through by:
\* although buildExplanation recomputes scores, direction and triggers against a
\* fixed hurdle, an approved decision has scores, triggers, unit gate and verdict
\* passed.  A refusal always has a reason to show, so that "conditions not met"
\* stands alone on no page.
ExplanationAgrees ==
  at["conversion"] = "evaluate" =>
    LET d == Decision(Now, mine.regime, inv, since = Cooldown)
        e == BuildExplanation(d, Now)
    IN  /\ Approving => {e.scores, e.triggers, e.units, e.verdict.status} = {"pass"}
        /\ e.verdict.says # "no trade"
        /\ e.verdict.says = "blocked" <=> ~Approving
=============================================================================
