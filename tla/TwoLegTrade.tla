---------------------------- MODULE TwoLegTrade ----------------------------
(***************************************************************************)
(* What the execution of an opportunity promises, seen from the wallet:    *)
(* buy once, sell what was bought once, and give one final verdict, LANDED *)
(* only for a position that is closed.  A transaction already on the chain *)
(* may still be mined after the verdict.                                   *)
(***************************************************************************)
CONSTANT Trades

VARIABLES
  stage,    \* the wallet's position in each trade
  tried,    \* the buy leg was broadcast
  verdict   \* "open", "LANDED" or "FAILED"

vars == <<stage, tried, verdict>>

Stages == {"flat", "buying", "bought", "selling", "closed", "stranded"}

Init ==
  /\ stage = [t \in Trades |-> "flat"]
  /\ tried = [t \in Trades |-> FALSE]
  /\ verdict = [t \in Trades |-> "open"]

Move(t, from, to) ==
  /\ stage[t] = from
  /\ stage' = [stage EXCEPT ![t] = to]

SendBuy(t) ==
  /\ verdict[t] = "open"
  /\ ~tried[t]
  /\ Move(t, "flat", "buying")
  /\ tried' = [tried EXCEPT ![t] = TRUE]
  /\ UNCHANGED verdict

BuyMined(t) ==
  /\ Move(t, "buying", "bought") \/ Move(t, "buying", "flat")
  /\ UNCHANGED <<tried, verdict>>

SendSell(t) ==
  /\ verdict[t] = "open"
  /\ Move(t, "bought", "selling")
  /\ UNCHANGED <<tried, verdict>>

\* A sale that reverts leaves the bought tokens in the wallet.
SellMined(t) ==
  /\ Move(t, "selling", "closed") \/ Move(t, "selling", "stranded")
  /\ UNCHANGED <<tried, verdict>>

Decide(t) ==
  /\ verdict[t] = "open"
  /\ \/ stage[t] = "closed" /\ verdict' = [verdict EXCEPT ![t] = "LANDED"]
     \/ verdict' = [verdict EXCEPT ![t] = "FAILED"]
  /\ UNCHANGED <<stage, tried>>

Next ==
  \E t \in Trades :
    SendBuy(t) \/ BuyMined(t) \/ SendSell(t) \/ SellMined(t) \/ Decide(t)

Spec == Init /\ [][Next]_vars
=============================================================================
