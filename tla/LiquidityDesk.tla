--------------------------- MODULE LiquidityDesk ---------------------------
(***************************************************************************)
(* Liquidity added and removed by hand, and the browser wallet:            *)
(*   apps/web/src/components/wallet/WalletProvider.tsx                     *)
(*   apps/web/src/app/lp/v2/page.tsx      LiquidityRow: add, remove        *)
(*   apps/api/src/lp/lp.module.ts         addLiquidity, removeLiquidity    *)
(* One pair of a V2 venue.  The tokens are "A" and "B" as the page lists   *)
(* them, reserves are by side, and each account's transactions are mined   *)
(* in the order of their nonces.                                           *)
(***************************************************************************)
EXTENDS Integers, Sequences

CONSTANTS
  User,        \* accounts of the browser's wallet
  Admin,       \* the account of the API's keystore
  Hand,        \* operators at work on the page, each with one move at a time
  NoAccount,
  Amounts,     \* what is added of a token
  Shares,      \* what is removed of the pair's own token
  Slip,        \* slippage, in tenths
  Swaps,       \* swaps of others that hit the pair
  LiquiditySettings

ASSUME LiquidityAssumption ==
  /\ Admin \notin User /\ NoAccount \notin User \cup {Admin}
  /\ Amounts \subseteq Nat /\ Shares \subseteq Nat
  /\ Slip \in 0 .. 10 /\ Swaps \in Nat
  /\ LiquiditySettings \subseteq [via : SUBSET {"wallet", "api"}, hands : SUBSET Hand,
                                  calls : Nat, firstIsZero : BOOLEAN]

VARIABLES
  lset,     \* who works how, how often, and whether token A is token0
  wallet,   \* the wallet's own choice of account and chain
  page,     \* WalletProvider: activeProvider, address, chainId, what is awaited
  move,     \* what each hand is adding or removing
  mempool,  \* each account's transactions that are not mined
  pair,     \* reserves by side, supply, what each account holds and allows
  clicks,   \* calls so far
  swaps,    \* swaps of others so far
  paid      \* the last removal mined

liquidityVars == <<lset, wallet, page, move, mempool, pair, clicks, swaps, paid>>

Account == User \cup {Admin}
Asset == {"A", "B", "LP"}
Side(t) == IF (t = "A") = lset.firstIsZero THEN 0 ELSE 1
Floor(x) == (x * (10 - Slip)) \div 10        \* applySlippageMin

Apart == [on |-> FALSE, address |-> NoAccount, chain |-> NoAccount, awaits |-> "none", got |-> NoAccount]
Resting == [step |-> "rest"]
Unpaid == [told |-> FALSE]

LiquidityInit ==
  /\ lset \in LiquiditySettings
  /\ wallet = [account |-> CHOOSE u \in User : TRUE, chain |-> "avalanche"]
  /\ page = Apart
  /\ move = [h \in Hand |-> Resting]
  /\ mempool = [a \in Account |-> <<>>]
  /\ pair = [reserve |-> <<16, 16>>, supply |-> 16,
             holds |-> [a \in Account |-> 4],
             allows |-> [a \in Account |-> [t \in Asset |-> 0]]]
  /\ clicks = 0 /\ swaps = 0
  /\ paid = Unpaid

-----------------------------------------------------------------------------
(* WalletProvider.                                                         *)

\* connect: the accounts have been granted, the chain is asked for next.
Connect ==
  /\ "wallet" \in lset.via /\ page.awaits = "none" /\ ~page.on
  /\ page' = [page EXCEPT !.awaits = "chain", !.got = wallet.account]
  /\ UNCHANGED <<lset, wallet, move, mempool, pair, clicks, swaps, paid>>

\* The chain is known: the address is the one granted before, whatever the
\* wallet has chosen since, as its events are listened to only from here on.
Connected ==
  /\ page.awaits = "chain"
  /\ page' = [on |-> TRUE, address |-> page.got, chain |-> wallet.chain,
              awaits |-> "none", got |-> NoAccount]
  /\ UNCHANGED <<lset, wallet, move, mempool, pair, clicks, swaps, paid>>

Disconnect ==
  /\ page.on
  /\ page' = [page EXCEPT !.on = FALSE, !.address = NoAccount, !.chain = NoAccount]
  /\ UNCHANGED <<lset, wallet, move, mempool, pair, clicks, swaps, paid>>

SwitchToAvalanche ==
  /\ page.on /\ page.awaits = "none" /\ page.chain # "avalanche"
  /\ page' = [page EXCEPT !.awaits = "switch"]
  /\ UNCHANGED <<lset, wallet, move, mempool, pair, clicks, swaps, paid>>

\* The wallet switches, and the page says so, be it disconnected by now; or
\* the operator declines.
Switched(ok) ==
  /\ page.awaits = "switch"
  /\ wallet' = IF ok THEN [wallet EXCEPT !.chain = "avalanche"] ELSE wallet
  /\ page' = [page EXCEPT !.awaits = "none", !.chain = IF ok THEN "avalanche" ELSE @]
  /\ UNCHANGED <<lset, move, mempool, pair, clicks, swaps, paid>>

\* accountsChanged and chainChanged, heard by a page that is connected.
WalletChooses(u, c) ==
  /\ "wallet" \in lset.via
  /\ wallet' = [account |-> u, chain |-> c]
  /\ wallet' # wallet
  /\ page' = IF page.on THEN [page EXCEPT !.address = u, !.chain = c] ELSE page
  /\ UNCHANGED <<lset, move, mempool, pair, clicks, swaps, paid>>

-----------------------------------------------------------------------------
(* LiquidityRow's buttons, and the API.  The account is the one at the     *)
(* click; what is to be allowed is gone through one token after the other. *)

Plan(kind, a, b, share) ==
  IF kind = "add" THEN <<[token |-> "A", amount |-> a], [token |-> "B", amount |-> b]>>
  ELSE <<[token |-> "LP", amount |-> share]>>

Clicked(h, via, kind, a, b, share) ==
  /\ h \in lset.hands /\ via \in lset.via
  /\ move[h].step = "rest"
  /\ via = "wallet" => page.on /\ page.address # NoAccount /\ page.chain = "avalanche"
  /\ move' = [move EXCEPT ![h] =
       [step |-> "allow", via |-> via, kind |-> kind,
        by |-> IF via = "wallet" THEN page.address ELSE Admin,
        todo |-> Plan(kind, a, b, share), a |-> a, b |-> b, share |-> share,
        expected |-> <<0, 0>>]]
  /\ clicks < lset.calls /\ clicks' = clicks + 1
  /\ UNCHANGED <<lset, wallet, page, mempool, pair, swaps, paid>>

ClickAdd(h, via, a, b) == Clicked(h, via, "add", a, b, 0)
ClickRemove(h, via, share) == Clicked(h, via, "remove", 0, 0, share)

\* The wallet's client names the chain, and sends nothing on another; the
\* API's account and RPC are of Avalanche.
Send(c, tx) ==
  /\ c.via = "wallet" => wallet.chain = "avalanche"
  /\ mempool' = [mempool EXCEPT ![c.by] =
       Append(@, [on |-> IF c.via = "wallet" THEN wallet.chain ELSE "avalanche", tx |-> tx])]

\* The allowance is read, and an approval sent when it is too small; its receipt
\* is not awaited.
Allow(h) ==
  /\ LET c    == move[h]
         need == Head(c.todo)
         rest == Tail(c.todo)
     IN  /\ IF pair.allows[c.by][need.token] >= need.amount THEN UNCHANGED mempool
            ELSE Send(c, [kind |-> "approve", token |-> need.token, amount |-> need.amount])
         /\ move' = [move EXCEPT ![h].todo = rest,
              ![h].step = IF rest # <<>> THEN "allow"
                          ELSE IF c.kind = "remove" /\ c.via = "api" THEN "read" ELSE "send"]
  /\ UNCHANGED <<lset, wallet, page, pair, clicks, swaps, paid>>

\* add and remove of the page, and ensureAllowance of the API.
PageAllows(h) == move[h].step = "allow" /\ move[h].via = "wallet" /\ Allow(h)
ApiAllows(h) == move[h].step = "allow" /\ move[h].via = "api" /\ Allow(h)

\* removeLiquidity of the API: what the share is worth now, by side.
ReadReserves(h) ==
  /\ move[h].step = "read"
  /\ move' = [move EXCEPT ![h].step = "send",
       ![h].expected = [i \in 1 .. 2 |-> (move[h].share * pair.reserve[i]) \div pair.supply]]
  /\ UNCHANGED <<lset, wallet, page, mempool, pair, clicks, swaps, paid>>

\* Mutant: the API, too, protects a removal by nothing.
MinsDropped(c) == <<0, 0>>

\* The page protects a removal by nothing; the API by what it has read, side 0
\* first.
Mins(c) == IF c.via = "wallet" THEN <<0, 0>> ELSE <<Floor(c.expected[1]), Floor(c.expected[2])>>

Router(c) ==
  IF c.kind = "add"
    THEN [kind |-> "add", a |-> c.a, b |-> c.b, minA |-> Floor(c.a), minB |-> Floor(c.b)]
    ELSE [kind |-> "remove", share |-> c.share, minA |-> Mins(c)[1], minB |-> Mins(c)[2],
          via |-> c.via, expected |-> c.expected]

-----------------------------------------------------------------------------
(* The router and the pair, as the code uses them.                         *)

\* What the router takes for an addition: one amount in full, the other in
\* proportion; <<0, 0>> where a minimum is missed.
Taken(tx) ==
  LET ra == pair.reserve[1 + Side("A")]
      rb == pair.reserve[1 + Side("B")]
      b  == (tx.a * rb) \div ra
      a  == (tx.b * ra) \div rb
  IN  CASE b <= tx.b /\ b >= tx.minB -> <<tx.a, b>>
        [] b > tx.b /\ a >= tx.minA  -> <<a, tx.b>>
        [] OTHER                     -> <<0, 0>>

Out(tx, t) == (tx.share * pair.reserve[1 + Side(t)]) \div pair.supply

Allows(by, t, x) == pair.allows[by][t] >= x

Works(by, tx) ==
  CASE tx.kind = "approve" -> TRUE
    [] tx.kind = "add"     -> /\ Taken(tx) # <<0, 0>>
                              /\ Allows(by, "A", Taken(tx)[1]) /\ Allows(by, "B", Taken(tx)[2])
    [] tx.kind = "remove"  -> /\ Allows(by, "LP", tx.share) /\ pair.holds[by] >= tx.share
                              /\ Out(tx, "A") >= tx.minA /\ Out(tx, "B") >= tx.minB
                              /\ pair.supply > tx.share

\* The call of the router.
SendCall(h) ==
  /\ Send(move[h], Router(move[h]))
  /\ move' = [move EXCEPT ![h] = Resting]
  /\ UNCHANGED <<lset, wallet, page, pair, clicks, swaps, paid>>

PageSends(h) == move[h].step = "send" /\ move[h].via = "wallet" /\ SendCall(h)

\* The API's client estimates the gas first, which fails while the call would
\* revert.
ApiSends(h) ==
  /\ move[h].step = "send" /\ move[h].via = "api"
  /\ Works(move[h].by, Router(move[h]))
  /\ SendCall(h)

\* The operator declines in the wallet, the RPC fails, or the estimate does.
CallFails(h) ==
  /\ move[h].step # "rest"
  /\ move' = [move EXCEPT ![h] = Resting]
  /\ UNCHANGED <<lset, wallet, page, mempool, pair, clicks, swaps, paid>>

\* The next transaction of an account is mined; a call that does not work, or
\* is past its deadline, reverts.
Mine(by) ==
  /\ mempool[by] # <<>>
  /\ mempool' = [mempool EXCEPT ![by] = Tail(@)]
  /\ LET tx == Head(mempool[by]).tx
         at(t) == 1 + Side(t)
     IN  IF ~Works(by, tx) THEN UNCHANGED <<pair, paid>>
         ELSE CASE tx.kind = "approve" ->
                     /\ pair' = [pair EXCEPT !.allows[by][tx.token] = tx.amount]
                     /\ UNCHANGED paid
                [] tx.kind = "add" ->
                     LET got  == Taken(tx)
                         mint == (got[1] * pair.supply) \div pair.reserve[at("A")]
                     IN  /\ pair' = [pair EXCEPT
                              !.reserve[at("A")] = @ + got[1], !.reserve[at("B")] = @ + got[2],
                              !.supply = @ + mint, !.holds[by] = @ + mint,
                              !.allows[by]["A"] = @ - got[1], !.allows[by]["B"] = @ - got[2]]
                         /\ UNCHANGED paid
                [] tx.kind = "remove" ->
                     /\ pair' = [pair EXCEPT
                          !.reserve[at("A")] = @ - Out(tx, "A"), !.reserve[at("B")] = @ - Out(tx, "B"),
                          !.supply = @ - tx.share, !.holds[by] = @ - tx.share,
                          !.allows[by]["LP"] = @ - tx.share]
                     /\ paid' = [told |-> TRUE, via |-> tx.via, share |-> tx.share,
                                 out |-> [i \in 1 .. 2 |-> IF i = at("A") THEN Out(tx, "A") ELSE Out(tx, "B")],
                                 expected |-> tx.expected]
  /\ UNCHANGED <<lset, wallet, page, move, clicks, swaps>>

\* Somebody else swaps: one side doubles, the other halves.
Swap(i) ==
  /\ swaps < Swaps
  /\ swaps' = swaps + 1
  /\ pair' = [pair EXCEPT !.reserve = [j \in 1 .. 2 |-> IF j = i THEN 2 * @[j] ELSE (@[j] + 1) \div 2]]
  /\ UNCHANGED <<lset, wallet, page, move, mempool, clicks, paid>>

LiquidityNext ==
  \/ Connect \/ Connected \/ Disconnect \/ SwitchToAvalanche
  \/ \E ok \in BOOLEAN : Switched(ok)
  \/ \E u \in User, c \in {"avalanche", "other"} : WalletChooses(u, c)
  \/ \E h \in Hand :
       \/ \E via \in {"wallet", "api"} :
            \/ \E a, b \in Amounts : ClickAdd(h, via, a, b)
            \/ \E share \in Shares : ClickRemove(h, via, share)
       \/ PageAllows(h) \/ ApiAllows(h) \/ ReadReserves(h)
       \/ PageSends(h) \/ ApiSends(h) \/ CallFails(h)
  \/ \E a \in Account : Mine(a)
  \/ \E i \in 1 .. 2 : Swap(i)

LiquiditySpec == LiquidityInit /\ [][LiquidityNext]_liquidityVars

-----------------------------------------------------------------------------
(* Properties.                                                             *)

\* A removal through the API pays, of either token, what the share was worth
\* when the reserves were read, less the slippage -- where token A is token0.
RemovalPays ==
  paid.told /\ paid.via = "api" /\ lset.firstIsZero
    => \A i \in 1 .. 2 : paid.out[i] >= Floor(paid.expected[i])

=============================================================================
