------------------------------- MODULE FlashArb -------------------------------
(***************************************************************************)
(* A flash-loan arbitrage, from the job to the contract and back:          *)
(*   packages/execution-engine/src/flash-arb-executor.ts                   *)
(*   contracts/src/FlashArb.sol   executeArb, executeOperation, withdraw   *)
(* One contract call at a time runs on the chain; it takes several steps,  *)
(* and a revert undoes them all.  The nonce's lock is only held or free    *)
(* here (NonceManager has its steps), and all candidates are of one        *)
(* fingerprint.  A second delivery of a job finds its row and throws.      *)
(***************************************************************************)
EXTENDS Integers, FiniteSets

CONSTANTS
  Opp,         \* approved flash candidates
  Nobody,      \* who holds the nonce's lock when it is free
  Loan,        \* the amount borrowed
  Premium,     \* what Aave asks for it
  Quotes,      \* what the two routes of each candidate may say
  Moves,       \* by how much a swap may differ from its quote
  Reserve,     \* what Aave has
  FlashSettings

FlashFaults ==
  { "legs",    \* a venue has no router
    "db",      \* a write to the database throws
    "redis",   \* a Redis command throws
    "rpc",     \* an estimate or a gas price fails
    "send",    \* sendTransaction throws, broadcast or not
    "lost" }   \* a transaction is never mined

ASSUME FlashAssumption ==
  /\ {Loan, Premium, Reserve} \subseteq Nat /\ Loan <= Reserve
  /\ Quotes \subseteq [Opp -> [buy : Nat, sell : Nat]] /\ Moves \subseteq Int
  /\ Nobody \notin Opp
  /\ FlashSettings \subseteq [queued : SUBSET Opp, faults : SUBSET FlashFaults, mock : BOOLEAN]

VARIABLES
  lending,    \* the queued jobs and what may go wrong
  quote,      \* the quotes of each candidate's two routes
  stands,     \* what each job awaits
  outcome,    \* each job's row: state, failure code, pnl
  dedup,      \* arbitex:flash:dedup:<fingerprint> is set
  nonceLock,  \* who holds the nonce's lock
  tx,         \* each job's transaction
  call,       \* the contract call under way
  chain       \* balances and allowances

flashVars == <<lending, quote, stands, outcome, dedup, nonceLock, tx, call, chain>>
chainState == <<tx, call, chain>>

Faulty(f) == f \in lending.faults

Untouched == [kept |-> 0, mid |-> 0, aave |-> Reserve, allowance |-> 0]
NoCall == [opp |-> Nobody, step |-> "none", in |-> 0, before |-> Untouched]
NoRow == [state |-> "none", code |-> "none", pnl |-> 0]
NoTx == [state |-> "none", profit |-> 0, kept |-> 0, gain |-> 0]
Done == {"done", "thrown"}

FlashInit ==
  /\ lending \in FlashSettings
  /\ quote \in Quotes
  /\ stands = [o \in Opp |-> IF o \in lending.queued THEN "create" ELSE "absent"]
  /\ outcome = [o \in Opp |-> NoRow]
  /\ dedup = FALSE
  /\ nonceLock = Nobody
  /\ tx = [o \in Opp |-> NoTx]
  /\ call = NoCall
  /\ chain = Untouched

-----------------------------------------------------------------------------
(* The executor.                                                           *)

Advance(o, step) == stands' = [stands EXCEPT ![o] = step]
SetState(o, state) == outcome' = [outcome EXCEPT ![o].state = state]

\* fail(): the row and the end of the job.  When its write throws, the outer
\* catch block calls it once more, with a code of its own; the second throw leaves
\* the job.
Fail(o, code) ==
  \/ /\ \E c \in {code} \cup (IF Faulty("db") THEN {"TX_SUBMISSION_FAILED"} ELSE {}) :
          outcome' = [outcome EXCEPT ![o] = [state |-> "FAILED", code |-> c, pnl |-> @.pnl]]
     /\ Advance(o, "done")
  \/ Faulty("db") /\ Advance(o, "thrown") /\ UNCHANGED outcome

\* The outer catch block.
Throws(o, fault) == Faulty(fault) /\ Fail(o, "TX_SUBMISSION_FAILED")

Create(o) ==
  /\ stands[o] = "create"
  /\ \/ SetState(o, "PENDING") /\ Advance(o, "dedup")
     \/ Faulty("db") /\ Advance(o, "thrown") /\ UNCHANGED outcome
  /\ UNCHANGED <<lending, quote, dedup, nonceLock, chainState>>

\* SET NX, for 15 seconds.
Dedup(o) ==
  /\ stands[o] = "dedup"
  /\ \/ ~dedup /\ dedup' = TRUE /\ Advance(o, "simulating") /\ UNCHANGED outcome
     \/ dedup /\ Fail(o, "DUPLICATE_OPPORTUNITY") /\ UNCHANGED dedup
     \/ Throws(o, "redis") /\ UNCHANGED dedup
  /\ UNCHANGED <<lending, quote, nonceLock, chainState>>

DedupExpires ==
  /\ dedup
  /\ dedup' = FALSE
  /\ UNCHANGED <<lending, quote, stands, outcome, nonceLock, chainState>>

\* 95 % of a leg's quote.
MinOut(quoted) == (quoted * 95) \div 100

\* updateState and the two legs: without a router, or with nothing to expect,
\* buildSwapLeg throws.
Simulating(o) ==
  /\ stands[o] = "simulating"
  /\ \/ /\ SetState(o, "SIMULATING")
        /\ MinOut(quote[o].buy) > 0 /\ MinOut(quote[o].sell) > 0
        /\ Advance(o, "estimate")
     \/ Throws(o, "db")
     \/ Throws(o, "legs")
     \/ /\ MinOut(quote[o].buy) = 0 \/ MinOut(quote[o].sell) = 0
        /\ Fail(o, "TX_SUBMISSION_FAILED")
  /\ UNCHANGED <<lending, quote, dedup, nonceLock, chainState>>

\* estimateGas runs the call on the chain as it is then: it may revert.
Estimate(o) ==
  /\ stands[o] = "estimate"
  /\ \/ Advance(o, IF lending.mock THEN "mock" ELSE "signing") /\ UNCHANGED outcome
     \/ Fail(o, "SIMULATION_FAILED")
  /\ UNCHANGED <<lending, quote, dedup, nonceLock, chainState>>

Mock(o) ==
  /\ stands[o] = "mock"
  /\ \/ outcome' = [outcome EXCEPT ![o].state = "LANDED"] /\ Advance(o, "done")
     \/ Throws(o, "db")
  /\ UNCHANGED <<lending, quote, dedup, nonceLock, chainState>>

Signing(o) ==
  /\ stands[o] = "signing"
  /\ \/ SetState(o, "SIGNING") /\ Advance(o, "nonce")
     \/ Throws(o, "db")
  /\ UNCHANGED <<lending, quote, dedup, nonceLock, chainState>>

\* acquireNonce, which throws after 30 seconds of waiting, too.
Acquire(o) ==
  /\ stands[o] = "nonce"
  /\ \/ nonceLock = Nobody /\ nonceLock' = o /\ Advance(o, "send") /\ UNCHANGED outcome
     \/ nonceLock # Nobody /\ Fail(o, "TX_SUBMISSION_FAILED") /\ UNCHANGED nonceLock
     \/ Throws(o, "redis") /\ UNCHANGED nonceLock
  /\ UNCHANGED <<lending, quote, dedup, chainState>>

\* The inner catch block: release, whose own failure is swallowed, and fail.
Free(o) == IF nonceLock = o THEN Nobody ELSE nonceLock
GiveUp(o) ==
  /\ \/ nonceLock' = Free(o)
     \/ Faulty("redis") /\ UNCHANGED nonceLock
  /\ Fail(o, "TX_SUBMISSION_FAILED")

Broadcast(o) == tx' = [tx EXCEPT ![o].state = "pending"]

SendTx(o) ==
  /\ stands[o] = "send"
  /\ \/ Broadcast(o) /\ Advance(o, "record") /\ UNCHANGED <<outcome, nonceLock>>
     \/ Faulty("send") /\ Broadcast(o) /\ GiveUp(o)
     \/ (Faulty("send") \/ Faulty("rpc")) /\ UNCHANGED tx /\ GiveUp(o)
  /\ UNCHANGED <<lending, quote, dedup, call, chain>>

\* Mutant: the rows are written, and the nonce is kept.
RecordKept(o) ==
  /\ stands[o] = "record"
  /\ \/ Advance(o, "confirming") /\ UNCHANGED <<outcome, nonceLock>>
     \/ (Faulty("db") \/ Faulty("redis")) /\ GiveUp(o)
  /\ UNCHANGED <<lending, quote, dedup, chainState>>

\* The hash and the transaction row are written, the nonce is released.
Record(o) ==
  /\ stands[o] = "record"
  /\ \/ nonceLock' = Free(o) /\ Advance(o, "confirming") /\ UNCHANGED outcome
     \/ (Faulty("db") \/ Faulty("redis")) /\ GiveUp(o)
  /\ UNCHANGED <<lending, quote, dedup, chainState>>

Confirming(o) ==
  /\ stands[o] = "confirming"
  /\ \/ SetState(o, "CONFIRMING") /\ Advance(o, "wait")
     \/ Throws(o, "db")
  /\ UNCHANGED <<lending, quote, dedup, nonceLock, chainState>>

\* Mutant: a receipt is a success.
WaitAny(o) ==
  /\ stands[o] = "wait"
  /\ \/ tx[o].state \in {"ok", "reverted"} /\ Advance(o, "landing") /\ UNCHANGED outcome
     \/ Fail(o, "TX_SUBMISSION_FAILED")
  /\ UNCHANGED <<lending, quote, dedup, nonceLock, chainState>>

\* The receipt, or 45 seconds without one, which the outer catch block takes.
Wait(o) ==
  /\ stands[o] = "wait"
  /\ \/ tx[o].state = "ok" /\ Advance(o, "landing") /\ UNCHANGED outcome
     \/ tx[o].state = "reverted" /\ Fail(o, "TX_REVERTED")
     \/ Fail(o, "TX_SUBMISSION_FAILED")
  /\ UNCHANGED <<lending, quote, dedup, nonceLock, chainState>>

Landing(o) ==
  /\ stands[o] = "landing"
  /\ \/ SetState(o, "LANDED") /\ Advance(o, "pnl")
     \/ Throws(o, "db")
  /\ UNCHANGED <<lending, quote, dedup, nonceLock, chainState>>

\* The profit the contract's event told.
Pnl(o) ==
  /\ stands[o] = "pnl"
  /\ \/ outcome' = [outcome EXCEPT ![o].pnl = tx[o].profit] /\ Advance(o, "done")
     \/ Throws(o, "db")
  /\ UNCHANGED <<lending, quote, dedup, nonceLock, chainState>>

JobStep(o) ==
  \/ Create(o) \/ Dedup(o) \/ Simulating(o) \/ Estimate(o) \/ Mock(o)
  \/ Signing(o) \/ Acquire(o) \/ SendTx(o) \/ Record(o)
  \/ Confirming(o) \/ Wait(o) \/ Landing(o) \/ Pnl(o)

-----------------------------------------------------------------------------
(* The contract: one call, step by step.                                   *)

jobState == <<lending, quote, stands, outcome, dedup, nonceLock>>

\* executeArb: Aave lends.
Borrow(o) ==
  /\ call = NoCall
  /\ tx[o].state = "pending"
  /\ ~Faulty("lost")
  /\ call' = [opp |-> o, step |-> "buy", in |-> Loan, before |-> chain]
  /\ chain' = [chain EXCEPT !.kept = @ + Loan, !.aave = @ - Loan]
  /\ UNCHANGED <<jobState, tx>>

\* A revert: the balances of before the call.
Revert ==
  /\ chain' = call.before
  /\ tx' = [tx EXCEPT ![call.opp].state = "reverted"]
  /\ call' = NoCall
  /\ UNCHANGED jobState

\* _executeSwap, to the router and back, or a revert below the minimum.
BuySwap(out) ==
  /\ call.step = "buy"
  /\ out >= MinOut(quote[call.opp].buy)
  /\ chain' = [chain EXCEPT !.kept = @ - call.in, !.mid = @ + out]
  /\ call' = [call EXCEPT !.step = "sell", !.in = out]
  /\ UNCHANGED <<jobState, tx>>

\* Mutant: the second leg sells what was quoted, not what was bought.
SellSwapQuoted(out) ==
  /\ call.step = "sell"
  /\ out >= MinOut(quote[call.opp].sell)
  /\ chain' = [chain EXCEPT !.mid = @ - quote[call.opp].buy, !.kept = @ + out]
  /\ call' = [call EXCEPT !.step = "repay", !.in = out]
  /\ UNCHANGED <<jobState, tx>>

SellSwap(out) ==
  /\ call.step = "sell"
  /\ out >= MinOut(quote[call.opp].sell)
  /\ chain' = [chain EXCEPT !.mid = @ - call.in, !.kept = @ + out]
  /\ call' = [call EXCEPT !.step = "repay", !.in = out]
  /\ UNCHANGED <<jobState, tx>>

SwapReverts == call.step \in {"buy", "sell"} /\ Revert

\* The end of executeOperation: enough to repay, and the allowance for it.
Approve ==
  /\ call.step = "repay"
  /\ chain.kept >= Loan + Premium
  /\ chain' = [chain EXCEPT !.allowance = @ + Loan + Premium]
  /\ call' = [call EXCEPT !.step = "pull"]
  /\ UNCHANGED <<jobState, tx>>

ArbNotProfitable == call.step = "repay" /\ chain.kept < Loan + Premium /\ Revert

\* Aave takes what it is owed, and the call is over: ArbExecuted told what is
\* left in the contract, the gain of this call and what was there before it.
Pull ==
  /\ call.step = "pull"
  /\ chain' = [chain EXCEPT !.kept = @ - Loan - Premium, !.aave = @ + Loan + Premium,
                            !.allowance = @ - Loan - Premium]
  /\ tx' = [tx EXCEPT ![call.opp] =
       [state |-> "ok", profit |-> chain.kept - Loan - Premium,
        kept |-> call.before.kept, gain |-> call.in - Loan - Premium]]
  /\ call' = NoCall
  /\ UNCHANGED jobState

\* withdraw and withdrawAll, by the owner.
Withdraw(amount) ==
  /\ call = NoCall
  /\ amount > 0 /\ amount <= chain.kept
  /\ chain' = [chain EXCEPT !.kept = @ - amount]
  /\ UNCHANGED <<jobState, tx, call>>

Outcomes(quoted) == {quoted + m : m \in Moves} \cap Nat

ChainStep ==
  \/ \E o \in Opp : Borrow(o)
  \/ call # NoCall /\ \E out \in Outcomes(quote[call.opp].buy) : BuySwap(out)
  \/ call # NoCall /\ \E out \in Outcomes(quote[call.opp].sell) : SellSwap(out)
  \/ SwapReverts \/ Approve \/ ArbNotProfitable \/ Pull
  \/ \E amount \in 1 .. chain.kept : Withdraw(amount)

FlashNext == (\E o \in Opp : JobStep(o)) \/ DedupExpires \/ ChainStep

FlashFairness == \A o \in Opp : WF_flashVars(JobStep(o))

FlashSpec == FlashInit /\ [][FlashNext]_flashVars /\ FlashFairness

-----------------------------------------------------------------------------
(* Properties.                                                             *)

\* Between two calls nothing is half done: Aave has its reserve and a premium
\* for every call that succeeded, no intermediate token and no allowance is
\* left, and what the contract keeps is what its calls gained, less what the
\* owner withdrew: a call that reverted changed nothing.
LoansRepaid ==
  call = NoCall =>
    /\ chain.aave = Reserve + Premium * Cardinality({o \in Opp : tx[o].state = "ok"})
    /\ chain.mid = 0 /\ chain.allowance = 0 /\ chain.kept >= 0

\* A row tells what the chain did: LANDED only of a transaction that succeeded,
\* with the gain of the trade as its profit when nothing was left over from
\* earlier ones; TX_REVERTED only of one that reverted; and a refusal only when
\* nothing was ever sent.
RowTellsChain ==
  \A o \in Opp :
    /\ (outcome[o].state = "LANDED" /\ ~lending.mock) => tx[o].state = "ok"
    /\ (outcome[o].state = "LANDED" /\ stands[o] = "done" /\ ~lending.mock /\ tx[o].kept = 0) =>
         outcome[o].pnl = tx[o].gain
    /\ outcome[o].code = "TX_REVERTED" => tx[o].state = "reverted"
    /\ outcome[o].code \in {"DUPLICATE_OPPORTUNITY", "SIMULATION_FAILED"} => tx[o].state = "none"

\* Every job ends, with its row settled unless the database failed, and holds
\* no nonce then unless Redis failed, whether or not its transaction is mined.
FlashEnds ==
  \A o \in Opp : o \in lending.queued => <>[](
    /\ stands[o] \in Done
    /\ outcome[o].state \in {"LANDED", "FAILED"} \/ Faulty("db")
    /\ nonceLock # o \/ Faulty("redis"))

=============================================================================
