-------------------------- MODULE ExecutionEngine --------------------------
(***************************************************************************)
(* The two-leg execution of an approved opportunity:                       *)
(*   packages/execution-engine/src/index.ts    ExecutionEngine.execute     *)
(*   apps/worker/src/jobs/execution.job.ts     processExecutionJob         *)
(* run by worker processes that take "execution" jobs, one at a time each, *)
(* from a BullMQ queue.  Every awaited database write, Redis command, RPC  *)
(* call and transaction is a step, and may throw; a process may crash and  *)
(* a job may stall, after which the queue gives the job out again.         *)
(***************************************************************************)
EXTENDS Integers, FiniteSets

CONSTANTS
  Opp,          \* approved opportunities, each with one queued job
  Worker,       \* worker processes (concurrency 1 each)
  NoWorker,     \* nobody holds the job's lock
  NoOpp,        \* what an idle worker executes
  Fingerprint,  \* deduplication keys
  FpOf,         \* the fingerprint of each opportunity
  MaxTries,     \* the job's "attempts"
  MaxStalls,    \* how often the queue gives a stalled job out again
  Settings      \* the settings a behaviour may run in

AllFaults ==
  { "crash",    \* a worker process dies
    "stall",    \* a living worker fails to renew its job's lock
    "wallet",   \* no wallet can be resolved
    "db",       \* a database write throws
    "redis",    \* a Redis command throws, acquiring a nonce included
    "rpc",      \* a read of the chain, a calldata build or an approval throws
    "send",     \* sendTransaction throws, broadcast or not
    "revert" }  \* a transaction reverts

\* The opportunities whose job is in the queue, the value of MOCK_EXECUTION, and
\* what may go wrong.
Setting == [queued : SUBSET Opp, mock : BOOLEAN, faults : SUBSET AllFaults]

ASSUME ExecutionAssumption ==
  /\ NoWorker \notin Worker
  /\ NoOpp \notin Opp
  /\ FpOf \in [Opp -> Fingerprint]
  /\ MaxTries \in Nat \ {0}
  /\ MaxStalls \in Nat
  /\ Settings \subseteq Setting

Leg == {"buy", "sell"}

\* ExecutionState, and "none" where no row exists.
RowState == {"none", "PENDING", "SIGNING", "SIMULATING", "SUBMITTED",
             "CONFIRMING", "LANDED", "FAILED"}

EarlyCode == {"DUPLICATE_OPPORTUNITY", "SIMULATION_FAILED", "BELOW_MIN_PROFIT"}
FailureCode == EarlyCode \cup {"none", "TX_SUBMISSION_FAILED", "TX_REVERTED"}

PC == {"idle", "wallet", "create", "dedup", "signing", "approve", "simulating",
       "simulate", "submit", "nonce", "send", "record", "confirm", "wait",
       "mockRows", "land", "pnl", "fail", "failThrow", "catch",
       "done", "rejected", "aborted"}

VARIABLES
  setting,  \* one of Settings, the same in a whole behaviour
  job,      \* state of each opportunity's job in the queue
  holder,   \* the worker whose lock is on the job
  tries,    \* attempts of the job that failed
  stalls,   \* times the job was given out again after a stall
  row,      \* executions.state of the opportunity
  code,     \* executions.failureCode
  txRows,   \* legs with a row in transactions
  dedup,    \* fingerprints whose Redis key is alive
  tx,       \* each leg's transaction on the chain
  sends,    \* how many transactions were broadcast for each leg
  counted,  \* opportunities for which recordFailedTx was called
  at,       \* where each worker stands
  cur,      \* the opportunity it executes
  leg,      \* the leg it works on
  why       \* the failure code it is about to write

vars == <<setting, job, holder, tries, stalls, row, code, txRows, dedup, tx, sends,
          counted, at, cur, leg, why>>
jobVars == <<job, holder, tries, stalls>>
dbVars == <<row, code, txRows>>
chainVars == <<tx, sends>>
runVars == <<cur, leg, why>>

Mock == setting.mock
Faults == setting.faults

Init ==
  /\ setting \in Settings
  /\ job = [o \in Opp |-> IF o \in setting.queued THEN "waiting" ELSE "none"]
  /\ holder = [o \in Opp |-> NoWorker]
  /\ tries = [o \in Opp |-> 0]
  /\ stalls = [o \in Opp |-> 0]
  /\ row = [o \in Opp |-> "none"]
  /\ code = [o \in Opp |-> "none"]
  /\ txRows = [o \in Opp |-> {}]
  /\ dedup = {}
  /\ tx = [o \in Opp |-> [l \in Leg |-> "unsent"]]
  /\ sends = [o \in Opp |-> [l \in Leg |-> 0]]
  /\ counted = {}
  /\ at = [w \in Worker |-> "idle"]
  /\ cur = [w \in Worker |-> NoOpp]
  /\ leg = [w \in Worker |-> "buy"]
  /\ why = [w \in Worker |-> "none"]

Goto(w, from, to) ==
  /\ at[w] = from
  /\ at' = [at EXCEPT ![w] = to]

SetRow(w, s) == row' = [row EXCEPT ![cur[w]] = s]

\* The run of w ends.
Leave(w) ==
  /\ at' = [at EXCEPT ![w] = "idle"]
  /\ cur' = [cur EXCEPT ![w] = NoOpp]
  /\ leg' = [leg EXCEPT ![w] = "buy"]
  /\ why' = [why EXCEPT ![w] = "none"]

\* Leave for markFailed(code) and return.
FailWith(w, from, c) ==
  /\ Goto(w, from, "fail")
  /\ why' = [why EXCEPT ![w] = c]

-----------------------------------------------------------------------------
(* The queue                                                               *)

Take(w, o) ==
  /\ job[o] = "waiting"
  /\ Goto(w, "idle", "wallet")
  /\ job' = [job EXCEPT ![o] = "active"]
  /\ holder' = [holder EXCEPT ![o] = w]
  /\ cur' = [cur EXCEPT ![w] = o]
  /\ UNCHANGED <<tries, stalls, dbVars, dedup, chainVars, counted, setting, leg, why>>

\* The job's lock ran out: its process died, or did not renew it.
Stall(o) ==
  /\ job[o] = "active"
  /\ \/ "stall" \in Faults
     \/ ~\E w \in Worker : holder[o] = w /\ cur[w] = o
  /\ holder' = [holder EXCEPT ![o] = NoWorker]
  /\ IF stalls[o] < MaxStalls
     THEN /\ job' = [job EXCEPT ![o] = "waiting"]
          /\ stalls' = [stalls EXCEPT ![o] = @ + 1]
     ELSE /\ job' = [job EXCEPT ![o] = "failed"]
          /\ UNCHANGED stalls
  /\ UNCHANGED <<tries, dbVars, dedup, chainVars, counted, setting, at, runVars>>

\* The processor returned: only the lock's holder completes the job.
Finish(w) ==
  LET o == cur[w] IN
  /\ at[w] = "done"
  /\ Leave(w)
  /\ IF holder[o] = w
     THEN /\ job' = [job EXCEPT ![o] = "completed"]
          /\ holder' = [holder EXCEPT ![o] = NoWorker]
     ELSE UNCHANGED <<job, holder>>
  /\ UNCHANGED <<tries, stalls, dbVars, dedup, chainVars, counted, setting>>

\* Mutant: the attempts are not counted.
JobFailsUncounted(w) ==
  LET o == cur[w] IN
  IF holder[o] = w
  THEN /\ job' = [job EXCEPT ![o] = "waiting"]
       /\ holder' = [holder EXCEPT ![o] = NoWorker]
       /\ UNCHANGED tries
  ELSE UNCHANGED <<tries, job, holder>>

\* The processor threw: the queue tries again while attempts are left.
JobFails(w) ==
  LET o == cur[w] IN
  IF holder[o] = w
  THEN /\ tries' = [tries EXCEPT ![o] = @ + 1]
       /\ job' = [job EXCEPT ![o] = IF tries[o] + 1 < MaxTries THEN "waiting" ELSE "failed"]
       /\ holder' = [holder EXCEPT ![o] = NoWorker]
  ELSE UNCHANGED <<tries, job, holder>>

-----------------------------------------------------------------------------
(* processExecutionJob                                                     *)

ResolveWallet(w) ==
  /\ \/ Goto(w, "wallet", "create")
     \/ "wallet" \in Faults /\ Goto(w, "wallet", "aborted")
  /\ UNCHANGED <<jobVars, dbVars, dedup, chainVars, counted, setting, runVars>>

\* A throw outside the job's try block fails the job and nothing else.
Abort(w) ==
  /\ at[w] = "aborted"
  /\ Leave(w)
  /\ JobFails(w)
  /\ UNCHANGED <<stalls, dbVars, dedup, chainVars, counted, setting>>

\* The catch block: recordFailedTx, which may throw itself, then rethrow.
Reject(w) ==
  /\ at[w] = "rejected"
  /\ Leave(w)
  /\ \/ counted' = counted \cup {cur[w]}
     \/ "redis" \in Faults /\ UNCHANGED counted
  /\ JobFails(w)
  /\ UNCHANGED <<stalls, dbVars, dedup, chainVars, setting>>

-----------------------------------------------------------------------------
(* execute: up to the first transaction                                    *)

\* Mutant: an upsert, as without the unique index.
CreateRecordAgain(w) ==
  /\ Goto(w, "create", "dedup")
  /\ SetRow(w, "PENDING")
  /\ UNCHANGED <<jobVars, code, txRows, dedup, chainVars, counted, setting, runVars>>

\* executions.opportunityId is unique, so a second row is refused; the
\* refusal is thrown to processExecutionJob.
CreateRecord(w) ==
  /\ \/ /\ Goto(w, "create", "dedup")
        /\ row[cur[w]] = "none"
        /\ SetRow(w, "PENDING")
     \/ /\ Goto(w, "create", "rejected")
        /\ row[cur[w]] # "none" \/ "db" \in Faults
        /\ UNCHANGED row
  /\ UNCHANGED <<jobVars, code, txRows, dedup, chainVars, counted, setting, runVars>>

Dedup(w) ==
  LET fp == FpOf[cur[w]] IN
  /\ \/ /\ FailWith(w, "dedup", "DUPLICATE_OPPORTUNITY")
        /\ fp \in dedup
        /\ UNCHANGED dedup
     \/ /\ Goto(w, "dedup", "signing")
        /\ fp \notin dedup
        /\ dedup' = dedup \cup {fp}
        /\ UNCHANGED why
  /\ UNCHANGED <<jobVars, dbVars, chainVars, counted, setting, cur, leg>>

\* The key lives for ten seconds, whatever the execution takes.
DedupExpires(fp) ==
  /\ fp \in dedup
  /\ dedup' = dedup \ {fp}
  /\ UNCHANGED <<jobVars, dbVars, chainVars, counted, setting, at, runVars>>

Signing(w) ==
  /\ Goto(w, "signing", "approve")
  /\ SetRow(w, "SIGNING")
  /\ UNCHANGED <<jobVars, code, txRows, dedup, chainVars, counted, setting, runVars>>

\* Calldata and, unless Mock, token approval of the leg at hand.
Approve(w) ==
  /\ Goto(w, "approve", IF leg[w] = "buy" THEN "simulating" ELSE "submit")
  /\ UNCHANGED <<jobVars, dbVars, dedup, chainVars, counted, setting, runVars>>

Simulating(w) ==
  /\ Goto(w, "simulating", "simulate")
  /\ SetRow(w, "SIMULATING")
  /\ UNCHANGED <<jobVars, code, txRows, dedup, chainVars, counted, setting, runVars>>

\* RouteSimulator.simulate never throws; the profit gate follows it.
Simulate(w) ==
  /\ \/ Goto(w, "simulate", "submit") /\ UNCHANGED why
     \/ FailWith(w, "simulate", "SIMULATION_FAILED")
     \/ FailWith(w, "simulate", "BELOW_MIN_PROFIT")
  /\ UNCHANGED <<jobVars, dbVars, dedup, chainVars, counted, setting, cur, leg>>

-----------------------------------------------------------------------------
(* execute: one leg                                                        *)

\* Mutant: mock mode is forgotten.
SubmitReally(w) ==
  /\ Goto(w, "submit", "nonce")
  /\ SetRow(w, "SUBMITTED")
  /\ UNCHANGED <<jobVars, code, txRows, dedup, chainVars, counted, setting, runVars>>

Submit(w) ==
  /\ Goto(w, "submit", IF Mock THEN "mockRows" ELSE "nonce")
  /\ SetRow(w, "SUBMITTED")
  /\ UNCHANGED <<jobVars, code, txRows, dedup, chainVars, counted, setting, runVars>>

AcquireNonce(w) ==
  /\ Goto(w, "nonce", "send")
  /\ UNCHANGED <<jobVars, dbVars, dedup, chainVars, counted, setting, runVars>>

Broadcast(w) ==
  /\ tx' = [tx EXCEPT ![cur[w]][leg[w]] = "pending"]
  /\ sends' = [sends EXCEPT ![cur[w]][leg[w]] = @ + 1]

\* A send that throws may have reached the chain.
Send(w) ==
  /\ \/ Goto(w, "send", "record") /\ Broadcast(w)
     \/ /\ "send" \in Faults
        /\ Goto(w, "send", "failThrow")
        /\ Broadcast(w) \/ UNCHANGED chainVars
  /\ UNCHANGED <<jobVars, dbVars, dedup, counted, setting, runVars>>

\* The transaction's row, and the release of its nonce, which may throw.
RecordTx(w) ==
  /\ \/ Goto(w, "record", "confirm")
     \/ "redis" \in Faults /\ Goto(w, "record", "failThrow")
  /\ txRows' = [txRows EXCEPT ![cur[w]] = @ \cup {leg[w]}]
  /\ UNCHANGED <<jobVars, row, code, dedup, chainVars, counted, setting, runVars>>

Confirm(w) ==
  /\ Goto(w, "confirm", "wait")
  /\ SetRow(w, "CONFIRMING")
  /\ UNCHANGED <<jobVars, code, txRows, dedup, chainVars, counted, setting, runVars>>

\* Mutant: the receipt's status is not looked at.
WaitReceiptUnchecked(w) ==
  /\ at[w] = "wait" /\ tx[cur[w]][leg[w]] # "pending"
  /\ \/ /\ Goto(w, "wait", "approve")
        /\ leg[w] = "buy"
        /\ leg' = [leg EXCEPT ![w] = "sell"]
     \/ /\ Goto(w, "wait", "land")
        /\ leg[w] = "sell"
        /\ UNCHANGED leg
  /\ UNCHANGED <<jobVars, dbVars, dedup, chainVars, counted, setting, cur, why>>

\* A receipt, or the 60 s timeout's throw while there is none.
WaitReceipt(w) ==
  LET status == tx[cur[w]][leg[w]] IN
  /\ \/ /\ Goto(w, "wait", "approve")
        /\ status = "landed" /\ leg[w] = "buy"
        /\ leg' = [leg EXCEPT ![w] = "sell"]
        /\ UNCHANGED why
     \/ /\ Goto(w, "wait", "land")
        /\ status = "landed" /\ leg[w] = "sell"
        /\ UNCHANGED <<leg, why>>
     \/ /\ FailWith(w, "wait", "TX_REVERTED")
        /\ status = "reverted"
        /\ UNCHANGED leg
     \/ /\ Goto(w, "wait", "catch")
        /\ status = "pending"
        /\ UNCHANGED <<leg, why>>
  /\ UNCHANGED <<jobVars, dbVars, dedup, chainVars, counted, setting, cur>>

MockRows(w) ==
  /\ Goto(w, "mockRows", "land")
  /\ txRows' = [txRows EXCEPT ![cur[w]] = Leg]
  /\ UNCHANGED <<jobVars, row, code, dedup, chainVars, counted, setting, runVars>>

Land(w) ==
  /\ Goto(w, "land", "pnl")
  /\ SetRow(w, "LANDED")
  /\ UNCHANGED <<jobVars, code, txRows, dedup, chainVars, counted, setting, runVars>>

\* The profit, gas and confirmation times of the row and its transactions.
RecordPnl(w) ==
  /\ Goto(w, "pnl", "done")
  /\ UNCHANGED <<jobVars, dbVars, dedup, chainVars, counted, setting, runVars>>

-----------------------------------------------------------------------------
(* execute: failures                                                       *)

Fail(w, c) ==
  /\ SetRow(w, "FAILED")
  /\ code' = [code EXCEPT ![cur[w]] = c]

\* Mutant: markFailed without a return.
MarkFailedContinues(w) ==
  /\ Goto(w, "fail", "submit")
  /\ Fail(w, why[w])
  /\ UNCHANGED <<jobVars, txRows, dedup, chainVars, counted, setting, runVars>>

\* markFailed and return.
MarkFailed(w) ==
  /\ Goto(w, "fail", "done")
  /\ Fail(w, why[w])
  /\ UNCHANGED <<jobVars, txRows, dedup, chainVars, counted, setting, runVars>>

\* The catch block of a submission: release, markFailed and rethrow.
SubmissionFailed(w) ==
  /\ Goto(w, "failThrow", "catch")
  /\ Fail(w, "TX_SUBMISSION_FAILED")
  /\ UNCHANGED <<jobVars, txRows, dedup, chainVars, counted, setting, runVars>>

\* Mutant: the outer catch block only swallows the error.
CatchSwallows(w) ==
  /\ Goto(w, "catch", "done")
  /\ UNCHANGED <<jobVars, dbVars, dedup, chainVars, counted, setting, runVars>>

\* The outer catch block: markFailed, and the error goes no further.
Catch(w) ==
  /\ Goto(w, "catch", "done")
  /\ Fail(w, "TX_SUBMISSION_FAILED")
  /\ UNCHANGED <<jobVars, txRows, dedup, chainVars, counted, setting, runVars>>

\* What can throw where, and where the throw is caught.  What throws here has
\* had no effect; a lost answer shows as the throw of the next step.
FaultAt ==
  [dedup |-> "redis", signing |-> "db", approve |-> "rpc", simulating |-> "db",
   submit |-> "db", nonce |-> "redis", record |-> "db", confirm |-> "db",
   wait |-> "rpc", mockRows |-> "db", land |-> "db", pnl |-> "db",
   fail |-> "db", failThrow |-> "db", catch |-> "db"]

CaughtAt(p) ==
  CASE p = "record" -> "failThrow"
    [] p = "catch" -> "rejected"
    [] OTHER -> "catch"

Throws(w) ==
  /\ at[w] \in DOMAIN FaultAt
  /\ FaultAt[at[w]] \in Faults
  /\ at' = [at EXCEPT ![w] = CaughtAt(at[w])]
  /\ UNCHANGED <<jobVars, dbVars, dedup, chainVars, counted, setting, runVars>>

-----------------------------------------------------------------------------
(* The environment                                                         *)

Mine(o, l) ==
  /\ tx[o][l] = "pending"
  /\ \E s \in {"landed"} \cup {"reverted" : f \in Faults \cap {"revert"}} :
       tx' = [tx EXCEPT ![o][l] = s]
  /\ UNCHANGED <<jobVars, dbVars, dedup, sends, counted, setting, at, runVars>>

Crash(w) ==
  /\ "crash" \in Faults
  /\ at[w] # "idle"
  /\ Leave(w)
  /\ UNCHANGED <<jobVars, dbVars, dedup, chainVars, counted, setting>>

-----------------------------------------------------------------------------
Step(w) ==
  \/ ResolveWallet(w) \/ Abort(w) \/ Reject(w) \/ Finish(w)
  \/ CreateRecord(w) \/ Dedup(w) \/ Signing(w) \/ Approve(w)
  \/ Simulating(w) \/ Simulate(w) \/ Submit(w) \/ AcquireNonce(w)
  \/ Send(w) \/ RecordTx(w) \/ Confirm(w) \/ WaitReceipt(w)
  \/ MockRows(w) \/ Land(w) \/ RecordPnl(w)
  \/ MarkFailed(w) \/ SubmissionFailed(w) \/ Catch(w)

Next ==
  \/ \E w \in Worker : Step(w) \/ Throws(w) \/ Crash(w)
  \/ \E w \in Worker, o \in Opp : Take(w, o)
  \/ \E o \in Opp : Stall(o)
  \/ \E o \in Opp, l \in Leg : Mine(o, l)
  \/ \E fp \in Fingerprint : DedupExpires(fp)

Spec == Init /\ [][Next]_vars

\* A living worker goes on, and takes a job when it is idle; the queue notices
\* a job whose lock ran out.
Fairness ==
  /\ \A w \in Worker : WF_vars(Step(w)) /\ WF_vars(\E o \in Opp : Take(w, o))
  /\ \A o \in Opp : WF_vars(Stall(o))

FairSpec == Spec /\ Fairness

-----------------------------------------------------------------------------
(* Properties                                                              *)

Verdict == {"LANDED", "FAILED"}

\* Every variable has its type: rows and jobs are in one of their states
\* (schema.prisma, ExecutionState) and counters stay within their bounds.
TypeOK ==
  /\ setting \in Settings
  /\ job \in [Opp -> {"none", "waiting", "active", "completed", "failed"}]
  /\ holder \in [Opp -> Worker \cup {NoWorker}]
  /\ tries \in [Opp -> 0 .. MaxTries]
  /\ stalls \in [Opp -> 0 .. MaxStalls]
  /\ row \in [Opp -> RowState]
  /\ code \in [Opp -> FailureCode]
  /\ txRows \in [Opp -> SUBSET Leg]
  /\ dedup \in SUBSET Fingerprint
  /\ tx \in [Opp -> [Leg -> {"unsent", "pending", "landed", "reverted"}]]
  /\ sends \in [Opp -> [Leg -> Nat]]
  /\ counted \in SUBSET Opp
  /\ at \in [Worker -> PC]
  /\ cur \in [Worker -> Opp \cup {NoOpp}]
  /\ leg \in [Worker -> Leg]
  /\ why \in [Worker -> FailureCode]

\* However often the queue gives a job out, after throws, crashes and stalls,
\* each leg of its opportunity is broadcast at most once (execute).
SubmittedOnce == \A o \in Opp, l \in Leg : sends[o][l] <= 1

\* The sell leg is broadcast only when the buy leg has landed: its amount is
\* the output that the buy receipt's logs show (execute, steps 8 to 12).
SellAfterBuy ==
  \A o \in Opp : sends[o]["sell"] > 0 => tx[o]["buy"] = "landed"

\* A row that says LANDED stands for two landed legs with their transaction
\* rows, and in mock mode for none that was broadcast (execute, steps 5 and 14).
LandedMeansLanded ==
  \A o \in Opp : row[o] = "LANDED" =>
    /\ txRows[o] = Leg
    /\ IF Mock THEN \A l \in Leg : sends[o][l] = 0
               ELSE \A l \in Leg : tx[o][l] = "landed"

\* What is broadcast for an opportunity follows its plan, each step of it once and
\* in order, and a row that says so is right (execute).
TradeInOrder == SubmittedOnce /\ SellAfterBuy /\ LandedMeansLanded

\* The failure code of a row says what happened on the chain: nothing for the
\* codes of the checks, a reverted leg for TX_REVERTED (markFailed).
CodeTellsTruth ==
  \A o \in Opp :
    /\ code[o] \in EarlyCode => \A l \in Leg : sends[o][l] = 0
    /\ code[o] = "TX_REVERTED" => \E l \in Leg : tx[o][l] = "reverted"

\* Once a row says LANDED or FAILED, nothing more is broadcast for its
\* opportunity: markFailed is always followed by a return or a throw.
NoSendAfterVerdict ==
  [][\A o \in Opp : row[o] \in Verdict => sends'[o] = sends[o]]_vars

\* Without failing database writes a verdict is final (updateState, markFailed).
VerdictStays ==
  [][\A o \in Opp : "db" \notin Faults /\ row[o] \in Verdict => row'[o] = row[o]]_vars

\* A verdict is the end of an execution, of what is written and of what is sent.
VerdictFinal == NoSendAfterVerdict /\ VerdictStays

\* While processes live and the database takes writes, an execution that was
\* recorded ends as LANDED or FAILED: no throw on the way leaves it behind.
RowSettles ==
  \A o \in Opp :
    row[o] # "none" /\ Faults \cap {"crash", "db"} = {} ~> row[o] \in Verdict

\* Every job ends, through crashes, stalls and throws: the queue gives up after
\* the job's attempts.
JobsEnd == \A o \in Opp : <>[](job[o] \in {"none", "completed", "failed"})

\* Nothing is left half done for ever, row or job.
ExecutionsSettle == RowSettles /\ JobsEnd

\* "FAILED_TX_RATE -- Auto-triggers global kill at threshold": an execution
\* that failed with a transaction on the chain reached the failure counter.
FailedTxCounted ==
  \A o \in Opp :
    job[o] = "completed" /\ row[o] = "FAILED" /\ (\E l \in Leg : sends[o][l] > 0)
      => o \in counted

-----------------------------------------------------------------------------
(* What an execution promises                                              *)

BoughtStage ==
  [unsent |-> "flat", pending |-> "buying", landed |-> "bought", reverted |-> "flat"]

SoldStage ==
  [pending |-> "selling", landed |-> "closed", reverted |-> "stranded"]

Stage(o) ==
  IF tx[o]["sell"] = "unsent" THEN BoughtStage[tx[o]["buy"]]
                              ELSE SoldStage[tx[o]["sell"]]

\* Mock executions trade nothing, and where database writes fail a verdict may
\* be rewritten: such settings are no trades.
Real == ~Mock /\ "db" \notin Faults

Trade ==
  INSTANCE TwoLegTrade WITH
    Trades <- Opp,
    stage <- [o \in Opp |-> IF Real THEN Stage(o) ELSE "flat"],
    tried <- [o \in Opp |-> Real /\ sends[o]["buy"] > 0],
    verdict <- [o \in Opp |-> IF Real /\ row[o] \in Verdict THEN row[o] ELSE "open"]

\* The execution engine implements the two-leg trade: legs in order, each at
\* most once, none after the verdict, and LANDED only for a closed position.
ImplementsTrade == Trade!Spec
=============================================================================
