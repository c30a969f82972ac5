-------------------------- MODULE LiquidityScheduler --------------------------
(***************************************************************************)
(* When liquidity maps are scanned:                                        *)
(*   apps/worker/src/index.ts   isOperationActive, startLiquidityScheduler,*)
(*                              triggerLiquidityScan, the scan worker      *)
(*   apps/worker/src/jobs/liquidity-scan.job.ts   the loop over the pools  *)
(* What one scan of one pool does is LiquidityMap; here it refreshes the   *)
(* pool's row or fails.  The kill switch belongs to operators and to the   *)
(* risk engine, the queue and the rows outlive the process.                *)
(***************************************************************************)
EXTENDS Integers, Sequences, FiniteSets

CONSTANTS
  Pool,        \* active pools of enabled venues, of a known protocol
  Timer,       \* ticks of the 30-second timer that may be awaited at once
  Interval,    \* LIQUIDITY_REFRESH_INTERVAL, in ticks
  MaxQueue,    \* waiting scans at which the timer stops, a bound of the model
  MaxToggles,  \* changes of the kill switch
  MaxCrashes,  \* crashes and restarts of the process
  WorkerSettings  \* the settings a behaviour may run in

\* What may happen in a behaviour.
Faults ==
  { "ticks",   \* the timer and the kill switch: without them only the cache
    "blocks",  \* new blocks: without them only the scheduler
    "add",     \* queues.liquidityScan.add throws
    "scan",    \* buildLiquidityMap or the upsert of a pool throws
    "slow",    \* the first read of the V3 pools outlives its 30 seconds
    "logs",    \* one of the watcher's getLogs calls fails
    "read" }   \* a V3 pool cannot be read

ASSUME SchedulerAssumption ==
  /\ {Interval, MaxQueue, MaxToggles, MaxCrashes} \subseteq Nat
  /\ Interval > 0
  /\ IsFiniteSet(Pool)
  /\ WorkerSettings \subseteq SUBSET Faults

VARIABLES
  faults,      \* what may happen in this behaviour
  killed,      \* arbitex:risk:kill:GLOBAL is "1"
  toggles,     \* changes of the kill switch so far
  phase,       \* where main() is
  lastKnown,   \* lastKnownKillState
  tick,        \* what each tick of the timer awaits
  queue,       \* the modes of the waiting liquidity-scan jobs
  scan,        \* the active job: its mode, the pools left, its stalls
  rowAge,      \* ticks since a pool's refreshedAt, Interval for any longer
  built,       \* the pools with a row
  crashes      \* crashes and restarts so far

schedVars == <<faults, killed, toggles, phase, lastKnown, tick, queue, scan,
               rowAge, built, crashes>>

Phases == {"down", "registering", "reading", "scheduling", "counting", "up"}
Modes == {"full", "quick"}
NoScan == [mode |-> "none", todo |-> {}, stalls |-> 0]

SchedInit ==
  /\ faults \in WorkerSettings
  /\ killed \in BOOLEAN
  /\ toggles = 0
  /\ phase = "down"
  /\ lastKnown = TRUE
  /\ tick = [t \in Timer |-> "idle"]
  /\ queue = <<>>
  /\ scan = NoScan
  /\ built \in {{}, Pool}
  /\ "ticks" \notin faults => killed /\ built = Pool
  /\ rowAge = [p \in Pool |-> Interval]
  /\ crashes = 0

\* Everything of the scheduler but what a step names.
rowVars == <<rowAge, built>>
jobVars == <<queue, scan>>
frameVars == <<faults, crashes>>

-----------------------------------------------------------------------------
(* The switch, set and cleared by operators and by recordFailedTx.         *)

Toggle ==
  /\ "ticks" \in faults
  /\ toggles < MaxToggles
  /\ toggles' = toggles + 1
  /\ killed' = ~killed
  /\ UNCHANGED <<frameVars, phase, lastKnown, tick, jobVars, rowVars>>

-----------------------------------------------------------------------------
(* startLiquidityScheduler.  A throw here is main's: the process exits.    *)

Enqueue(mode) == queue' = Append(queue, mode)

StartScheduler ==
  /\ phase = "scheduling"
  /\ lastKnown' = killed
  /\ phase' = IF killed THEN "up" ELSE "counting"
  /\ UNCHANGED <<frameVars, killed, toggles, tick, jobVars, rowVars>>

StartupScan ==
  /\ phase = "counting"
  /\ Enqueue(IF built = {} THEN "full" ELSE "quick")
  /\ phase' = "up"
  /\ UNCHANGED <<frameVars, killed, toggles, lastKnown, tick, scan, rowVars>>

Down ==
  /\ phase' = "down"
  /\ lastKnown' = TRUE
  /\ tick' = [t \in Timer |-> "idle"]

StartFails ==
  /\ "add" \in faults
  /\ phase = "counting"
  /\ Down
  /\ crashes < MaxCrashes /\ crashes' = crashes + 1
  /\ UNCHANGED <<faults, killed, toggles, jobVars, rowVars>>

-----------------------------------------------------------------------------
(* The timer.  Its callback is async, so a tick may find the one before    *)
(* still awaiting.                                                         *)

Older(a) == IF a < Interval THEN a + 1 ELSE a

Awaiting == {t \in Timer : tick[t] # "idle"}

\* The bound on the waiting scans is here: the queue itself refuses none.
Fire(t) ==
  /\ "ticks" \in faults
  /\ phase = "up"
  /\ tick[t] = "idle"
  /\ Len(queue) + Cardinality(Awaiting) < MaxQueue
  /\ tick' = [tick EXCEPT ![t] = "get"]
  /\ rowAge' = [p \in Pool |-> Older(rowAge[p])]
  /\ UNCHANGED <<frameVars, killed, toggles, phase, lastKnown, jobVars, built>>

\* Mutant: the return stands behind the test for an activation.
ReadKillSwitchReturns(t) ==
  /\ tick[t] = "get"
  /\ lastKnown' = killed
  /\ tick' = [tick EXCEPT ![t] = IF ~killed /\ lastKnown THEN "add full" ELSE "idle"]
  /\ UNCHANGED <<frameVars, killed, toggles, phase, jobVars, rowVars>>

\* Mutant: the transition is tested against the new state.
ReadKillSwitchTooLate(t) ==
  /\ tick[t] = "get"
  /\ lastKnown' = killed
  /\ tick' = [tick EXCEPT ![t] = IF killed THEN "idle" ELSE "rows"]
  /\ UNCHANGED <<frameVars, killed, toggles, phase, jobVars, rowVars>>

ReadKillSwitch(t) ==
  /\ tick[t] = "get"
  /\ lastKnown' = killed
  /\ tick' = [tick EXCEPT ![t] =
       IF killed THEN "idle" ELSE IF lastKnown THEN "add full" ELSE "rows"]
  /\ UNCHANGED <<frameVars, killed, toggles, phase, jobVars, rowVars>>

\* The newest row of any pool decides.
Due == \A p \in built : rowAge[p] = Interval

ReadRows(t) ==
  /\ tick[t] = "rows"
  /\ tick' = [tick EXCEPT ![t] = IF Due THEN "add quick" ELSE "idle"]
  /\ UNCHANGED <<frameVars, killed, toggles, phase, lastKnown, jobVars, rowVars>>

Add(t, mode) ==
  /\ tick[t] = IF mode = "full" THEN "add full" ELSE "add quick"
  /\ tick' = [tick EXCEPT ![t] = "idle"]
  /\ Enqueue(mode)
  /\ UNCHANGED <<frameVars, killed, toggles, phase, lastKnown, scan, rowVars>>

\* The catch block of the tick: lastKnownKillState stays as it is.
AddFails(t) ==
  /\ "add" \in faults
  /\ tick[t] \in {"add full", "add quick"}
  /\ tick' = [tick EXCEPT ![t] = "idle"]
  /\ UNCHANGED <<frameVars, killed, toggles, phase, lastKnown, jobVars, rowVars>>

-----------------------------------------------------------------------------
(* The scan worker, one job at a time.  Workers run as soon as the process *)
(* does, before main() is through.                                         *)

TakeScan ==
  /\ phase # "down"
  /\ scan = NoScan
  /\ queue # <<>>
  /\ scan' = [mode |-> Head(queue), todo |-> Pool, stalls |-> 0]
  /\ queue' = Tail(queue)
  /\ UNCHANGED <<frameVars, killed, toggles, phase, lastKnown, tick, rowVars>>

\* After a crash the job's lock runs out and BullMQ gives it out again, once.
TakeStalled ==
  /\ phase # "down"
  /\ scan.mode \in Modes
  /\ scan.stalls = 1
  /\ scan' = [mode |-> scan.mode, todo |-> Pool, stalls |-> 2]
  /\ UNCHANGED <<frameVars, killed, toggles, phase, lastKnown, tick, queue, rowVars>>

Scanning == phase # "down" /\ scan.stalls \in {0, 2}

ScanPool(p) ==
  /\ Scanning
  /\ p \in scan.todo
  /\ scan' = [scan EXCEPT !.todo = @ \ {p}]
  /\ rowAge' = [rowAge EXCEPT ![p] = 0]
  /\ built' = built \cup {p}
  /\ UNCHANGED <<frameVars, killed, toggles, phase, lastKnown, tick, queue>>

\* The catch block of the loop: the next pool is scanned.
ScanPoolFails(p) ==
  /\ "scan" \in faults
  /\ Scanning
  /\ p \in scan.todo
  /\ scan' = [scan EXCEPT !.todo = @ \ {p}]
  /\ UNCHANGED <<frameVars, killed, toggles, phase, lastKnown, tick, queue, rowVars>>

ScanEnds ==
  /\ Scanning
  /\ scan.mode \in Modes
  /\ scan.todo = {}
  /\ scan' = NoScan
  /\ UNCHANGED <<frameVars, killed, toggles, phase, lastKnown, tick, queue, rowVars>>

\* A crash loses what the process knows; the second stall of a job fails it.
Crash ==
  /\ phase # "down"
  /\ crashes < MaxCrashes
  /\ crashes' = crashes + 1
  /\ Down
  /\ scan' = IF scan.mode \in Modes /\ scan.stalls = 0
               THEN [scan EXCEPT !.stalls = 1] 
               ELSE IF scan.stalls = 1 THEN scan ELSE NoScan
  /\ UNCHANGED <<faults, killed, toggles, queue, rowVars>>

\* SIGTERM: timers are cleared, the workers' jobs are waited for.
Shutdown ==
  /\ phase = "up"
  /\ scan = NoScan
  /\ crashes < MaxCrashes /\ crashes' = crashes + 1
  /\ Down
  /\ UNCHANGED <<faults, killed, toggles, jobVars, rowVars>>

SchedNext ==
  \/ Toggle \/ StartScheduler \/ StartupScan \/ StartFails
  \/ \E t \in Timer :
       \/ Fire(t) \/ ReadKillSwitch(t) \/ ReadRows(t) \/ AddFails(t)
       \/ \E mode \in Modes : Add(t, mode)
  \/ TakeScan \/ TakeStalled \/ ScanEnds \/ Crash \/ Shutdown
  \/ \E p \in Pool : ScanPool(p) \/ ScanPoolFails(p)

=============================================================================
