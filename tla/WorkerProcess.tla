---------------------------- MODULE WorkerProcess ----------------------------
(***************************************************************************)
(* The worker process as main() starts it (apps/worker/src/index.ts):      *)
(* adapters are registered, the V3 pools are read for at most 30 seconds,  *)
(* the watcher starts if that was enough, then the schedulers.             *)
(***************************************************************************)
EXTENDS V3PoolCache

workerVars == <<schedVars, cacheVars>>

WorkerInit == SchedInit /\ CacheInit

\* The process starts: nothing is known, and rows may have grown old.
Boot ==
  /\ phase = "down"
  /\ phase' = "registering"
  /\ \/ UNCHANGED rowAge
     \/ rowAge' = [p \in Pool |-> Interval]
  /\ UNCHANGED <<faults, killed, toggles, lastKnown, tick, jobVars, built, crashes>>
  /\ UNCHANGED cacheVars

\* registerAdapters returns: what it registers, OpportunityScan uses.
RegisterAdapters ==
  /\ phase = "registering"
  /\ phase' = "reading"
  /\ UNCHANGED <<faults, killed, toggles, lastKnown, tick, jobVars, rowVars, crashes>>
  /\ BeginReads

\* Promise.race is won by the reads: the watcher starts.
ReadsInTime ==
  /\ phase = "reading"
  /\ ReadsDone
  /\ phase' = "scheduling"
  /\ UNCHANGED <<faults, killed, toggles, lastKnown, tick, jobVars, rowVars, crashes>>
  /\ StartWatcher

\* Or by the timer: the worker goes on without a watcher, and the reads too.
ReadsTimeOut ==
  /\ "slow" \in faults
  /\ phase = "reading"
  /\ ~ReadsDone
  /\ phase' = "scheduling"
  /\ UNCHANGED <<faults, killed, toggles, lastKnown, tick, jobVars, rowVars, crashes>>
  /\ UNCHANGED cacheVars

Exits == (phase # "down" /\ phase' = "down")

WorkerNext ==
  \/ Boot \/ RegisterAdapters \/ ReadsInTime \/ ReadsTimeOut
  \/ SchedNext /\ IF Exits THEN Forget ELSE UNCHANGED cacheVars
  \/ CacheNext /\ UNCHANGED schedVars

WorkerSpec == WorkerInit /\ [][WorkerNext]_workerVars

\* main(), each tick of the timer, the scan worker and the watcher go on once
\* the process is started; a supervisor restarts it (WF of Boot).
WorkerFairness ==
  /\ WF_workerVars(\/ RegisterAdapters \/ ReadsInTime
                   \/ (StartScheduler \/ StartupScan) /\ UNCHANGED cacheVars)
  /\ WF_workerVars(CacheNext /\ UNCHANGED schedVars /\ UNCHANGED chainVars)
  /\ \A t \in Timer :
       WF_workerVars((Fire(t) \/ ReadKillSwitch(t) \/ ReadRows(t) \/ \E m \in Modes : Add(t, m))
                       /\ UNCHANGED cacheVars)
  /\ WF_workerVars((TakeScan \/ TakeStalled \/ ScanEnds \/ \E p \in Pool : ScanPool(p))
                     /\ UNCHANGED cacheVars)

-----------------------------------------------------------------------------
(* Properties.                                                             *)

FullScan == scan.mode = "full" \/ \E i \in 1 .. Len(queue) : queue[i] = "full"

\* A paused worker that sees the operation active again scans every pool in
\* full: once a tick has seen the switch set, its being cleared leads to a
\* queued or running full scan, unless it is set again, the process dies or
\* the queue refuses the job ("full scan for guaranteed consistency").
ActivationScans ==
  "add" \notin faults =>
    ((phase = "up" /\ lastKnown /\ ~killed) ~> (killed \/ phase # "up" \/ FullScan))

\* While the operation stays active and pools can be scanned, no row grows
\* old for good: each pool is refreshed again and again, although only the
\* newest row decides whether a scan is due, and after any crash.
RowsStayFresh ==
  ("ticks" \in faults /\ faults \cap {"add", "scan"} = {}) =>
    \A p \in Pool : <>[](~killed) => []<>(rowAge[p] = 0)

=============================================================================
