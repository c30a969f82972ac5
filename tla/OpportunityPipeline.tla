------------------------ MODULE OpportunityPipeline ------------------------
(***************************************************************************)
(* From a detected candidate to its execution:                             *)
(*   apps/worker/src/index.ts                   pool refresh, cleanup      *)
(*   apps/worker/src/jobs/opportunity.job.ts    processOpportunityJob      *)
(*   packages/risk-engine/src/index.ts          evaluate                   *)
(* A worker process scores several jobs at once.  Each awaited database    *)
(* write, Redis command and RPC call is a step; the process may crash and  *)
(* jobs may stall.  What an execution does is ExecutionEngine's subject.   *)
(***************************************************************************)
EXTENDS Integers

CONSTANTS
  Fingerprint,  \* candidates that the scan can find
  MaxOpp,       \* the rows that the table opportunities may get
  Slot,         \* score jobs that the worker processes at once
  NoSlot,       \* nobody holds the job's lock
  NoFp,         \* an idle slot's candidate
  MaxStalls,    \* how often the queue gives a stalled job out again
  PipelineSettings  \* the settings a behaviour may run in

Happenings ==
  { "crash",     \* the worker process dies
    "stall",     \* a living process fails to renew a job's lock
    "slow",      \* scoring a candidate takes more than five minutes
    "evict",     \* a completed score job is removed (removeOnComplete)
    "db",        \* a database command throws
    "redis",     \* a Redis command throws
    "operator" } \* an operator sets and clears kill switches

ASSUME PipelineAssumption ==
  /\ NoSlot \notin Slot
  /\ NoFp \notin Fingerprint
  /\ MaxOpp \in Nat
  /\ MaxStalls \in Nat
  /\ PipelineSettings \subseteq SUBSET Happenings

\* The ids of rows, and an idle slot's row.
Opp == 1 .. MaxOpp
NoOpp == 0

\* The two kill switches that matter to the worker's one chain.
Switch == {"GLOBAL", "CHAIN"}

\* OpportunityState, and "none" where no row exists.
OppState == {"none", "DETECTED", "BLOCKED", "APPROVED", "EXPIRED"}

PC == {"idle", "find", "create", "routes", "killGlobal", "killChain", "rules",
       "block", "approve", "enqueue", "done", "throw"}

VARIABLES
  happens,  \* what may happen, one of PipelineSettings
  kill,     \* kill switches that are set in Redis
  job,      \* each candidate's job in the queue "opportunity-score"
  holder,   \* the slot whose lock is on the job
  stalls,   \* times the job was given out again after a stall
  state,    \* opportunities.state
  fp,       \* opportunities.fingerprint
  old,      \* rows detected more than five minutes ago
  exec,     \* each opportunity's job in the queue "execution"
  at,       \* where each slot stands
  cand,     \* the candidate it scores
  opp,      \* the row it made
  steady    \* switches set since its evaluation began

pipelineVars == <<happens, kill, job, holder, stalls, state, fp, old, exec, at, cand, opp, steady>>
jobVars == <<job, holder, stalls>>
rowVars == <<state, fp, old>>
runVars == <<cand, opp, steady>>

PipelineInit ==
  /\ happens \in PipelineSettings
  /\ kill = {}
  /\ job = [f \in Fingerprint |-> "none"]
  /\ holder = [f \in Fingerprint |-> NoSlot]
  /\ stalls = [f \in Fingerprint |-> 0]
  /\ state = [o \in Opp |-> "none"]
  /\ fp = [o \in Opp |-> NoFp]
  /\ old = {}
  /\ exec = [o \in Opp |-> "none"]
  /\ at = [s \in Slot |-> "idle"]
  /\ cand = [s \in Slot |-> NoFp]
  /\ opp = [s \in Slot |-> NoOpp]
  /\ steady = [s \in Slot |-> {}]

Goto(s, from, to) ==
  /\ at[s] = from
  /\ at' = [at EXCEPT ![s] = to]

Leave(S) ==
  /\ at' = [s \in Slot |-> IF s \in S THEN "idle" ELSE at[s]]
  /\ cand' = [s \in Slot |-> IF s \in S THEN NoFp ELSE cand[s]]
  /\ opp' = [s \in Slot |-> IF s \in S THEN NoOpp ELSE opp[s]]
  /\ steady' = [s \in Slot |-> IF s \in S THEN {} ELSE steady[s]]

-----------------------------------------------------------------------------
(* The queue "opportunity-score"                                           *)

\* A pool refresh found the candidate.  The queue ignores an add under the id
\* of a job that it still knows.
Detect(f) ==
  /\ job[f] = "none"
  /\ job' = [job EXCEPT ![f] = "waiting"]
  /\ UNCHANGED <<happens, kill, holder, stalls, rowVars, exec, at, runVars>>

Evict(f) ==
  /\ "evict" \in happens
  /\ job[f] = "completed"
  /\ job' = [job EXCEPT ![f] = "none"]
  /\ UNCHANGED <<happens, kill, holder, stalls, rowVars, exec, at, runVars>>

Take(s, f) ==
  /\ job[f] = "waiting"
  /\ Goto(s, "idle", "find")
  /\ job' = [job EXCEPT ![f] = "active"]
  /\ holder' = [holder EXCEPT ![f] = s]
  /\ cand' = [cand EXCEPT ![s] = f]
  /\ UNCHANGED <<happens, kill, stalls, rowVars, exec, opp, steady>>

\* The job's lock ran out: its process died, or did not renew it.
Stall(f) ==
  /\ job[f] = "active"
  /\ \/ "stall" \in happens
     \/ ~\E s \in Slot : holder[f] = s /\ cand[s] = f
  /\ holder' = [holder EXCEPT ![f] = NoSlot]
  /\ IF stalls[f] < MaxStalls
     THEN /\ job' = [job EXCEPT ![f] = "waiting"]
          /\ stalls' = [stalls EXCEPT ![f] = @ + 1]
     ELSE /\ job' = [job EXCEPT ![f] = "failed"]
          /\ UNCHANGED stalls
  /\ UNCHANGED <<happens, kill, rowVars, exec, at, runVars>>

\* The processor returned or threw: attempts is 1.
Finish(s) ==
  LET f == cand[s] IN
  /\ at[s] \in {"done", "throw"}
  /\ Leave({s})
  /\ IF holder[f] = s
     THEN /\ job' = [job EXCEPT ![f] = IF at[s] = "done" THEN "completed" ELSE "failed"]
          /\ holder' = [holder EXCEPT ![f] = NoSlot]
     ELSE UNCHANGED <<job, holder>>
  /\ UNCHANGED <<happens, kill, stalls, rowVars, exec>>

-----------------------------------------------------------------------------
(* processOpportunityJob                                                   *)

\* Mutant: the first check is left out.
FindNothing(s) ==
  /\ Goto(s, "find", "create")
  /\ UNCHANGED <<happens, kill, jobVars, rowVars, exec, runVars>>

\* A row of the same fingerprint that is neither expired nor blocked ends the
\* job, and so does an unreasonable spread.
Find(s) ==
  LET existing == {o \in Opp : fp[o] = cand[s] /\ state[o] \notin {"EXPIRED", "BLOCKED"}} IN
  /\ \/ Goto(s, "find", "done")
     \/ existing = {} /\ Goto(s, "find", "create")
  /\ UNCHANGED <<happens, kill, jobVars, rowVars, exec, runVars>>

Create(s) ==
  /\ Goto(s, "create", "routes")
  /\ \E o \in Opp :
       /\ state[o] = "none" /\ \A p \in 1 .. o - 1 : state[p] # "none"
       /\ state' = [state EXCEPT ![o] = "DETECTED"]
       /\ fp' = [fp EXCEPT ![o] = cand[s]]
       /\ opp' = [opp EXCEPT ![s] = o]
  /\ UNCHANGED <<happens, kill, jobVars, old, exec, cand, steady>>

\* The route steps and the gas price; the evaluation begins.
Routes(s) ==
  /\ Goto(s, "routes", "killGlobal")
  /\ steady' = [steady EXCEPT ![s] = kill]
  /\ UNCHANGED <<happens, kill, jobVars, rowVars, exec, cand, opp>>

\* Mutant: only the chain's own switch is looked at.
KillGlobalSkipped(s) ==
  /\ Goto(s, "killGlobal", "killChain")
  /\ UNCHANGED <<happens, kill, jobVars, rowVars, exec, runVars>>

\* checkKillSwitch reads one key after the other.
KillGlobal(s) ==
  /\ Goto(s, "killGlobal", IF "GLOBAL" \in kill THEN "block" ELSE "killChain")
  /\ UNCHANGED <<happens, kill, jobVars, rowVars, exec, runVars>>

KillChain(s) ==
  /\ Goto(s, "killChain", IF "CHAIN" \in kill THEN "block" ELSE "rules")
  /\ UNCHANGED <<happens, kill, jobVars, rowVars, exec, runVars>>

\* The other rules look at the candidate, the limits and the failure counter.
Rules(s) ==
  /\ Goto(s, "rules", "block") \/ Goto(s, "rules", "approve")
  /\ UNCHANGED <<happens, kill, jobVars, rowVars, exec, runVars>>

\* The updates name the row's id and no state it must be in.
Block(s) ==
  /\ Goto(s, "block", "done")
  /\ state' = [state EXCEPT ![opp[s]] = "BLOCKED"]
  /\ UNCHANGED <<happens, kill, jobVars, fp, old, exec, runVars>>

\* Mutant: an approval that is not queued.
ApproveOnly(s) ==
  /\ Goto(s, "approve", "done")
  /\ state' = [state EXCEPT ![opp[s]] = "APPROVED"]
  /\ UNCHANGED <<happens, kill, jobVars, fp, old, exec, runVars>>

Approve(s) ==
  /\ Goto(s, "approve", "enqueue")
  /\ state' = [state EXCEPT ![opp[s]] = "APPROVED"]
  /\ UNCHANGED <<happens, kill, jobVars, fp, old, exec, runVars>>

Enqueue(s) ==
  /\ Goto(s, "enqueue", "done")
  /\ exec' = [exec EXCEPT ![opp[s]] = "waiting"]
  /\ UNCHANGED <<happens, kill, jobVars, rowVars, runVars>>

\* A throw has no effect and fails the job; getGasPrice is caught.
Throws(s) ==
  /\ \/ "db" \in happens /\ at[s] \in {"find", "create", "routes", "rules", "block", "approve"}
     \/ "redis" \in happens /\ at[s] \in {"killGlobal", "killChain", "rules", "enqueue"}
  /\ at' = [at EXCEPT ![s] = "throw"]
  /\ UNCHANGED <<happens, kill, jobVars, rowVars, exec, runVars>>

-----------------------------------------------------------------------------
(* The rest of the worker                                                  *)

\* The execution worker takes the job; it looks at no kill switch.
Execute(o) ==
  /\ exec[o] = "waiting"
  /\ exec' = [exec EXCEPT ![o] = "started"]
  /\ UNCHANGED <<happens, kill, jobVars, rowVars, at, runVars>>

\* Five minutes pass; scoring takes seconds unless "slow".
GrowOld(o) ==
  /\ state[o] = "DETECTED" /\ o \notin old
  /\ "slow" \in happens \/ \A s \in Slot : opp[s] # o
  /\ old' = old \cup {o}
  /\ UNCHANGED <<happens, kill, jobVars, state, fp, exec, at, runVars>>

\* Mutants: young rows expire too; the cleanup is forgotten.
CleanupAll ==
  /\ \E o \in Opp : state[o] = "DETECTED"
  /\ state' = [o \in Opp |-> IF state[o] = "DETECTED" THEN "EXPIRED" ELSE state[o]]
  /\ UNCHANGED <<happens, kill, jobVars, fp, old, exec, at, runVars>>

CleanupNothing == FALSE /\ UNCHANGED pipelineVars

\* The cleanup timer.
Cleanup ==
  /\ \E o \in old : state[o] = "DETECTED"
  /\ state' = [o \in Opp |-> IF o \in old /\ state[o] = "DETECTED" THEN "EXPIRED" ELSE state[o]]
  /\ UNCHANGED <<happens, kill, jobVars, fp, old, exec, at, runVars>>

\* setKillSwitch of the API, or a report of failed transactions.
SetKill(k) ==
  /\ "operator" \in happens
  /\ kill' = kill \cup {k}
  /\ UNCHANGED <<happens, jobVars, rowVars, exec, at, runVars>>

ClearKill(k) ==
  /\ "operator" \in happens
  /\ kill' = kill \ {k}
  /\ steady' = [s \in Slot |-> steady[s] \ {k}]
  /\ UNCHANGED <<happens, jobVars, rowVars, exec, at, cand, opp>>

Crash ==
  /\ "crash" \in happens
  /\ \E s \in Slot : at[s] # "idle"
  /\ Leave(Slot)
  /\ UNCHANGED <<happens, kill, jobVars, rowVars, exec>>

-----------------------------------------------------------------------------
Step(s) ==
  \/ Find(s) \/ Create(s) \/ Routes(s)
  \/ KillGlobal(s) \/ KillChain(s) \/ Rules(s)
  \/ Block(s) \/ Approve(s) \/ Enqueue(s) \/ Finish(s)

PipelineNext ==
  \/ \E s \in Slot : Step(s) \/ Throws(s)
  \/ \E s \in Slot, f \in Fingerprint : Take(s, f)
  \/ \E f \in Fingerprint : Detect(f) \/ Evict(f) \/ Stall(f)
  \/ \E o \in Opp : Execute(o) \/ GrowOld(o)
  \/ \E k \in Switch : SetKill(k) \/ ClearKill(k)
  \/ Cleanup
  \/ Crash

PipelineSpec == PipelineInit /\ [][PipelineNext]_pipelineVars

\* Jobs are taken and go on while the process lives, the queue notices lost
\* locks, queued executions start, and the cleanup timer keeps firing.
PipelineFairness ==
  /\ \A s \in Slot : WF_pipelineVars(Step(s)) /\ WF_pipelineVars(\E f \in Fingerprint : Take(s, f))
  /\ \A f \in Fingerprint : WF_pipelineVars(Stall(f))
  /\ \A o \in Opp : WF_pipelineVars(Execute(o)) /\ WF_pipelineVars(GrowOld(o))
  /\ WF_pipelineVars(Cleanup)

-----------------------------------------------------------------------------
(* Properties                                                              *)

\* Every variable has its type; a row that exists has a fingerprint.
PipelineTypeOK ==
  /\ happens \in PipelineSettings
  /\ kill \subseteq Switch
  /\ job \in [Fingerprint -> {"none", "waiting", "active", "completed", "failed"}]
  /\ holder \in [Fingerprint -> Slot \cup {NoSlot}]
  /\ stalls \in [Fingerprint -> 0 .. MaxStalls]
  /\ state \in [Opp -> OppState]
  /\ fp \in [Opp -> Fingerprint \cup {NoFp}]
  /\ \A o \in Opp : state[o] = "none" <=> fp[o] = NoFp
  /\ old \subseteq Opp
  /\ exec \in [Opp -> {"none", "waiting", "started"}]
  /\ at \in [Slot -> PC]
  /\ cand \in [Slot -> Fingerprint \cup {NoFp}]
  /\ opp \in [Slot -> Opp \cup {NoOpp}]
  /\ steady \in [Slot -> SUBSET Switch]

\* A candidate is queued for execution at most once, however often it is
\* detected and its job given out again: the job's id and the first check of
\* processOpportunityJob keep twins out while no living process stalls.
QueuedOnce ==
  "stall" \notin happens =>
    \A o, p \in Opp :
      exec[o] # "none" /\ exec[p] # "none" /\ fp[o] = fp[p] => o = p

\* No opportunity is approved under a kill switch that was set during its whole
\* evaluation (checkKillSwitch).
KillBlocksApproval == \A s \in Slot : at[s] = "approve" => steady[s] = {}

\* While scoring takes less than five minutes, the cleanup takes no row away
\* from a job that scores it: an expired row stays expired.
ExpiredStays ==
  [][\A o \in Opp : "slow" \notin happens /\ state[o] = "EXPIRED"
       => state'[o] = "EXPIRED"]_pipelineVars

\* The row is not, or no longer, at its evaluation, and if it is approved its
\* execution has started, unless a crash or a Redis error may come between the
\* update and the add to the queue.
Resolved(o) ==
  /\ state[o] # "DETECTED"
  /\ state[o] = "APPROVED" /\ happens \cap {"crash", "redis"} = {} => exec[o] = "started"

\* No row of a candidate is left behind: none stays DETECTED for ever, after
\* crashes and throws at any point, and what is approved is executed.
RowsResolve == \A o \in Opp : []<>Resolved(o)

\* "This will activate the global kill switch and immediately halt all
\* opportunity detection and execution": no execution starts under it.
KillHaltsExecution ==
  [][\A o \in Opp : exec[o] = "waiting" /\ exec'[o] = "started" => "GLOBAL" \notin kill]_pipelineVars
=============================================================================
