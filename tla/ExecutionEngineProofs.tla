----------------------- MODULE ExecutionEngineProofs -----------------------
(* What ExecutionEngine promises for every set of opportunities, workers    *)
(* and faults, and however often the queue gives a job out again.           *)
EXTENDS ExecutionEngine, TLAPS

-----------------------------------------------------------------------------
(* Types                                                                    *)

\* What is known of the queue's variables: a lock is held on active jobs only,
\* and a job that is not over has attempts left.
JobTypes ==
  /\ job \in [Opp -> {"none", "waiting", "active", "completed", "failed"}]
  /\ holder \in [Opp -> Worker \cup {NoWorker}]
  /\ tries \in [Opp -> 0 .. MaxTries]
  /\ stalls \in [Opp -> 0 .. MaxStalls]
  /\ \A o \in Opp :
       /\ holder[o] # NoWorker => job[o] = "active"
       /\ job[o] \in {"waiting", "active"} => tries[o] < MaxTries

\* What is known of the workers' variables: a running one has an opportunity.
WorkerTypes ==
  /\ at \in [Worker -> PC]
  /\ cur \in [Worker -> Opp \cup {NoOpp}]
  /\ leg \in [Worker -> Leg]
  /\ why \in [Worker -> FailureCode]
  /\ \A w \in Worker : at[w] # "idle" => cur[w] \in Opp

\* The inductive strengthening of TypeOK.
TypeInv == TypeOK /\ JobTypes /\ WorkerTypes

\* A worker that leaves its run is idle, and its variables keep their types.
LEMMA LeaveStep ==
  ASSUME WorkerTypes, NEW w \in Worker, Leave(w)
  PROVE  WorkerTypes'
<1>1. /\ at' \in [Worker -> PC] /\ leg' \in [Worker -> Leg]
      /\ cur' \in [Worker -> Opp \cup {NoOpp}] /\ why' \in [Worker -> FailureCode]
  BY DEF WorkerTypes, Leave, PC, Leg, FailureCode
<1>2. \A v \in Worker : at'[v] # "idle" => cur'[v] \in Opp
  BY DEF WorkerTypes, Leave
<1> QED
  BY <1>1, <1>2 DEF WorkerTypes

\* A failed attempt leaves a consistent queue, and attempts within MaxTries.
LEMMA JobFailsStep ==
  ASSUME JobTypes, NEW w \in Worker, cur[w] \in Opp, JobFails(w), UNCHANGED stalls
  PROVE  JobTypes'
<1>1. CASE holder[cur[w]] = w
  <2> DEFINE p == cur[w]
  <2>1. job[p] = "active" /\ tries[p] + 1 \in 0 .. MaxTries
    BY <1>1, ExecutionAssumption DEF JobTypes
  <2>2. /\ job' = [job EXCEPT ![p] = IF tries[p] + 1 < MaxTries THEN "waiting" ELSE "failed"]
        /\ holder' = [holder EXCEPT ![p] = NoWorker]
        /\ tries' = [tries EXCEPT ![p] = tries[p] + 1]
    BY <1>1 DEF JobFails, JobTypes
  <2> HIDE DEF p
  <2>3. /\ job' \in [Opp -> {"none", "waiting", "active", "completed", "failed"}]
        /\ holder' \in [Opp -> Worker \cup {NoWorker}]
        /\ tries' \in [Opp -> 0 .. MaxTries]
    BY <2>1, <2>2 DEF JobTypes
  <2>4. \A o \in Opp : /\ holder'[o] # NoWorker => job'[o] = "active"
                       /\ job'[o] \in {"waiting", "active"} => tries'[o] < MaxTries
    BY <2>2, <2>3 DEF JobTypes
  <2> QED
    BY <2>3, <2>4 DEF JobTypes
<1>2. CASE holder[cur[w]] # w
  BY <1>2 DEF JobFails, JobTypes
<1> QED
  BY <1>1, <1>2

\* Every step keeps the types.
LEMMA TypeStep == ASSUME TypeInv, [Next]_vars PROVE TypeInv'
<1> USE ExecutionAssumption
    DEF TypeInv, TypeOK, JobTypes, WorkerTypes, PC, FailureCode, EarlyCode,
        Goto, SetRow, FailWith, jobVars, dbVars, chainVars, runVars
<1>1. ASSUME NEW w \in Worker, ResolveWallet(w) PROVE TypeInv'
  BY <1>1 DEF ResolveWallet
<1>2. ASSUME NEW w \in Worker, Abort(w) PROVE TypeInv'
  <2>1. at[w] # "idle" /\ cur[w] \in Opp /\ Leave(w)
    BY <1>2 DEF Abort
  <2>2. WorkerTypes'
    <3> HIDE DEF TypeOK, JobTypes, WorkerTypes
    <3> QED
      BY <2>1, LeaveStep
  <2>3. JobTypes'
    <3> HIDE DEF TypeOK, JobTypes, WorkerTypes
    <3> QED
      BY <1>2, <2>1, JobFailsStep DEF Abort
  <2> QED
    BY <1>2, <2>2, <2>3 DEF Abort
<1>3. ASSUME NEW w \in Worker, Reject(w) PROVE TypeInv'
  <2>1. at[w] # "idle" /\ cur[w] \in Opp /\ Leave(w)
    BY <1>3 DEF Reject
  <2>2. WorkerTypes'
    <3> HIDE DEF TypeOK, JobTypes, WorkerTypes
    <3> QED
      BY <2>1, LeaveStep
  <2>3. JobTypes'
    <3> HIDE DEF TypeOK, JobTypes, WorkerTypes
    <3> QED
      BY <1>3, <2>1, JobFailsStep DEF Reject
  <2> QED
    BY <1>3, <2>2, <2>3 DEF Reject
<1>4. ASSUME NEW w \in Worker, Finish(w) PROVE TypeInv'
  <2>1. at[w] # "idle" /\ cur[w] \in Opp /\ Leave(w)
    BY <1>4 DEF Finish
  <2>2. WorkerTypes'
    <3> HIDE DEF TypeOK, JobTypes, WorkerTypes
    <3> QED
      BY <2>1, LeaveStep
  <2>3. JobTypes'
    <3> HIDE DEF TypeOK, WorkerTypes
    <3>1. CASE holder[cur[w]] = w
      <4>1. /\ job' = [job EXCEPT ![cur[w]] = "completed"]
            /\ holder' = [holder EXCEPT ![cur[w]] = NoWorker]
            /\ UNCHANGED <<tries, stalls>>
        BY <1>4, <3>1 DEF Finish
      <4> QED
        BY <2>1, <4>1
    <3>2. CASE holder[cur[w]] # w
      BY <1>4, <3>2 DEF Finish
    <3> QED
      BY <3>1, <3>2
  <2> QED
    BY <1>4, <2>2, <2>3 DEF Finish
<1>5. ASSUME NEW w \in Worker, CreateRecord(w) PROVE TypeInv'
  <2>1. WorkerTypes'
    <3> HIDE DEF TypeOK, JobTypes
    <3> QED
      BY <1>5 DEF CreateRecord
  <2>2. row' \in [Opp -> RowState]
    BY <1>5, SMTT(20) DEF CreateRecord, RowState
  <2> QED
    BY <1>5, <2>1, <2>2 DEF CreateRecord
<1>6. ASSUME NEW w \in Worker, Dedup(w) PROVE TypeInv'
  <2>1. WorkerTypes'
    <3> HIDE DEF TypeOK, JobTypes
    <3> QED
      BY <1>6 DEF Dedup
  <2>2. dedup' \in SUBSET Fingerprint
    BY <1>6 DEF Dedup
  <2> QED
    BY <1>6, <2>1, <2>2 DEF Dedup
<1>7. ASSUME NEW w \in Worker, Signing(w) PROVE TypeInv'
  BY <1>7 DEF Signing, RowState
<1>8. ASSUME NEW w \in Worker, Approve(w) PROVE TypeInv'
  BY <1>8 DEF Approve
<1>9. ASSUME NEW w \in Worker, Simulating(w) PROVE TypeInv'
  BY <1>9 DEF Simulating, RowState
<1>10. ASSUME NEW w \in Worker, Simulate(w) PROVE TypeInv'
  <2>1. WorkerTypes'
    <3> HIDE DEF TypeOK, JobTypes
    <3> QED
      BY <1>10 DEF Simulate
  <2> QED
    BY <1>10, <2>1 DEF Simulate
<1>11. ASSUME NEW w \in Worker, Submit(w) PROVE TypeInv'
  BY <1>11 DEF Submit, RowState
<1>12. ASSUME NEW w \in Worker, AcquireNonce(w) PROVE TypeInv'
  BY <1>12 DEF AcquireNonce
<1>13. ASSUME NEW w \in Worker, Send(w) PROVE TypeInv'
  <2>1. WorkerTypes'
    <3> HIDE DEF TypeOK, JobTypes
    <3> QED
      BY <1>13 DEF Send
  <2>2. CASE UNCHANGED chainVars
    BY <1>13, <2>1, <2>2 DEF Send
  <2>3. CASE Broadcast(w)
    <3>1. sends' \in [Opp -> [Leg -> Nat]]
      <4>1. cur[w] \in Opp /\ leg[w] \in Leg
        BY <1>13 DEF Send
      <4>2. [sends[cur[w]] EXCEPT ![leg[w]] = sends[cur[w]][leg[w]] + 1] \in [Leg -> Nat]
        BY <4>1
      <4> QED
        BY <2>3, <4>1, <4>2 DEF Broadcast
    <3>2. tx' \in [Opp -> [Leg -> {"unsent", "pending", "landed", "reverted"}]]
      BY <2>3 DEF Broadcast
    <3> QED
      BY <1>13, <2>1, <3>1, <3>2 DEF Send
  <2> QED
    BY <1>13, <2>2, <2>3 DEF Send
<1>14. ASSUME NEW w \in Worker, RecordTx(w) PROVE TypeInv'
  BY <1>14, ZenonT(40) DEF RecordTx, Leg
<1>15. ASSUME NEW w \in Worker, Confirm(w) PROVE TypeInv'
  BY <1>15 DEF Confirm, RowState
<1>16. ASSUME NEW w \in Worker, WaitReceipt(w) PROVE TypeInv'
  <2>1. WorkerTypes'
    <3> HIDE DEF TypeOK, JobTypes
    <3>1. at' \in [Worker -> PC]
      BY <1>16 DEF WaitReceipt
    <3>2. why' \in [Worker -> FailureCode]
      BY <1>16 DEF WaitReceipt
    <3>3. leg' \in [Worker -> Leg]
      BY <1>16 DEF WaitReceipt, Leg
    <3>4. \A v \in Worker : at'[v] # "idle" => cur'[v] \in Opp
      BY <1>16 DEF WaitReceipt
    <3> QED
      BY <1>16, <3>1, <3>2, <3>3, <3>4 DEF WaitReceipt
  <2> QED
    BY <1>16, <2>1 DEF WaitReceipt
<1>17. ASSUME NEW w \in Worker, MockRows(w) PROVE TypeInv'
  BY <1>17 DEF MockRows, Leg
<1>18. ASSUME NEW w \in Worker, Land(w) PROVE TypeInv'
  BY <1>18 DEF Land, RowState
<1>19. ASSUME NEW w \in Worker, RecordPnl(w) PROVE TypeInv'
  BY <1>19 DEF RecordPnl
<1>20. ASSUME NEW w \in Worker, MarkFailed(w) PROVE TypeInv'
  BY <1>20 DEF MarkFailed, Fail, RowState
<1>21. ASSUME NEW w \in Worker, SubmissionFailed(w) PROVE TypeInv'
  BY <1>21 DEF SubmissionFailed, Fail, RowState
<1>22. ASSUME NEW w \in Worker, Catch(w) PROVE TypeInv'
  BY <1>22 DEF Catch, Fail, RowState
<1>23. ASSUME NEW w \in Worker, Throws(w) PROVE TypeInv'
  BY <1>23 DEF Throws, FaultAt, CaughtAt
<1>24. ASSUME NEW w \in Worker, Crash(w) PROVE TypeInv'
  BY <1>24, LeaveStep DEF Crash
<1>25. ASSUME NEW w \in Worker, NEW o \in Opp, Take(w, o) PROVE TypeInv'
  <2>1. JobTypes'
    BY <1>25 DEF Take
  <2>2. WorkerTypes'
    <3> HIDE DEF TypeOK, JobTypes
    <3> QED
      BY <1>25 DEF Take
  <2> QED
    BY <1>25, <2>1, <2>2 DEF Take
<1>26. ASSUME NEW o \in Opp, Stall(o) PROVE TypeInv'
  <2>1. JobTypes'
    <3>1. CASE stalls[o] < MaxStalls
      <4>1. /\ job' = [job EXCEPT ![o] = "waiting"]
            /\ holder' = [holder EXCEPT ![o] = NoWorker]
            /\ stalls' = [stalls EXCEPT ![o] = stalls[o] + 1]
            /\ tries' = tries /\ job[o] = "active"
        BY <1>26, <3>1 DEF Stall
      <4>2. stalls' \in [Opp -> 0 .. MaxStalls]
        BY <3>1, <4>1
      <4>3. /\ job' \in [Opp -> {"none", "waiting", "active", "completed", "failed"}]
            /\ holder' \in [Opp -> Worker \cup {NoWorker}]
        BY <4>1
      <4> QED
        BY <4>1, <4>2, <4>3
    <3>2. CASE ~(stalls[o] < MaxStalls)
      BY <1>26, <3>2 DEF Stall
    <3> QED
      BY <3>1, <3>2
  <2> QED
    BY <1>26, <2>1 DEF Stall
<1>27. ASSUME NEW o \in Opp, NEW l \in Leg, Mine(o, l) PROVE TypeInv'
  BY <1>27 DEF Mine, Leg
<1>28. ASSUME NEW fp \in Fingerprint, DedupExpires(fp) PROVE TypeInv'
  BY <1>28 DEF DedupExpires
<1>29. CASE UNCHANGED vars
  BY <1>29 DEF vars
<1> QED
  BY <1>1, <1>2, <1>3, <1>4, <1>5, <1>6, <1>7, <1>8, <1>9, <1>10, <1>11, <1>12, <1>13, <1>14, <1>15, <1>16, <1>17, <1>18, <1>19, <1>20, <1>21, <1>22, <1>23, <1>24, <1>25, <1>26, <1>27, <1>28, <1>29 DEF Next, Step

\* The variables of ExecutionEngine keep their types under every fault.
THEOREM TypeCorrect == Spec => []TypeOK
<1>1. Init => TypeInv
  BY ExecutionAssumption
     DEF Init, TypeInv, TypeOK, JobTypes, WorkerTypes, PC, RowState, FailureCode, EarlyCode, Leg
<1>2. TypeInv => TypeOK
  BY DEF TypeInv
<1> QED
  BY <1>1, <1>2, TypeStep, PTL DEF Spec

-----------------------------------------------------------------------------
(* Who touches what                                                         *)

\* The points of execute at which w has created the row of its opportunity.
Owning == {"dedup", "signing", "approve", "simulating", "simulate", "submit",
           "nonce", "send", "record", "confirm", "wait", "mockRows", "land",
           "pnl", "fail", "failThrow", "catch", "done"}

Owns(w) == at[w] \in Owning

\* A step of w leaves the other workers alone, changes data only of the
\* opportunity whose row it created or creates, and never deletes a row.
Frame(w) ==
  /\ cur[w] \in Opp /\ setting' = setting
  /\ \A v \in Worker \ {w} : at'[v] = at[v] /\ cur'[v] = cur[v] /\ leg'[v] = leg[v]
  /\ \A o \in Opp \ {cur[w]} :
       row'[o] = row[o] /\ txRows'[o] = txRows[o] /\ tx'[o] = tx[o] /\ sends'[o] = sends[o]
  /\ \/ row' = row /\ txRows' = txRows /\ tx' = tx /\ sends' = sends
     \/ Owns(w) \/ row[cur[w]] = "none"
  /\ row[cur[w]] # "none" => row'[cur[w]] # "none"
  /\ at'[w] \in Owning =>
       /\ cur'[w] = cur[w]
       /\ Owns(w) \/ (row[cur[w]] = "none" /\ row'[cur[w]] # "none")

LEMMA FrameStep ==
  ASSUME TypeInv, NEW w \in Worker, Step(w) \/ Throws(w) \/ Crash(w)
  PROVE  Frame(w)
<1> USE ExecutionAssumption
    DEF TypeInv, TypeOK, WorkerTypes, Frame, Owns, Owning, Goto, SetRow, Leave,
        FailWith, Fail, Broadcast, FaultAt, CaughtAt, dbVars, chainVars, runVars
<1>1. ASSUME ResolveWallet(w) PROVE Frame(w)
  BY <1>1 DEF ResolveWallet
<1>2. ASSUME Abort(w) PROVE Frame(w)
  BY <1>2 DEF Abort
<1>3. ASSUME Reject(w) PROVE Frame(w)
  BY <1>3 DEF Reject
<1>4. ASSUME Finish(w) PROVE Frame(w)
  BY <1>4 DEF Finish
<1>5. ASSUME CreateRecord(w) PROVE Frame(w)
  BY <1>5 DEF CreateRecord
<1>6. ASSUME Dedup(w) PROVE Frame(w)
  BY <1>6 DEF Dedup
<1>7. ASSUME Signing(w) PROVE Frame(w)
  BY <1>7 DEF Signing
<1>8. ASSUME Approve(w) PROVE Frame(w)
  BY <1>8 DEF Approve
<1>9. ASSUME Simulating(w) PROVE Frame(w)
  BY <1>9 DEF Simulating
<1>10. ASSUME Simulate(w) PROVE Frame(w)
  BY <1>10 DEF Simulate
<1>11. ASSUME Submit(w) PROVE Frame(w)
  BY <1>11 DEF Submit
<1>12. ASSUME AcquireNonce(w) PROVE Frame(w)
  BY <1>12 DEF AcquireNonce
<1>13. ASSUME Send(w) PROVE Frame(w)
  BY <1>13 DEF Send
<1>14. ASSUME RecordTx(w) PROVE Frame(w)
  BY <1>14 DEF RecordTx
<1>15. ASSUME Confirm(w) PROVE Frame(w)
  BY <1>15 DEF Confirm
<1>16. ASSUME WaitReceipt(w) PROVE Frame(w)
  BY <1>16 DEF WaitReceipt
<1>17. ASSUME MockRows(w) PROVE Frame(w)
  BY <1>17 DEF MockRows
<1>18. ASSUME Land(w) PROVE Frame(w)
  BY <1>18 DEF Land
<1>19. ASSUME RecordPnl(w) PROVE Frame(w)
  BY <1>19 DEF RecordPnl
<1>20. ASSUME MarkFailed(w) PROVE Frame(w)
  BY <1>20 DEF MarkFailed
<1>21. ASSUME SubmissionFailed(w) PROVE Frame(w)
  BY <1>21 DEF SubmissionFailed
<1>22. ASSUME Catch(w) PROVE Frame(w)
  BY <1>22 DEF Catch
<1>23. ASSUME Throws(w) PROVE Frame(w)
  BY <1>23 DEF Throws
<1>24. ASSUME Crash(w) PROVE Frame(w)
  BY <1>24 DEF Crash
<1> QED
  BY <1>1, <1>2, <1>3, <1>4, <1>5, <1>6, <1>7, <1>8, <1>9, <1>10, <1>11, <1>12, <1>13, <1>14, <1>15, <1>16, <1>17, <1>18, <1>19, <1>20, <1>21, <1>22, <1>23, <1>24 DEF Step

\* Two workers never both execute an opportunity past the creation of its row.
OneOwner ==
  \A w \in Worker : Owns(w) =>
    /\ row[cur[w]] # "none"
    /\ \A v \in Worker : Owns(v) /\ cur[v] = cur[w] => v = w

\* The queue, the chain, Redis and a stutter move no worker that owns a row.
Quiet ==
  /\ setting' = setting /\ row' = row /\ txRows' = txRows /\ sends' = sends
  /\ \A v \in Worker :
       \/ at'[v] = at[v] /\ cur'[v] = cur[v] /\ leg'[v] = leg[v]
       \/ at[v] = "idle" /\ at'[v] = "wallet" /\ leg'[v] = leg[v]

LEMMA QuietStep ==
  ASSUME TypeInv,
         \/ \E w \in Worker, o \in Opp : Take(w, o)
         \/ \E o \in Opp : Stall(o)
         \/ \E o \in Opp, l \in Leg : Mine(o, l)
         \/ \E fp \in Fingerprint : DedupExpires(fp)
         \/ UNCHANGED vars
  PROVE  Quiet
<1> USE DEF Quiet, TypeInv, WorkerTypes, Goto, dbVars, chainVars, runVars
<1>1. ASSUME NEW w \in Worker, NEW o \in Opp, Take(w, o) PROVE Quiet
  BY <1>1 DEF Take
<1>2. ASSUME NEW o \in Opp, Stall(o) PROVE Quiet
  BY <1>2 DEF Stall
<1>3. ASSUME NEW o \in Opp, NEW l \in Leg, Mine(o, l) PROVE Quiet
  BY <1>3 DEF Mine
<1>4. ASSUME NEW fp \in Fingerprint, DedupExpires(fp) PROVE Quiet
  BY <1>4 DEF DedupExpires
<1>5. CASE UNCHANGED vars
  BY <1>5 DEF vars
<1> QED
  BY <1>1, <1>2, <1>3, <1>4, <1>5

\* A second row for the same opportunity is refused, so its owner stays alone.
LEMMA OneOwnerStep ==
  ASSUME TypeInv, OneOwner, [Next]_vars
  PROVE  OneOwner'
<1>1. ASSUME NEW w \in Worker, Step(w) \/ Throws(w) \/ Crash(w)
      PROVE  OneOwner'
  <2>1. Frame(w)
    BY <1>1, FrameStep
  <2> SUFFICES ASSUME NEW u \in Worker, Owns(u)'
               PROVE  /\ row'[cur'[u]] # "none"
                      /\ \A v \in Worker : Owns(v)' /\ cur'[v] = cur'[u] => v = u
    BY DEF OneOwner
  <2>2. \A v \in Worker : Owns(v)' => cur'[v] = cur[v] /\ cur[v] \in Opp
    <3>1. \A v \in Worker : Owns(v)' /\ v # w => Owns(v)
      BY <2>1 DEF Frame, Owns
    <3>2. \A v \in Worker : Owns(v) => cur[v] \in Opp
      BY DEF TypeInv, WorkerTypes, Owns, Owning
    <3> QED
      BY <2>1, <3>1, <3>2 DEF Frame, Owns
  <2> QED
    BY <2>1, <2>2 DEF Frame, Owns, OneOwner
<1>2. ASSUME Quiet PROVE OneOwner'
  BY <1>2 DEF OneOwner, Quiet, Owns, Owning
<1> QED
  BY <1>1, <1>2, QuietStep DEF Next

-----------------------------------------------------------------------------
(* What an execution knows at each of its points                            *)

Open == {"dedup", "signing", "approve", "simulating", "simulate", "submit",
         "nonce", "send", "record", "confirm", "wait", "mockRows", "land",
         "fail", "failThrow"}

Landed(o) ==
  /\ txRows[o] = Leg
  /\ IF Mock THEN \A l \in Leg : sends[o][l] = 0
             ELSE \A l \in Leg : tx[o][l] = "landed"

\* Before its broadcast a leg is unsent, behind it the leg has its row, the
\* sell leg comes after a landed buy leg, and no verdict is written early.
WorkerInv(w) ==
  /\ Mock => at[w] \notin {"nonce", "send", "record", "confirm", "wait"}
  /\ at[w] = "mockRows" => Mock
  /\ leg[w] = "sell" => Owns(w) \/ at[w] = "rejected"
  /\ Owns(w) /\ leg[w] = "sell" => /\ tx[cur[w]]["buy"] = "landed"
                                   /\ "buy" \in txRows[cur[w]]
  /\ Owns(w) /\ leg[w] = "buy" => sends[cur[w]]["sell"] = 0
  /\ at[w] \in {"dedup", "signing", "approve", "simulating", "simulate", "submit",
                "nonce", "send"} => sends[cur[w]][leg[w]] = 0
  /\ at[w] \in {"confirm", "wait"} => leg[w] \in txRows[cur[w]]
  /\ at[w] \in {"land", "pnl"} => Landed(cur[w])
  /\ at[w] \in Open => row[cur[w]] \notin Verdict
  /\ at[w] = "catch" /\ "db" \notin Faults => row[cur[w]] # "LANDED"

OppInv(o) ==
  /\ row[o] = "none" \/ Mock => \A l \in Leg : sends[o][l] = 0
  /\ \A l \in Leg : sends[o][l] <= 1 /\ (sends[o][l] = 0 <=> tx[o][l] = "unsent")
  /\ sends[o]["sell"] > 0 => tx[o]["buy"] = "landed"
  /\ row[o] = "LANDED" => Landed(o)

Inv ==
  /\ TypeInv
  /\ OneOwner
  /\ \A w \in Worker : WorkerInv(w)
  /\ \A o \in Opp : OppInv(o)

\* A step of w keeps what w knows.
LEMMA WorkerInvStep ==
  ASSUME Inv, NEW w \in Worker, Step(w) \/ Throws(w) \/ Crash(w)
  PROVE  WorkerInv(w)'
<1> USE ExecutionAssumption
    DEF Inv, TypeInv, TypeOK, WorkerTypes, WorkerInv, OppInv, Landed, Owns, Owning, Open, Verdict,
        Goto, SetRow, Leave, FailWith, Fail, Broadcast, FaultAt, CaughtAt, Leg,
        Mock, Faults, dbVars, chainVars, runVars
<1>1. ASSUME ResolveWallet(w) PROVE WorkerInv(w)'
  BY <1>1 DEF ResolveWallet
<1>2. ASSUME Abort(w) PROVE WorkerInv(w)'
  BY <1>2 DEF Abort
<1>3. ASSUME Reject(w) PROVE WorkerInv(w)'
  BY <1>3 DEF Reject
<1>4. ASSUME Finish(w) PROVE WorkerInv(w)'
  BY <1>4 DEF Finish
<1>5. ASSUME CreateRecord(w) PROVE WorkerInv(w)'
  BY <1>5 DEF CreateRecord
<1>6. ASSUME Dedup(w) PROVE WorkerInv(w)'
  BY <1>6 DEF Dedup
<1>7. ASSUME Signing(w) PROVE WorkerInv(w)'
  BY <1>7 DEF Signing
<1>8. ASSUME Approve(w) PROVE WorkerInv(w)'
  BY <1>8 DEF Approve
<1>9. ASSUME Simulating(w) PROVE WorkerInv(w)'
  BY <1>9 DEF Simulating
<1>10. ASSUME Simulate(w) PROVE WorkerInv(w)'
  BY <1>10 DEF Simulate
<1>11. ASSUME Submit(w) PROVE WorkerInv(w)'
  BY <1>11 DEF Submit
<1>12. ASSUME AcquireNonce(w) PROVE WorkerInv(w)'
  BY <1>12 DEF AcquireNonce
<1>13. ASSUME Send(w) PROVE WorkerInv(w)'
  BY <1>13 DEF Send
<1>14. ASSUME RecordTx(w) PROVE WorkerInv(w)'
  BY <1>14 DEF RecordTx
<1>15. ASSUME Confirm(w) PROVE WorkerInv(w)'
  BY <1>15 DEF Confirm
<1>16. ASSUME WaitReceipt(w) PROVE WorkerInv(w)'
  BY <1>16 DEF WaitReceipt
<1>17. ASSUME MockRows(w) PROVE WorkerInv(w)'
  BY <1>17 DEF MockRows
<1>18. ASSUME Land(w) PROVE WorkerInv(w)'
  BY <1>18 DEF Land
<1>19. ASSUME RecordPnl(w) PROVE WorkerInv(w)'
  BY <1>19 DEF RecordPnl
<1>20. ASSUME MarkFailed(w) PROVE WorkerInv(w)'
  BY <1>20 DEF MarkFailed
<1>21. ASSUME SubmissionFailed(w) PROVE WorkerInv(w)'
  BY <1>21 DEF SubmissionFailed
<1>22. ASSUME Catch(w) PROVE WorkerInv(w)'
  BY <1>22 DEF Catch
<1>23. ASSUME Throws(w) PROVE WorkerInv(w)'
  <2>1. /\ at'[w] \in {"failThrow", "catch", "rejected"}
        /\ at'[w] = "failThrow" => at[w] = "record"
        /\ at'[w] = "catch" => at[w] # "catch"
        /\ at[w] \in Open \cup {"pnl", "catch"}
    BY <1>23 DEF Throws
  <2>2. at[w] = "pnl" => "db" \in Faults
    BY <1>23 DEF Throws
  <2>3. UNCHANGED <<setting, row, txRows, tx, sends, cur, leg>>
    BY <1>23 DEF Throws
  <2> QED
    BY <2>1, <2>2, <2>3
<1>24. ASSUME Crash(w) PROVE WorkerInv(w)'
  BY <1>24 DEF Crash
<1> QED
  BY <1>1, <1>2, <1>3, <1>4, <1>5, <1>6, <1>7, <1>8, <1>9, <1>10, <1>11, <1>12, <1>13, <1>14, <1>15, <1>16, <1>17, <1>18, <1>19, <1>20, <1>21, <1>22, <1>23, <1>24 DEF Step

\* A step of w keeps what holds of the opportunity it executes.
LEMMA OppInvStep ==
  ASSUME Inv, NEW w \in Worker, Step(w) \/ Throws(w) \/ Crash(w),
         NEW o \in Opp, o = cur[w]
  PROVE  OppInv(o)'
<1> USE ExecutionAssumption
    DEF Inv, TypeInv, TypeOK, WorkerTypes, WorkerInv, OppInv, Landed, Owns, Owning, Open, Verdict,
        Goto, SetRow, Leave, FailWith, Fail, Broadcast, FaultAt, CaughtAt, Leg,
        Mock, Faults, dbVars, chainVars, runVars
<1>1. ASSUME ResolveWallet(w) PROVE OppInv(o)'
  BY <1>1 DEF ResolveWallet
<1>2. ASSUME Abort(w) PROVE OppInv(o)'
  BY <1>2 DEF Abort
<1>3. ASSUME Reject(w) PROVE OppInv(o)'
  BY <1>3 DEF Reject
<1>4. ASSUME Finish(w) PROVE OppInv(o)'
  BY <1>4 DEF Finish
<1>5. ASSUME CreateRecord(w) PROVE OppInv(o)'
  BY <1>5 DEF CreateRecord
<1>6. ASSUME Dedup(w) PROVE OppInv(o)'
  BY <1>6 DEF Dedup
<1>7. ASSUME Signing(w) PROVE OppInv(o)'
  BY <1>7 DEF Signing
<1>8. ASSUME Approve(w) PROVE OppInv(o)'
  BY <1>8 DEF Approve
<1>9. ASSUME Simulating(w) PROVE OppInv(o)'
  BY <1>9 DEF Simulating
<1>10. ASSUME Simulate(w) PROVE OppInv(o)'
  BY <1>10 DEF Simulate
<1>11. ASSUME Submit(w) PROVE OppInv(o)'
  BY <1>11 DEF Submit
<1>12. ASSUME AcquireNonce(w) PROVE OppInv(o)'
  BY <1>12 DEF AcquireNonce
<1>13. ASSUME Send(w) PROVE OppInv(o)'
  <2>1. CASE UNCHANGED chainVars
    BY <1>13, <2>1 DEF Send
  <2>2. CASE Broadcast(w)
    <3>1. /\ tx' = [tx EXCEPT ![o] = [tx[o] EXCEPT ![leg[w]] = "pending"]]
          /\ sends' = [sends EXCEPT ![o] = [sends[o] EXCEPT ![leg[w]] = sends[o][leg[w]] + 1]]
      BY <2>2
    <3>2. sends[o][leg[w]] = 0 /\ row[o] # "LANDED" /\ row[o] # "none" /\ ~Mock /\ row' = row
      BY <1>13 DEF Send, OneOwner
    <3>3. \A l \in Leg : sends'[o][l] <= 1 /\ (sends'[o][l] = 0 <=> tx'[o][l] = "unsent")
      BY <3>1, <3>2
    <3>4. CASE leg[w] = "buy"
      <4>1. sends'[o]["sell"] = 0
        BY <3>1, <3>4, <1>13 DEF Send
      <4>2. /\ ~Mock' /\ row'[o] = row[o] /\ row'[o] # "none" /\ row'[o] # "LANDED"
        BY <3>2, <1>13 DEF Send
      <4> HIDE DEF Landed, Mock
      <4> QED
        BY <3>3, <4>1, <4>2
    <3>5. CASE leg[w] = "sell"
      <4>1. tx'[o]["buy"] = "landed"
        BY <3>1, <3>5, <1>13 DEF Send
      <4>2. /\ ~Mock' /\ row'[o] = row[o] /\ row'[o] # "none" /\ row'[o] # "LANDED"
        BY <3>2, <1>13 DEF Send
      <4> HIDE DEF Landed, Mock
      <4> QED
        BY <3>3, <4>1, <4>2
    <3> QED
      BY <3>4, <3>5
  <2> QED
    BY <1>13, <2>1, <2>2 DEF Send
<1>14. ASSUME RecordTx(w) PROVE OppInv(o)'
  BY <1>14 DEF RecordTx
<1>15. ASSUME Confirm(w) PROVE OppInv(o)'
  BY <1>15 DEF Confirm
<1>16. ASSUME WaitReceipt(w) PROVE OppInv(o)'
  BY <1>16 DEF WaitReceipt
<1>17. ASSUME MockRows(w) PROVE OppInv(o)'
  BY <1>17 DEF MockRows
<1>18. ASSUME Land(w) PROVE OppInv(o)'
  BY <1>18 DEF Land
<1>19. ASSUME RecordPnl(w) PROVE OppInv(o)'
  BY <1>19 DEF RecordPnl
<1>20. ASSUME MarkFailed(w) PROVE OppInv(o)'
  BY <1>20 DEF MarkFailed
<1>21. ASSUME SubmissionFailed(w) PROVE OppInv(o)'
  BY <1>21 DEF SubmissionFailed
<1>22. ASSUME Catch(w) PROVE OppInv(o)'
  BY <1>22 DEF Catch
<1>23. ASSUME Throws(w) PROVE OppInv(o)'
  BY <1>23 DEF Throws
<1>24. ASSUME Crash(w) PROVE OppInv(o)'
  BY <1>24 DEF Crash
<1> QED
  BY <1>1, <1>2, <1>3, <1>4, <1>5, <1>6, <1>7, <1>8, <1>9, <1>10, <1>11, <1>12, <1>13, <1>14, <1>15, <1>16, <1>17, <1>18, <1>19, <1>20, <1>21, <1>22, <1>23, <1>24 DEF Step

LEMMA InvStep == ASSUME Inv, [Next]_vars PROVE Inv'
<1>1. TypeInv' /\ OneOwner'
  BY TypeStep, OneOwnerStep DEF Inv
<1>2. ASSUME NEW w \in Worker, Step(w) \/ Throws(w) \/ Crash(w)
      PROVE  Inv'
  <2>1. Frame(w)
    BY <1>2, FrameStep DEF Inv
  <2>2. \A o \in Opp \ {cur[w]} : OppInv(o)'
    BY <2>1 DEF Inv, Frame, OppInv, Landed, Mock
  <2>3. OppInv(cur[w])
    BY <2>1 DEF Inv, Frame
  <2>4. \A v \in Worker \ {w} : WorkerInv(v)'
    <3> SUFFICES ASSUME NEW v \in Worker \ {w}
                 PROVE  WorkerInv(v)'
      OBVIOUS
    <3>1. at'[v] = at[v] /\ cur'[v] = cur[v] /\ leg'[v] = leg[v] /\ WorkerInv(v)
      BY <2>1 DEF Frame, Inv
    <3>2. CASE ~Owns(v)
      BY <2>1, <3>1, <3>2 DEF Frame, WorkerInv, Owns, Owning, Open, Mock, Faults
    <3>3. CASE Owns(v)
      <4>1. cur[v] \in Opp
        BY <3>3 DEF Inv, TypeInv, WorkerTypes, Owns, Owning
      <4>2. UNCHANGED <<row[cur[v]], txRows[cur[v]], tx[cur[v]], sends[cur[v]]>>
        BY <2>1, <3>3, <4>1 DEF Frame, Inv, OneOwner
      <4> QED
        BY <2>1, <3>1, <4>1, <4>2 DEF Frame, WorkerInv, Owns, Landed, Mock, Faults
    <3> QED
      BY <3>2, <3>3
  <2>5. \A o \in Opp : OppInv(o)'
    BY <1>2, <2>2, OppInvStep
  <2> QED
    BY <1>1, <1>2, <2>4, <2>5, WorkerInvStep DEF Inv
<1>3. ASSUME Quiet, UNCHANGED tx PROVE Inv'
  <2>1. \A o \in Opp : OppInv(o)'
    BY <1>3 DEF Inv, Quiet, OppInv, Landed, Mock
  <2>2. \A w \in Worker : WorkerInv(w)'
    BY <1>3 DEF Inv, Quiet, WorkerInv, Owns, Owning, Open, Landed, Mock, Faults
  <2> QED
    BY <1>1, <2>1, <2>2 DEF Inv
<1>4. ASSUME NEW o \in Opp, NEW l \in Leg, Mine(o, l) PROVE Inv'
  <2>1. /\ UNCHANGED <<setting, row, txRows, sends, at, cur, leg>>
        /\ \A p \in Opp, k \in Leg : /\ tx[p][k] # "pending" => tx'[p][k] = tx[p][k]
                                     /\ tx[p][k] = "pending" => tx'[p][k] # "unsent"
    BY <1>4 DEF Mine, Inv, TypeInv, TypeOK, dbVars, runVars
  <2>2. \A p \in Opp : OppInv(p)'
    BY <2>1 DEF Inv, OppInv, Landed, Leg, Mock
  <2>3. \A w \in Worker : WorkerInv(w)'
    BY <2>1 DEF Inv, TypeInv, WorkerTypes, WorkerInv, Owns, Owning, Landed, Leg, Mock, Faults
  <2> QED
    BY <1>1, <2>2, <2>3 DEF Inv
<1>5. ASSUME \/ \E w \in Worker, o \in Opp : Take(w, o)
             \/ \E o \in Opp : Stall(o)
             \/ \E fp \in Fingerprint : DedupExpires(fp)
             \/ UNCHANGED vars
      PROVE  UNCHANGED tx
  BY <1>5 DEF Take, Stall, DedupExpires, vars, chainVars
<1> QED
  BY <1>2, <1>3, <1>4, <1>5, QuietStep DEF Next, Inv

LEMMA InvInit == Init => Inv
<1> SUFFICES ASSUME Init PROVE Inv
  OBVIOUS
<1>1. TypeInv
  BY ExecutionAssumption
     DEF Init, TypeInv, TypeOK, JobTypes, WorkerTypes, PC, RowState, FailureCode, EarlyCode, Leg
<1>2. OneOwner
  BY DEF Init, OneOwner, Owns, Owning
<1>3. \A w \in Worker : WorkerInv(w)
  BY DEF Init, WorkerInv, Owns, Owning, Open
<1>4. \A o \in Opp : OppInv(o)
  BY DEF Init, OppInv, Leg
<1> QED
  BY <1>1, <1>2, <1>3, <1>4 DEF Inv

LEMMA Invariance == Spec => []Inv
  BY InvInit, InvStep, PTL DEF Spec

-----------------------------------------------------------------------------
(* The safety properties                                                    *)

\* No leg of an opportunity is ever broadcast twice, whatever the queue, the
\* processes and the calls of execute do.
THEOREM EachLegOnce == Spec => []SubmittedOnce
<1>1. Inv => SubmittedOnce
  BY DEF Inv, OppInv, SubmittedOnce
<1> QED
  BY <1>1, Invariance, PTL

\* The sell leg is broadcast only behind a landed buy leg (execute, step 12).
THEOREM SellsWhatWasBought == Spec => []SellAfterBuy
<1>1. Inv => SellAfterBuy
  BY DEF Inv, OppInv, SellAfterBuy
<1> QED
  BY <1>1, Invariance, PTL

\* A row that says LANDED tells the truth about the chain and about its
\* transaction rows, in mock mode and outside it (execute, steps 5 and 14).
THEOREM LandedIsTrue == Spec => []LandedMeansLanded
<1>1. Inv => LandedMeansLanded
  BY DEF Inv, OppInv, Landed, LandedMeansLanded
<1> QED
  BY <1>1, Invariance, PTL

\* The order of a trade, in whole: each leg once, the sale behind the purchase,
\* LANDED behind both (TradeInOrder).
THEOREM TradesInOrder == Spec => []TradeInOrder
<1>1. SubmittedOnce /\ SellAfterBuy /\ LandedMeansLanded => TradeInOrder
  BY DEF TradeInOrder
<1> QED
  BY <1>1, EachLegOnce, SellsWhatWasBought, LandedIsTrue, PTL

-----------------------------------------------------------------------------
(* The verdict                                                              *)

Act(w) == Step(w) \/ Throws(w) \/ Crash(w)

\* What a worker's step does to the row, the chain and the broadcasts of the
\* opportunity it executes, seen from the outside.
RowKept == UNCHANGED <<row, tx, sends>>

RowMovesTo(w, s) ==
  /\ at[w] \in Open \cup {"create", "catch"}
  /\ UNCHANGED <<tx, sends>>
  /\ row' = [row EXCEPT ![cur[w]] = s]
  /\ at[w] = "create" => row[cur[w]] = "none" /\ s = "PENDING"
  /\ at[w] = "catch" => s = "FAILED"
  /\ s = "LANDED" => at[w] = "land"

RowMoves(w) == \E s \in RowState \ {"none"} : RowMovesTo(w, s)

Sends(w) == Send(w) /\ Broadcast(w) /\ row' = row

LEMMA WhatMoves ==
  ASSUME TypeInv, NEW w \in Worker, Act(w)
  PROVE  RowKept \/ RowMoves(w) \/ Sends(w)
<1> USE DEF Act, RowKept, RowMoves, RowMovesTo, Sends, Open, RowState, Goto, SetRow, Fail, FailWith,
            dbVars, chainVars
<1>1. ASSUME ResolveWallet(w) PROVE RowKept \/ RowMoves(w) \/ Sends(w)
  BY <1>1 DEF ResolveWallet
<1>2. ASSUME Abort(w) PROVE RowKept \/ RowMoves(w) \/ Sends(w)
  BY <1>2 DEF Abort
<1>3. ASSUME Reject(w) PROVE RowKept \/ RowMoves(w) \/ Sends(w)
  BY <1>3 DEF Reject
<1>4. ASSUME Finish(w) PROVE RowKept \/ RowMoves(w) \/ Sends(w)
  BY <1>4 DEF Finish
<1>5. ASSUME CreateRecord(w) PROVE RowKept \/ RowMoves(w) \/ Sends(w)
  BY <1>5 DEF CreateRecord
<1>6. ASSUME Dedup(w) PROVE RowKept \/ RowMoves(w) \/ Sends(w)
  BY <1>6 DEF Dedup
<1>7. ASSUME Signing(w) PROVE RowKept \/ RowMoves(w) \/ Sends(w)
  <2>1. row' = [row EXCEPT ![cur[w]] = "SIGNING"] /\ UNCHANGED <<tx, sends>>
    BY <1>7 DEF Signing
  <2>2. at[w] \in Open
    BY <1>7 DEF Signing
  <2>3. RowMovesTo(w, "SIGNING")
    BY <2>1, <2>2
  <2> QED
    BY <2>3
<1>8. ASSUME Approve(w) PROVE RowKept \/ RowMoves(w) \/ Sends(w)
  BY <1>8 DEF Approve
<1>9. ASSUME Simulating(w) PROVE RowKept \/ RowMoves(w) \/ Sends(w)
  <2>1. row' = [row EXCEPT ![cur[w]] = "SIMULATING"] /\ UNCHANGED <<tx, sends>>
    BY <1>9 DEF Simulating
  <2>2. at[w] \in Open
    BY <1>9 DEF Simulating
  <2>3. RowMovesTo(w, "SIMULATING")
    BY <2>1, <2>2
  <2> QED
    BY <2>3
<1>10. ASSUME Simulate(w) PROVE RowKept \/ RowMoves(w) \/ Sends(w)
  BY <1>10 DEF Simulate
<1>11. ASSUME Submit(w) PROVE RowKept \/ RowMoves(w) \/ Sends(w)
  <2>1. row' = [row EXCEPT ![cur[w]] = "SUBMITTED"] /\ UNCHANGED <<tx, sends>>
    BY <1>11 DEF Submit
  <2>2. at[w] \in Open
    BY <1>11 DEF Submit
  <2>3. RowMovesTo(w, "SUBMITTED")
    BY <2>1, <2>2
  <2> QED
    BY <2>3
<1>12. ASSUME AcquireNonce(w) PROVE RowKept \/ RowMoves(w) \/ Sends(w)
  BY <1>12 DEF AcquireNonce
<1>13. ASSUME Send(w) PROVE RowKept \/ RowMoves(w) \/ Sends(w)
  BY <1>13 DEF Send
<1>14. ASSUME RecordTx(w) PROVE RowKept \/ RowMoves(w) \/ Sends(w)
  BY <1>14 DEF RecordTx
<1>15. ASSUME Confirm(w) PROVE RowKept \/ RowMoves(w) \/ Sends(w)
  <2>1. row' = [row EXCEPT ![cur[w]] = "CONFIRMING"] /\ UNCHANGED <<tx, sends>>
    BY <1>15 DEF Confirm
  <2>2. at[w] \in Open
    BY <1>15 DEF Confirm
  <2>3. RowMovesTo(w, "CONFIRMING")
    BY <2>1, <2>2
  <2> QED
    BY <2>3
<1>16. ASSUME WaitReceipt(w) PROVE RowKept \/ RowMoves(w) \/ Sends(w)
  BY <1>16 DEF WaitReceipt
<1>17. ASSUME MockRows(w) PROVE RowKept \/ RowMoves(w) \/ Sends(w)
  BY <1>17 DEF MockRows
<1>18. ASSUME Land(w) PROVE RowKept \/ RowMoves(w) \/ Sends(w)
  BY <1>18 DEF Land
<1>19. ASSUME RecordPnl(w) PROVE RowKept \/ RowMoves(w) \/ Sends(w)
  BY <1>19 DEF RecordPnl
<1>20. ASSUME MarkFailed(w) PROVE RowKept \/ RowMoves(w) \/ Sends(w)
  <2>1. row' = [row EXCEPT ![cur[w]] = "FAILED"] /\ UNCHANGED <<tx, sends>>
    BY <1>20 DEF MarkFailed
  <2>2. at[w] \in Open
    BY <1>20 DEF MarkFailed
  <2>3. RowMovesTo(w, "FAILED")
    BY <2>1, <2>2
  <2> QED
    BY <2>3
<1>21. ASSUME SubmissionFailed(w) PROVE RowKept \/ RowMoves(w) \/ Sends(w)
  <2>1. row' = [row EXCEPT ![cur[w]] = "FAILED"] /\ UNCHANGED <<tx, sends>>
    BY <1>21 DEF SubmissionFailed
  <2>2. at[w] \in Open
    BY <1>21 DEF SubmissionFailed
  <2>3. RowMovesTo(w, "FAILED")
    BY <2>1, <2>2
  <2> QED
    BY <2>3
<1>22. ASSUME Catch(w) PROVE RowKept \/ RowMoves(w) \/ Sends(w)
  <2>1. row' = [row EXCEPT ![cur[w]] = "FAILED"] /\ UNCHANGED <<tx, sends>>
    BY <1>22 DEF Catch
  <2>2. at[w] = "catch"
    BY <1>22 DEF Catch
  <2>3. RowMovesTo(w, "FAILED")
    BY <2>1, <2>2
  <2> QED
    BY <2>3
<1>23. ASSUME Throws(w) PROVE RowKept \/ RowMoves(w) \/ Sends(w)
  BY <1>23 DEF Throws
<1>24. ASSUME Crash(w) PROVE RowKept \/ RowMoves(w) \/ Sends(w)
  BY <1>24 DEF Crash
<1> QED
  BY <1>1, <1>2, <1>3, <1>4, <1>5, <1>6, <1>7, <1>8, <1>9, <1>10, <1>11, <1>12, <1>13, <1>14, <1>15, <1>16, <1>17, <1>18, <1>19, <1>20, <1>21, <1>22, <1>23, <1>24 DEF Step

LEMMA NoLateSend ==
  ASSUME Inv, [Next]_vars, NEW o \in Opp, row[o] \in Verdict
  PROVE  sends'[o] = sends[o]
<1>1. ASSUME NEW w \in Worker, Act(w) PROVE sends'[o] = sends[o]
  <2>1. CASE Sends(w)
    <3>1. at[w] = "send" /\ cur[w] # o
      BY <2>1 DEF Sends, Send, Goto, Inv, WorkerInv, Open
    <3> QED
      BY <2>1, <3>1 DEF Sends, Broadcast, Inv, TypeInv, TypeOK
  <2> QED
    BY <1>1, <2>1, WhatMoves DEF RowKept, RowMoves, RowMovesTo, Inv
<1>2. CASE Quiet
  BY <1>2 DEF Quiet
<1> QED
  BY <1>1, <1>2, QuietStep DEF Next, Act, Inv

\* After LANDED or FAILED was written for an opportunity, by whichever worker,
\* none of its transactions is broadcast any more.
THEOREM NothingAfterVerdict == Spec => NoSendAfterVerdict
<1>1. Inv /\ [Next]_vars => [\A o \in Opp : row[o] \in Verdict => sends'[o] = sends[o]]_vars
  BY NoLateSend
<1> QED
  BY <1>1, Invariance, PTL DEF Spec, NoSendAfterVerdict

\* While the database takes its writes, the only row that is written again
\* after its verdict is a failed one, with the same verdict.
LEMMA VerdictKept ==
  ASSUME "db" \notin Faults, Inv, [Next]_vars, NEW o \in Opp, row[o] \in Verdict
  PROVE  row'[o] = row[o]
<1>1. ASSUME NEW w \in Worker, Act(w) PROVE row'[o] = row[o]
  <2>1. CASE RowMoves(w)
    <3>1. CASE cur[w] # o
      BY <2>1, <3>1 DEF RowMoves, RowMovesTo, Inv, TypeInv, TypeOK
    <3>2. CASE cur[w] = o
      <4>1. at[w] = "catch" /\ row[o] = "FAILED"
        BY <2>1, <3>2 DEF RowMoves, RowMovesTo, Inv, WorkerInv, Verdict
      <4> QED
        BY <2>1, <3>2, <4>1 DEF RowMoves, RowMovesTo, Inv, TypeInv, TypeOK
    <3> QED
      BY <3>1, <3>2
  <2> QED
    BY <1>1, <2>1, WhatMoves DEF RowKept, Sends, Inv
<1>2. CASE Quiet
  BY <1>2 DEF Quiet
<1> QED
  BY <1>1, <1>2, QuietStep DEF Next, Act, Inv

\* Without failing database writes, LANDED and FAILED are final.
THEOREM VerdictIsFinal == Spec => VerdictStays
<1>1. Inv /\ [Next]_vars => 
      [\A o \in Opp : "db" \notin Faults /\ row[o] \in Verdict => row'[o] = row[o]]_vars
  BY VerdictKept
<1> QED
  BY <1>1, Invariance, PTL DEF Spec, VerdictStays

\* A verdict is final: nothing is sent behind it, and it stays (VerdictFinal).
THEOREM VerdictsAreFinal == Spec => VerdictFinal
<1> QED
  BY NothingAfterVerdict, VerdictIsFinal DEF VerdictFinal

-----------------------------------------------------------------------------
(* The failure code                                                         *)

\* What a worker that is about to write a failure code knows: nothing was sent
\* where a check failed, and a leg reverted where the receipt says so.
ReasonInv(w) ==
  /\ at[w] \in {"dedup", "signing", "simulating", "simulate"} => leg[w] = "buy"
  /\ at[w] = "fail" /\ why[w] \in EarlyCode => \A l \in Leg : sends[cur[w]][l] = 0
  /\ at[w] = "fail" /\ why[w] = "TX_REVERTED" => \E l \in Leg : tx[cur[w]][l] = "reverted"

\* A code stands on a row that failed, and what it says is so.
CodeInv(o) ==
  /\ code[o] # "none" => row[o] = "FAILED"
  /\ code[o] \in EarlyCode => \A l \in Leg : sends[o][l] = 0
  /\ code[o] = "TX_REVERTED" => \E l \in Leg : tx[o][l] = "reverted"

TruthInv ==
  /\ Inv
  /\ \A w \in Worker : ReasonInv(w)
  /\ \A o \in Opp : CodeInv(o)

\* What a worker's step writes as a failure code, and where.
Writes(w, c) ==
  /\ cur[w] \in Opp
  /\ \/ at[w] = "fail" /\ c = why[w]
     \/ at[w] \in {"failThrow", "catch"} /\ c = "TX_SUBMISSION_FAILED"
  /\ code' = [code EXCEPT ![cur[w]] = c]
  /\ row' = [row EXCEPT ![cur[w]] = "FAILED"]
  /\ UNCHANGED <<tx, sends>>

Speaks(w) ==
  /\ \A v \in Worker \ {w} : why'[v] = why[v]
  /\ code' = code \/ \E c \in FailureCode : Writes(w, c)

\* Only markFailed writes a failure code, and only with the row.
LEMMA WhatIsSaid ==
  ASSUME TypeInv, NEW w \in Worker, Act(w)
  PROVE  Speaks(w)
<1> USE DEF Act, TypeInv, TypeOK, WorkerTypes, Speaks, Writes, Goto, SetRow, Leave, FailWith,
            FailureCode, EarlyCode, dbVars, chainVars, runVars
<1>1. ASSUME ResolveWallet(w) PROVE Speaks(w)
  BY <1>1 DEF ResolveWallet
<1>2. ASSUME Abort(w) PROVE Speaks(w)
  BY <1>2 DEF Abort
<1>3. ASSUME Reject(w) PROVE Speaks(w)
  BY <1>3 DEF Reject
<1>4. ASSUME Finish(w) PROVE Speaks(w)
  BY <1>4 DEF Finish
<1>5. ASSUME CreateRecord(w) PROVE Speaks(w)
  BY <1>5 DEF CreateRecord
<1>6. ASSUME Dedup(w) PROVE Speaks(w)
  BY <1>6 DEF Dedup
<1>7. ASSUME Signing(w) PROVE Speaks(w)
  BY <1>7 DEF Signing
<1>8. ASSUME Approve(w) PROVE Speaks(w)
  BY <1>8 DEF Approve
<1>9. ASSUME Simulating(w) PROVE Speaks(w)
  BY <1>9 DEF Simulating
<1>10. ASSUME Simulate(w) PROVE Speaks(w)
  BY <1>10 DEF Simulate
<1>11. ASSUME Submit(w) PROVE Speaks(w)
  BY <1>11 DEF Submit
<1>12. ASSUME AcquireNonce(w) PROVE Speaks(w)
  BY <1>12 DEF AcquireNonce
<1>13. ASSUME Send(w) PROVE Speaks(w)
  BY <1>13 DEF Send
<1>14. ASSUME RecordTx(w) PROVE Speaks(w)
  BY <1>14 DEF RecordTx
<1>15. ASSUME Confirm(w) PROVE Speaks(w)
  BY <1>15 DEF Confirm
<1>16. ASSUME WaitReceipt(w) PROVE Speaks(w)
  BY <1>16 DEF WaitReceipt
<1>17. ASSUME MockRows(w) PROVE Speaks(w)
  BY <1>17 DEF MockRows
<1>18. ASSUME Land(w) PROVE Speaks(w)
  BY <1>18 DEF Land
<1>19. ASSUME RecordPnl(w) PROVE Speaks(w)
  BY <1>19 DEF RecordPnl
<1>20. ASSUME MarkFailed(w) PROVE Speaks(w)
  <2>1. why[w] \in FailureCode /\ Writes(w, why[w])
    BY <1>20 DEF MarkFailed, Fail
  <2> QED
    BY <1>20, <2>1 DEF MarkFailed
<1>21. ASSUME SubmissionFailed(w) PROVE Speaks(w)
  <2>1. Writes(w, "TX_SUBMISSION_FAILED")
    BY <1>21 DEF SubmissionFailed, Fail
  <2> QED
    BY <1>21, <2>1 DEF SubmissionFailed
<1>22. ASSUME Catch(w) PROVE Speaks(w)
  <2>1. Writes(w, "TX_SUBMISSION_FAILED")
    BY <1>22 DEF Catch, Fail
  <2> QED
    BY <1>22, <2>1 DEF Catch
<1>23. ASSUME Throws(w) PROVE Speaks(w)
  BY <1>23 DEF Throws
<1>24. ASSUME Crash(w) PROVE Speaks(w)
  BY <1>24 DEF Crash
<1> QED
  BY <1>1, <1>2, <1>3, <1>4, <1>5, <1>6, <1>7, <1>8, <1>9, <1>10, <1>11, <1>12, <1>13, <1>14, <1>15, <1>16, <1>17, <1>18, <1>19, <1>20, <1>21, <1>22, <1>23, <1>24 DEF Step

\* The points at which w may leave for markFailed, and where its leg changes.
LEMMA ReasonStep ==
  ASSUME TruthInv, NEW w \in Worker, Act(w)
  PROVE  ReasonInv(w)'
<1> USE ExecutionAssumption
    DEF Act, TruthInv, Inv, TypeInv, TypeOK, WorkerTypes, WorkerInv, ReasonInv, Owns, Owning, Goto,
        SetRow, Leave, FailWith, EarlyCode, Leg, dbVars, chainVars, runVars
<1>1. CASE Dedup(w)
  BY <1>1 DEF Dedup
<1>2. CASE Simulate(w)
  BY <1>2 DEF Simulate
<1>3. CASE WaitReceipt(w)
  <2>1. /\ at'[w] = "fail" => why'[w] = "TX_REVERTED" /\ tx[cur[w]][leg[w]] = "reverted"
        /\ at'[w] \in {"fail", "approve", "land", "catch"}
    BY <1>3 DEF WaitReceipt
  <2>2. UNCHANGED <<tx, cur>>
    BY <1>3 DEF WaitReceipt
  <2> QED
    BY <2>1, <2>2, SMTT(20)
<1>4. CASE CreateRecord(w)
  BY <1>4 DEF CreateRecord
<1>5. CASE Signing(w) \/ Approve(w) \/ Simulating(w)
  BY <1>5 DEF Signing, Approve, Simulating
<1>6. CASE Abort(w) \/ Reject(w) \/ Finish(w) \/ Crash(w)
  BY <1>6 DEF Abort, Reject, Finish, Crash
<1>7. CASE Throws(w)
  BY <1>7 DEF Throws, FaultAt, CaughtAt
<1>8. CASE ResolveWallet(w) \/ Submit(w) \/ AcquireNonce(w) \/ RecordTx(w) \/ Confirm(w)
  BY <1>8 DEF ResolveWallet, Submit, AcquireNonce, RecordTx, Confirm
<1>9. CASE Send(w) \/ MockRows(w) \/ Land(w) \/ RecordPnl(w)
  BY <1>9 DEF Send, MockRows, Land, RecordPnl
<1>10. CASE MarkFailed(w) \/ SubmissionFailed(w) \/ Catch(w)
  BY <1>10 DEF MarkFailed, SubmissionFailed, Catch
<1> QED
  BY <1>1, <1>2, <1>3, <1>4, <1>5, <1>6, <1>7, <1>8, <1>9, <1>10 DEF Step

\* A broadcast is of an opportunity without a code, and a code is written where
\* its reason is known.
LEMMA CodeStep ==
  ASSUME TruthInv, NEW w \in Worker, Act(w), NEW o \in Opp
  PROVE  CodeInv(o)'
<1>1. Speaks(w) /\ (RowKept \/ RowMoves(w) \/ Sends(w))
  BY WhatIsSaid, WhatMoves DEF TruthInv, Inv
<1>2. /\ CodeInv(o) /\ WorkerInv(w) /\ ReasonInv(w)
      /\ row \in [Opp -> RowState] /\ code \in [Opp -> FailureCode]
      /\ tx \in [Opp -> [Leg -> {"unsent", "pending", "landed", "reverted"}]]
      /\ sends \in [Opp -> [Leg -> Nat]]
  BY DEF TruthInv, Inv, TypeInv, TypeOK
<1>3. ASSUME NEW c \in FailureCode, Writes(w, c) PROVE CodeInv(o)'
  <2>1. CASE cur[w] = o
    <3>1. code'[o] = c /\ row'[o] = "FAILED" /\ UNCHANGED <<tx, sends>>
      BY <1>2, <1>3, <2>1 DEF Writes
    <3>2. c \in EarlyCode \cup {"TX_REVERTED"} => at[w] = "fail" /\ why[w] = c
      BY <1>3 DEF Writes, EarlyCode
    <3> QED
      BY <1>2, <2>1, <3>1, <3>2 DEF CodeInv, ReasonInv
  <2>2. CASE cur[w] # o
    BY <1>2, <1>3, <2>2 DEF Writes, CodeInv
  <2> QED
    BY <2>1, <2>2
<1>4. ASSUME code' = code, RowMoves(w) PROVE CodeInv(o)'
  <2>1. PICK s \in RowState \ {"none"} : RowMovesTo(w, s)
    BY <1>4 DEF RowMoves
  <2>2. UNCHANGED <<tx, sends>> /\ row' = [row EXCEPT ![cur[w]] = s]
    BY <2>1 DEF RowMovesTo
  <2>3. cur[w] = o /\ code[o] # "none" => s = "FAILED"
    BY <1>2, <2>1 DEF RowMovesTo, WorkerInv, CodeInv, Open, Verdict
  <2> QED
    BY <1>2, <1>4, <2>2, <2>3 DEF CodeInv
<1>5. ASSUME code' = code, Sends(w) PROVE CodeInv(o)'
  <2>1. cur[w] = o => code[o] = "none"
    BY <1>2, <1>5 DEF Sends, Send, Goto, WorkerInv, CodeInv, Open, Verdict
  <2>2. row' = row /\ (cur[w] # o => tx'[o] = tx[o] /\ sends'[o] = sends[o])
    BY <1>2, <1>5 DEF Sends, Broadcast
  <2> QED
    BY <1>2, <1>5, <2>1, <2>2 DEF CodeInv, EarlyCode
<1>6. ASSUME code' = code, RowKept PROVE CodeInv(o)'
  BY <1>2, <1>6 DEF RowKept, CodeInv
<1> QED
  BY <1>1, <1>3, <1>4, <1>5, <1>6 DEF Speaks

\* What the queue, the chain and Redis do to what the codes say: a transaction
\* that reverted stays reverted.
LEMMA QuietTruth ==
  ASSUME TruthInv,
         \/ \E w \in Worker, o \in Opp : Take(w, o)
         \/ \E o \in Opp : Stall(o)
         \/ \E o \in Opp, l \in Leg : Mine(o, l)
         \/ \E fp \in Fingerprint : DedupExpires(fp)
         \/ UNCHANGED vars
  PROVE  /\ code' = code /\ why' = why
         /\ \A o \in Opp, l \in Leg : tx[o][l] = "reverted" => tx'[o][l] = "reverted"
<1> USE DEF TruthInv, Inv, TypeInv, TypeOK, dbVars, chainVars, runVars
<1> DEFINE Truth == /\ code' = code /\ why' = why
                    /\ \A o \in Opp, l \in Leg : tx[o][l] = "reverted" => tx'[o][l] = "reverted"
<1>1. ASSUME NEW w \in Worker, NEW o \in Opp, Take(w, o) PROVE Truth
  BY <1>1 DEF Take
<1>2. ASSUME NEW o \in Opp, Stall(o) PROVE Truth
  BY <1>2 DEF Stall
<1>3. ASSUME NEW o \in Opp, NEW l \in Leg, Mine(o, l) PROVE Truth
  <2>1. /\ code' = code /\ why' = why
        /\ tx[o][l] = "pending"
        /\ \E s \in {"landed", "reverted"} : tx' = [tx EXCEPT ![o][l] = s]
    BY <1>3 DEF Mine
  <2> QED
    BY <2>1
<1>4. ASSUME NEW fp \in Fingerprint, DedupExpires(fp) PROVE Truth
  BY <1>4 DEF DedupExpires
<1>5. ASSUME UNCHANGED vars PROVE Truth
  BY <1>5 DEF vars
<1> HIDE DEF Truth
<1>6. Truth
  BY <1>1, <1>2, <1>3, <1>4, <1>5
<1> QED
  BY <1>6 DEF Truth

LEMMA TruthStep == ASSUME TruthInv, [Next]_vars PROVE TruthInv'
<1>1. Inv'
  BY InvStep DEF TruthInv
<1>2. ASSUME NEW w \in Worker, Act(w) PROVE TruthInv'
  <2>1. Frame(w) /\ Speaks(w)
    BY <1>2, FrameStep, WhatIsSaid DEF TruthInv, Inv, Act
  <2>2. \A v \in Worker \ {w} : ReasonInv(v)'
    <3> SUFFICES ASSUME NEW v \in Worker \ {w}
                 PROVE  ReasonInv(v)'
      OBVIOUS
    <3>1. /\ at'[v] = at[v] /\ cur'[v] = cur[v] /\ leg'[v] = leg[v] /\ why'[v] = why[v]
          /\ ReasonInv(v)
      BY <2>1 DEF Frame, Speaks, TruthInv
    <3>2. CASE at[v] # "fail"
      BY <3>1, <3>2 DEF ReasonInv
    <3>3. CASE at[v] = "fail"
      <4>1. cur[v] \in Opp /\ Owns(v)
        BY <3>3 DEF TruthInv, Inv, TypeInv, WorkerTypes, Owns, Owning
      <4>2. UNCHANGED <<tx[cur[v]], sends[cur[v]]>>
        BY <2>1, <4>1 DEF Frame, TruthInv, Inv, OneOwner
      <4> QED
        BY <3>1, <4>1, <4>2 DEF ReasonInv
    <3> QED
      BY <3>2, <3>3
  <2> QED
    BY <1>1, <1>2, <2>2, ReasonStep, CodeStep DEF TruthInv
<1>3. ASSUME Quiet, code' = code, why' = why,
             \A o \in Opp, l \in Leg : tx[o][l] = "reverted" => tx'[o][l] = "reverted"
      PROVE  TruthInv'
  <2>1. \A o \in Opp : CodeInv(o)'
    BY <1>3 DEF TruthInv, Quiet, CodeInv
  <2>2. \A w \in Worker : ReasonInv(w)'
    BY <1>3 DEF TruthInv, Inv, TypeInv, WorkerTypes, Quiet, ReasonInv
  <2> QED
    BY <1>1, <2>1, <2>2 DEF TruthInv
<1> QED
  BY <1>2, <1>3, QuietStep, QuietTruth DEF Next, Act, TruthInv, Inv

\* However the run ended, after a throw, a crash, a stall or a rewrite, the failure
\* code of a row is true of the chain: a check's code stands for nothing sent,
\* TX_REVERTED for a leg that reverted (execute, markFailed).
THEOREM CodesTellTheTruth == Spec => []CodeTellsTruth
<1>1. Init => TruthInv
  <2> SUFFICES ASSUME Init PROVE TruthInv
    OBVIOUS
  <2>1. Inv
    BY InvInit
  <2>2. \A w \in Worker : ReasonInv(w)
    BY DEF Init, ReasonInv
  <2>3. \A o \in Opp : CodeInv(o)
    BY DEF Init, CodeInv, EarlyCode
  <2> QED
    BY <2>1, <2>2, <2>3 DEF TruthInv
<1>2. TruthInv => CodeTellsTruth
  BY DEF TruthInv, CodeInv, CodeTellsTruth
<1> QED
  BY <1>1, <1>2, TruthStep, PTL DEF Spec

-----------------------------------------------------------------------------
(* The two-leg trade                                                        *)

stages == [o \in Opp |-> IF Real THEN Stage(o) ELSE "flat"]
tried == [o \in Opp |-> Real /\ sends[o]["buy"] > 0]
verdicts == [o \in Opp |-> IF Real /\ row[o] \in Verdict THEN row[o] ELSE "open"]

\* The positions move where transactions do.
LEMMA StagesMove ==
  ASSUME Real, Real', NEW o \in Opp, \A p \in Opp \ {o} : tx'[p] = tx[p]
  PROVE  stages' = [stages EXCEPT ![o] = Stage(o)']
<1>1. \A p \in Opp \ {o} : Stage(p)' = Stage(p)
  BY DEF Stage
<1> QED
  BY <1>1 DEF stages

\* What changes nothing on the chain and no verdict is a stutter of the trade.
LEMMA Stutters ==
  ASSUME UNCHANGED <<setting, tx, sends>>, verdicts' = verdicts
  PROVE  UNCHANGED Trade!vars
<1>1. Real' = Real
  BY DEF Real, Mock, Faults
<1> QED
  BY <1>1 DEF Trade!vars, Stage, verdicts

\* In the other settings nothing is traded at all.
LEMMA NothingTraded ==
  ASSUME ~Real, UNCHANGED setting
  PROVE  UNCHANGED Trade!vars
<1>1. ~Real'
  BY DEF Real, Mock, Faults
<1> QED
  BY <1>1 DEF Trade!vars

\* A verdict is written once, and LANDED behind two landed legs.
LEMMA Decides ==
  ASSUME Real, UNCHANGED setting, Inv, NEW w \in Worker, RowMoves(w)
  PROVE  [Trade!Next]_Trade!vars
<1>0. Real'
  BY DEF Real, Mock, Faults
<1> DEFINE o == cur[w]
<1>1. o \in Opp
  BY DEF RowMoves, RowMovesTo, Open, Inv, TypeInv, WorkerTypes
<1>2. PICK s \in RowState \ {"none"} : RowMovesTo(w, s)
  BY DEF RowMoves
<1>3. UNCHANGED <<tx, sends>> /\ row \in [Opp -> RowState] /\ WorkerInv(w)
  BY <1>2 DEF RowMovesTo, Inv, TypeInv, TypeOK
<1>4. row[o] \notin Verdict \/ (row[o] = "FAILED" /\ s = "FAILED")
  BY <1>2, <1>3 DEF RowMovesTo, WorkerInv, Verdict, Real
<1> HIDE DEF o
<1>5. CASE s \notin Verdict \/ row[o] = "FAILED"
  <2>1. verdicts' = verdicts
    BY <1>0, <1>1, <1>2, <1>3, <1>4, <1>5 DEF RowMovesTo, verdicts, Verdict, o
  <2> QED
    BY <1>3, <2>1, Stutters
<1>6. CASE s \in Verdict /\ row[o] # "FAILED"
  <2>1. verdicts[o] = "open" /\ verdicts' = [verdicts EXCEPT ![o] = s]
    BY <1>0, <1>1, <1>2, <1>3, <1>4, <1>6 DEF RowMovesTo, verdicts, Verdict, o
  <2>2. s = "LANDED" => stages[o] = "closed"
    BY <1>1, <1>2, <1>3 DEF RowMovesTo, WorkerInv, Landed, Real, stages, Stage, SoldStage, Leg, o
  <2>3. UNCHANGED <<stages, tried>>
    BY <1>0, <1>3 DEF stages, tried, Stage
  <2> QED
    BY <1>1, <1>6, <2>1, <2>2, <2>3 DEF Trade!Next, Trade!Decide, stages, tried, verdicts, Verdict
<1> QED
  BY <1>5, <1>6

\* A broadcast is a purchase, or the sale of what was bought.
LEMMA Trades ==
  ASSUME Real, UNCHANGED setting, Inv, NEW w \in Worker, Sends(w), NEW o \in Opp, o = cur[w]
  PROVE  Trade!Next
<1>0. Real'
  BY DEF Real, Mock, Faults
<1>1. o \in Opp /\ leg[w] \in Leg /\ WorkerInv(w) /\ OppInv(o) /\ at[w] = "send"
  BY DEF Sends, Send, Goto, Inv, TypeInv, TypeOK, WorkerTypes
<1>2. /\ tx \in [Opp -> [Leg -> {"unsent", "pending", "landed", "reverted"}]]
      /\ sends \in [Opp -> [Leg -> Nat]]
  BY DEF Inv, TypeInv, TypeOK
<1>3. /\ row[o] \notin Verdict /\ sends[o][leg[w]] = 0 /\ tx[o][leg[w]] = "unsent"
      /\ leg[w] = "buy" => sends[o]["sell"] = 0 /\ tx[o]["sell"] = "unsent"
      /\ leg[w] = "sell" => tx[o]["buy"] = "landed" /\ sends[o]["buy"] = 1
  <2>1. row[o] \notin Verdict /\ sends[o][leg[w]] = 0
    BY <1>1 DEF WorkerInv, Open
  <2>2. tx[o][leg[w]] = "unsent"
    BY <1>1, <2>1 DEF OppInv
  <2>3. leg[w] = "buy" => sends[o]["sell"] = 0 /\ tx[o]["sell"] = "unsent"
    BY <1>1 DEF WorkerInv, OppInv, Owns, Owning, Leg
  <2>4. leg[w] = "sell" => tx[o]["buy"] = "landed"
    BY <1>1 DEF WorkerInv, Owns, Owning
  <2>5. tx[o]["buy"] = "landed" => sends[o]["buy"] = 1
    <3>1. sends[o]["buy"] \in Nat
      BY <1>2 DEF Leg
    <3> QED
      BY <1>1, <3>1 DEF OppInv, Leg
  <2> QED
    BY <2>1, <2>2, <2>3, <2>4, <2>5
<1>4. /\ tx' = [tx EXCEPT ![o] = [tx[o] EXCEPT ![leg[w]] = "pending"]]
      /\ sends' = [sends EXCEPT ![o] = [sends[o] EXCEPT ![leg[w]] = sends[o][leg[w]] + 1]]
      /\ row' = row
  BY DEF Sends, Broadcast
<1>5. verdicts' = verdicts /\ verdicts[o] = "open"
  BY <1>0, <1>1, <1>3, <1>4 DEF verdicts
<1>8. stages' = [stages EXCEPT ![o] = Stage(o)']
  <2>1. \A p \in Opp \ {o} : tx'[p] = tx[p]
    BY <1>2, <1>4
  <2> QED
    BY <1>0, <1>1, <2>1, StagesMove
<1>6. CASE leg[w] = "buy"
  <2>1. stages[o] = "flat" /\ stages' = [stages EXCEPT ![o] = "buying"]
    <3>1. Stage(o) = "flat" /\ Stage(o)' = "buying"
      BY <1>1, <1>2, <1>3, <1>4, <1>6 DEF Stage, BoughtStage, Leg
    <3> QED
      BY <1>0, <1>1, <1>8, <3>1 DEF stages
  <2>2. tried[o] = FALSE /\ tried' = [tried EXCEPT ![o] = TRUE]
    <3>1. sends[o]["buy"] = 0 /\ sends'[o]["buy"] = 1
      BY <1>1, <1>2, <1>3, <1>4, <1>6 DEF Leg
    <3>2. \A p \in Opp \ {o} : sends'[p] = sends[p]
      BY <1>1, <1>2, <1>4
    <3>3. (sends[o]["buy"] > 0) = FALSE /\ (sends'[o]["buy"] > 0) = TRUE
      BY <3>1
    <3>4. \A p \in Opp \ {o} : (sends'[p]["buy"] > 0) = (sends[p]["buy"] > 0)
      BY <3>2
    <3> QED
      BY <1>0, <3>3, <3>4, Zenon DEF tried
  <2>3. Trade!SendBuy(o)
    BY <1>5, <2>1, <2>2 DEF Trade!SendBuy, Trade!Move, stages, tried, verdicts
  <2> QED
    BY <1>1, <2>3 DEF Trade!Next
<1>7. CASE leg[w] = "sell"
  <2>1. stages[o] = "bought" /\ stages' = [stages EXCEPT ![o] = "selling"]
    <3>1. Stage(o) = "bought" /\ Stage(o)' = "selling"
      BY <1>1, <1>2, <1>3, <1>4, <1>7 DEF Stage, BoughtStage, SoldStage, Leg
    <3> QED
      BY <1>0, <1>1, <1>8, <3>1 DEF stages
  <2>2. tried' = tried
    BY <1>0, <1>1, <1>2, <1>3, <1>4, <1>7 DEF tried, Leg
  <2>3. Trade!SendSell(o)
    BY <1>5, <2>1, <2>2 DEF Trade!SendSell, Trade!Move, stages, tried, verdicts
  <2> QED
    BY <1>1, <2>3 DEF Trade!Next
<1> QED
  BY <1>1, <1>6, <1>7 DEF Leg

\* A mined transaction moves the wallet's position.
LEMMA Mines ==
  ASSUME Real, Inv, NEW o \in Opp, NEW l \in Leg, Mine(o, l)
  PROVE  Trade!Next
<1>0. Real'
  BY DEF Mine, Real, Mock, Faults
<1>1. PICK s \in {"landed", "reverted"} : tx' = [tx EXCEPT ![o] = [tx[o] EXCEPT ![l] = s]]
  BY DEF Mine
<1>2. tx[o][l] = "pending" /\ UNCHANGED <<row, sends>> /\ OppInv(o)
  BY DEF Mine, dbVars, Inv
<1>3. /\ tx \in [Opp -> [Leg -> {"unsent", "pending", "landed", "reverted"}]]
      /\ sends \in [Opp -> [Leg -> Nat]]
  BY DEF Inv, TypeInv, TypeOK
<1>7. stages' = [stages EXCEPT ![o] = Stage(o)']
  BY <1>0, <1>1, <1>3, StagesMove
<1>4. UNCHANGED <<tried, verdicts>>
  BY <1>0, <1>2 DEF tried, verdicts
<1>5. CASE l = "buy"
  <2>1. tx[o]["sell"] = "unsent"
    BY <1>2, <1>3, <1>5 DEF OppInv, Leg
  <2>2. /\ stages[o] = "buying"
        /\ stages' = [stages EXCEPT ![o] = IF s = "landed" THEN "bought" ELSE "flat"]
    <3>1. Stage(o) = "buying" /\ Stage(o)' = IF s = "landed" THEN "bought" ELSE "flat"
      BY <1>1, <1>2, <1>3, <1>5, <2>1 DEF Stage, BoughtStage, Leg
    <3> QED
      BY <1>0, <1>7, <3>1 DEF stages
  <2>3. Trade!BuyMined(o)
    BY <1>1, <1>4, <2>2 DEF Trade!BuyMined, Trade!Move, stages, tried, verdicts
  <2> QED
    BY <2>3 DEF Trade!Next
<1>6. CASE l = "sell"
  <2>1. /\ stages[o] = "selling"
        /\ stages' = [stages EXCEPT ![o] = IF s = "landed" THEN "closed" ELSE "stranded"]
    <3>1. Stage(o) = "selling" /\ Stage(o)' = IF s = "landed" THEN "closed" ELSE "stranded"
      BY <1>1, <1>2, <1>3, <1>6 DEF Stage, SoldStage, Leg
    <3> QED
      BY <1>0, <1>7, <3>1 DEF stages
  <2>2. Trade!SellMined(o)
    BY <1>1, <1>4, <2>1 DEF Trade!SellMined, Trade!Move, stages, tried, verdicts
  <2> QED
    BY <2>2 DEF Trade!Next
<1> QED
  BY <1>5, <1>6 DEF Leg

LEMMA TradeStep ==
  ASSUME Inv, [Next]_vars
  PROVE  [Trade!Next]_Trade!vars
<1>0. UNCHANGED setting
  BY FrameStep, QuietStep DEF Next, Inv, Frame, Quiet
<1> SUFFICES ASSUME Real PROVE [Trade!Next]_Trade!vars
  BY <1>0, NothingTraded
<1>9. Real'
  BY <1>0 DEF Real, Mock, Faults
<1>1. ASSUME NEW w \in Worker, Act(w) PROVE [Trade!Next]_Trade!vars
  <2>1. CASE RowKept
    BY <1>0, <1>9, <2>1, Stutters DEF RowKept, verdicts
  <2>2. CASE RowMoves(w)
    BY <1>0, <2>2, Decides
  <2>3. CASE Sends(w)
    <3>1. cur[w] \in Opp
      BY <2>3 DEF Sends, Send, Goto, Inv, TypeInv, WorkerTypes
    <3> QED
      BY <1>0, <2>3, <3>1, Trades
  <2> QED
    BY <1>1, <2>1, <2>2, <2>3, WhatMoves DEF Inv
<1>2. ASSUME Quiet, UNCHANGED tx PROVE [Trade!Next]_Trade!vars
  BY <1>0, <1>9, <1>2, Stutters DEF Quiet, verdicts
<1>3. ASSUME \/ \E w \in Worker, o \in Opp : Take(w, o)
             \/ \E o \in Opp : Stall(o)
             \/ \E fp \in Fingerprint : DedupExpires(fp)
             \/ UNCHANGED vars
      PROVE  UNCHANGED tx
  BY <1>3 DEF Take, Stall, DedupExpires, vars, chainVars
<1> QED
  BY <1>1, <1>2, <1>3, Mines, QuietStep DEF Next, Act, Inv

\* Outside mock mode, and while the database takes its writes, the execution
\* engine implements the two-leg trade.
THEOREM EngineTrades == Spec => ImplementsTrade
<1>1. Init => Trade!Init
  <2> SUFFICES ASSUME Init PROVE Trade!Init
    OBVIOUS
  <2>1. \A o \in Opp : /\ Stage(o) = "flat" /\ row[o] \notin Verdict
                       /\ (sends[o]["buy"] > 0) = FALSE
    BY DEF Init, Stage, BoughtStage, Leg, Verdict
  <2> QED
    BY <2>1 DEF Trade!Init
<1>2. Inv /\ [Next]_vars => [Trade!Next]_Trade!vars
  BY TradeStep
<1> QED
  BY <1>1, <1>2, Invariance, PTL DEF Spec, ImplementsTrade, Trade!Spec
=============================================================================
