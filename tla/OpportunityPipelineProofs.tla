---------------------- MODULE OpportunityPipelineProofs ----------------------
(* What the way from a candidate to its execution promises for every number   *)
(* of candidates, slots, rows and stalls.                                     *)
EXTENDS OpportunityPipeline, TLAPS

-----------------------------------------------------------------------------
(* Rows and the slots that made them                                          *)

Scoring == {"routes", "killGlobal", "killChain", "rules", "block", "approve"}

\* What a slot knows of its row: it has one once it made it, of its candidate's
\* fingerprint and no other slot's.
SlotInv(s) ==
  /\ at[s] = "idle" <=> cand[s] = NoFp
  /\ at[s] \in {"idle", "find", "create"} => opp[s] = NoOpp
  /\ at[s] \in Scoring \cup {"enqueue"} => opp[s] \in Opp /\ fp[opp[s]] = cand[s]
  /\ at[s] \in Scoring => state[opp[s]] \in {"DETECTED", "EXPIRED"}
  /\ at[s] = "enqueue" => state[opp[s]] = "APPROVED"
  /\ opp[s] \in Opp => state[opp[s]] # "none"
  /\ \A t \in Slot : opp[s] \in Opp /\ opp[s] = opp[t] => s = t
  /\ "slow" \notin happens => opp[s] \notin old

\* What is queued for execution is approved, only rows that exist grow old, and
\* while scoring is quick the cleanup takes none from a slot.
RowInv ==
  /\ \A o \in Opp : exec[o] # "none" => state[o] = "APPROVED"
  /\ \A o \in old : state[o] # "none"
  /\ \A o \in Opp : state[o] = "EXPIRED" => o \in old
  /\ "slow" \notin happens => \A s \in Slot : at[s] \in Scoring => state[opp[s]] = "DETECTED"

Shape == RowInv /\ \A s \in Slot : SlotInv(s)

LEMMA ShapeInit == PipelineInit => Shape
  BY PipelineAssumption DEF PipelineInit, Shape, RowInv, SlotInv, Scoring, NoOpp, Opp

\* Every step keeps rows and slots in shape.
LEMMA ShapeStep == PipelineTypeOK /\ Shape /\ [PipelineNext]_pipelineVars => Shape'
  <1> SUFFICES ASSUME PipelineTypeOK, Shape, [PipelineNext]_pipelineVars
               PROVE  Shape'
    OBVIOUS
  <1> USE PipelineAssumption DEF PipelineTypeOK, Shape, RowInv, SlotInv, Scoring, PC, OppState, Opp,
          NoOpp, Goto, jobVars, rowVars, runVars
  <1>1. ASSUME NEW s \in Slot, Find(s)
        PROVE  Shape'
    BY <1>1 DEF Find
  <1>2. ASSUME NEW s \in Slot, Create(s)
        PROVE  Shape'
    BY <1>2 DEF Create
  <1>3. ASSUME NEW s \in Slot, Routes(s)
        PROVE  Shape'
    BY <1>3 DEF Routes
  <1>4. ASSUME NEW s \in Slot, KillGlobal(s)
        PROVE  Shape'
    BY <1>4 DEF KillGlobal
  <1>5. ASSUME NEW s \in Slot, KillChain(s)
        PROVE  Shape'
    BY <1>5 DEF KillChain
  <1>6. ASSUME NEW s \in Slot, Rules(s)
        PROVE  Shape'
    BY <1>6 DEF Rules
  <1>7. ASSUME NEW s \in Slot, Block(s)
        PROVE  Shape'
    BY <1>7, SMTT(20) DEF Block
  <1>8. ASSUME NEW s \in Slot, Approve(s)
        PROVE  Shape'
    BY <1>8 DEF Approve
  <1>9. ASSUME NEW s \in Slot, Enqueue(s)
        PROVE  Shape'
    BY <1>9 DEF Enqueue
  <1>10. ASSUME NEW s \in Slot, Finish(s)
        PROVE  Shape'
    BY <1>10 DEF Finish, Leave
  <1>11. ASSUME NEW s \in Slot, Throws(s)
        PROVE  Shape'
    BY <1>11 DEF Throws
  <1>12. ASSUME NEW s \in Slot, NEW f \in Fingerprint, Take(s, f)
        PROVE  Shape'
    BY <1>12 DEF Take
  <1>13. ASSUME NEW f \in Fingerprint, Detect(f)
        PROVE  Shape'
    BY <1>13 DEF Detect
  <1>14. ASSUME NEW f \in Fingerprint, Evict(f)
        PROVE  Shape'
    BY <1>14 DEF Evict
  <1>15. ASSUME NEW f \in Fingerprint, Stall(f)
        PROVE  Shape'
    BY <1>15 DEF Stall
  <1>16. ASSUME NEW o \in Opp, Execute(o)
        PROVE  Shape'
    BY <1>16 DEF Execute
  <1>17. ASSUME NEW o \in Opp, GrowOld(o)
        PROVE  Shape'
    BY <1>17 DEF GrowOld
  <1>18. ASSUME NEW k \in Switch, SetKill(k)
        PROVE  Shape'
    BY <1>18 DEF SetKill
  <1>19. ASSUME NEW k \in Switch, ClearKill(k)
        PROVE  Shape'
    BY <1>19 DEF ClearKill
  <1>20. CASE Cleanup
    BY <1>20 DEF Cleanup
  <1>21. CASE Crash
    BY <1>21 DEF Crash, Leave
  <1>22. CASE UNCHANGED pipelineVars
    BY <1>22 DEF pipelineVars
  <1>23. QED
    BY <1>1, <1>2, <1>3, <1>4, <1>5, <1>6, <1>7, <1>8, <1>9, <1>10, <1>11,
       <1>12, <1>13, <1>14, <1>15, <1>16, <1>17, <1>18, <1>19, <1>20, <1>21,
       <1>22 DEF PipelineNext, Step

-----------------------------------------------------------------------------
(* Types                                                                      *)

LEMMA TypeInit == PipelineInit => PipelineTypeOK
  BY PipelineAssumption DEF PipelineInit, PipelineTypeOK, PC, OppState, Opp, NoOpp, Switch

LEMMA TypeStep == PipelineTypeOK /\ Shape /\ [PipelineNext]_pipelineVars => PipelineTypeOK'
  <1> SUFFICES ASSUME PipelineTypeOK, Shape, [PipelineNext]_pipelineVars
               PROVE  PipelineTypeOK'
    OBVIOUS
  <1> USE PipelineAssumption DEF PipelineTypeOK, PC, OppState, Opp, NoOpp, Switch, Goto,
          jobVars, rowVars, runVars
  <1>1. ASSUME NEW s \in Slot, Find(s)
        PROVE  PipelineTypeOK'
    BY <1>1 DEF Find
  <1>2. ASSUME NEW s \in Slot, Create(s)
        PROVE  PipelineTypeOK'
    <2>1. PICK o \in Opp : /\ state' = [state EXCEPT ![o] = "DETECTED"]
                           /\ fp' = [fp EXCEPT ![o] = cand[s]]
                           /\ opp' = [opp EXCEPT ![s] = o]
      BY <1>2 DEF Create
    <2>2. cand[s] # NoFp
      BY <1>2 DEF Create, Shape, SlotInv
    <2>3. /\ state' \in [1 .. MaxOpp -> {"none", "DETECTED", "BLOCKED", "APPROVED", "EXPIRED"}]
          /\ fp' \in [1 .. MaxOpp -> Fingerprint \cup {NoFp}]
          /\ \A p \in 1 .. MaxOpp : state'[p] = "none" <=> fp'[p] = NoFp
      BY <2>1, <2>2
    <2>4. opp' \in [Slot -> 1 .. MaxOpp \cup {0}]
      BY <2>1
    <2>5. QED
      BY <1>2, <2>3, <2>4 DEF Create
  <1>3. ASSUME NEW s \in Slot, Routes(s)
        PROVE  PipelineTypeOK'
    BY <1>3 DEF Routes
  <1>4. ASSUME NEW s \in Slot, KillGlobal(s)
        PROVE  PipelineTypeOK'
    BY <1>4 DEF KillGlobal
  <1>5. ASSUME NEW s \in Slot, KillChain(s)
        PROVE  PipelineTypeOK'
    BY <1>5 DEF KillChain
  <1>6. ASSUME NEW s \in Slot, Rules(s)
        PROVE  PipelineTypeOK'
    BY <1>6 DEF Rules
  <1>7. ASSUME NEW s \in Slot, Block(s)
        PROVE  PipelineTypeOK'
    <2>1. opp[s] \in 1 .. MaxOpp /\ fp[opp[s]] # NoFp
      BY <1>7 DEF Block, Shape, SlotInv, Scoring
    <2>2. QED
      BY <1>7, <2>1 DEF Block
  <1>8. ASSUME NEW s \in Slot, Approve(s)
        PROVE  PipelineTypeOK'
    <2>1. opp[s] \in 1 .. MaxOpp /\ fp[opp[s]] # NoFp
      BY <1>8 DEF Approve, Shape, SlotInv, Scoring
    <2>2. QED
      BY <1>8, <2>1 DEF Approve
  <1>9. ASSUME NEW s \in Slot, Enqueue(s)
        PROVE  PipelineTypeOK'
    BY <1>9 DEF Enqueue
  <1>10. ASSUME NEW s \in Slot, Finish(s)
        PROVE  PipelineTypeOK'
    <2>1. /\ job' \in [Fingerprint -> {"none", "waiting", "active", "completed", "failed"}]
          /\ holder' \in [Fingerprint -> Slot \cup {NoSlot}]
      <3>0. cand[s] \in Fingerprint
        BY <1>10 DEF Finish, Shape, SlotInv
      <3>1. CASE holder[cand[s]] = s
        <4>1. \E v \in {"completed", "failed"} : job' = [job EXCEPT ![cand[s]] = v]
          BY <1>10, <3>1 DEF Finish
        <4>2. holder' = [holder EXCEPT ![cand[s]] = NoSlot]
          BY <1>10, <3>1 DEF Finish
        <4>3. QED
          BY <3>0, <4>1, <4>2
      <3>2. CASE holder[cand[s]] # s
        BY <1>10, <3>2 DEF Finish
      <3>3. QED
        BY <3>1, <3>2
    <2>2. /\ at' \in [Slot -> PC] /\ cand' \in [Slot -> Fingerprint \cup {NoFp}]
          /\ opp' \in [Slot -> 1 .. MaxOpp \cup {0}]
          /\ steady' \in [Slot -> SUBSET {"GLOBAL", "CHAIN"}]
      BY <1>10 DEF Finish, Leave
    <2>3. QED
      BY <1>10, <2>1, <2>2 DEF Finish
  <1>11. ASSUME NEW s \in Slot, Throws(s)
        PROVE  PipelineTypeOK'
    BY <1>11 DEF Throws
  <1>12. ASSUME NEW s \in Slot, NEW f \in Fingerprint, Take(s, f)
        PROVE  PipelineTypeOK'
    BY <1>12 DEF Take
  <1>13. ASSUME NEW f \in Fingerprint, Detect(f)
        PROVE  PipelineTypeOK'
    BY <1>13 DEF Detect
  <1>14. ASSUME NEW f \in Fingerprint, Evict(f)
        PROVE  PipelineTypeOK'
    BY <1>14 DEF Evict
  <1>15. ASSUME NEW f \in Fingerprint, Stall(f)
        PROVE  PipelineTypeOK'
    <2>1. /\ job' \in [Fingerprint -> {"none", "waiting", "active", "completed", "failed"}]
          /\ holder' \in [Fingerprint -> Slot \cup {NoSlot}]
      BY <1>15 DEF Stall
    <2>2. stalls' \in [Fingerprint -> 0 .. MaxStalls]
      <3>1. CASE stalls[f] < MaxStalls
        BY <1>15, <3>1 DEF Stall
      <3>2. CASE ~(stalls[f] < MaxStalls)
        BY <1>15, <3>2 DEF Stall
      <3>3. QED
        BY <3>1, <3>2
    <2>3. QED
      BY <1>15, <2>1, <2>2 DEF Stall
  <1>16. ASSUME NEW o \in Opp, Execute(o)
        PROVE  PipelineTypeOK'
    BY <1>16 DEF Execute
  <1>17. ASSUME NEW o \in Opp, GrowOld(o)
        PROVE  PipelineTypeOK'
    BY <1>17 DEF GrowOld
  <1>18. ASSUME NEW k \in Switch, SetKill(k)
        PROVE  PipelineTypeOK'
    BY <1>18 DEF SetKill
  <1>19. ASSUME NEW k \in Switch, ClearKill(k)
        PROVE  PipelineTypeOK'
    BY <1>19 DEF ClearKill
  <1>20. CASE Cleanup
    BY <1>20 DEF Cleanup
  <1>21. CASE Crash
    BY <1>21 DEF Crash, Leave
  <1>22. CASE UNCHANGED pipelineVars
    BY <1>22 DEF pipelineVars
  <1>23. QED
    BY <1>1, <1>2, <1>3, <1>4, <1>5, <1>6, <1>7, <1>8, <1>9, <1>10, <1>11,
       <1>12, <1>13, <1>14, <1>15, <1>16, <1>17, <1>18, <1>19, <1>20, <1>21,
       <1>22 DEF PipelineNext, Step

Inv == PipelineTypeOK /\ Shape

\* The variables keep their types, and a row has a fingerprint.
THEOREM TypeCorrect == PipelineSpec => []PipelineTypeOK
  <1>1. PipelineInit => Inv
    BY TypeInit, ShapeInit DEF Inv
  <1>2. Inv /\ [PipelineNext]_pipelineVars => Inv'
    BY TypeStep, ShapeStep DEF Inv
  <1>3. Inv => PipelineTypeOK
    BY DEF Inv
  <1>4. QED
    BY <1>1, <1>2, <1>3, PTL DEF PipelineSpec

\* While scoring is quick, an expired row stays expired.
THEOREM ExpiredRowsStay == PipelineSpec => ExpiredStays
  <1> DEFINE Stays == \A o \in Opp : "slow" \notin happens /\ state[o] = "EXPIRED"
                                      => state'[o] = "EXPIRED"
  <1>1. Inv /\ [PipelineNext]_pipelineVars => Stays
    <2> SUFFICES ASSUME Inv, [PipelineNext]_pipelineVars, NEW o \in Opp,
                        "slow" \notin happens, state[o] = "EXPIRED"
                 PROVE  state'[o] = "EXPIRED"
      OBVIOUS
    <2>1. ASSUME NEW s \in Slot, Block(s) \/ Approve(s)
          PROVE  state'[o] = "EXPIRED"
      <3>1. opp[s] # o
        BY <2>1 DEF Inv, Shape, RowInv, Scoring, Block, Approve, Goto
      <3>2. QED
        BY <2>1, <3>1 DEF Block, Approve, Inv, PipelineTypeOK
    <2>2. ASSUME NEW s \in Slot, Create(s)
          PROVE  state'[o] = "EXPIRED"
      BY <2>2 DEF Create, Inv, PipelineTypeOK
    <2>3. CASE Cleanup
      BY <2>3 DEF Cleanup, Inv, PipelineTypeOK
    <2>4. ASSUME state' = state
          PROVE  state'[o] = "EXPIRED"
      BY <2>4
    <2>5. \A s \in Slot : Step(s) => Block(s) \/ Approve(s) \/ Create(s) \/ state' = state
      BY DEF Step, Find, Routes, KillGlobal, KillChain, Rules, Enqueue, Finish, rowVars
    <2>6. QED
      BY <2>1, <2>2, <2>3, <2>4, <2>5
      DEF PipelineNext, Throws, Take, Detect, Evict, Stall, Execute, GrowOld, SetKill, ClearKill,
          Crash, rowVars, pipelineVars
  <1>2. PipelineInit => Inv
    BY TypeInit, ShapeInit DEF Inv
  <1>3. Inv /\ [PipelineNext]_pipelineVars => Inv'
    BY TypeStep, ShapeStep DEF Inv
  <1>4. QED
    BY <1>1, <1>2, <1>3, PTL DEF PipelineSpec, ExpiredStays

-----------------------------------------------------------------------------
(* Kill switches                                                              *)

\* The inductive strengthening of KillBlocksApproval: a switch that was set all
\* along is still set, and one that was read is not among them.
Steady ==
  \A s \in Slot :
    /\ at[s] \in {"killGlobal", "killChain"} => steady[s] \subseteq kill
    /\ at[s] = "killChain" => "GLOBAL" \notin steady[s]
    /\ at[s] \in {"rules", "approve"} => steady[s] = {}

LEMMA SteadyStep == PipelineTypeOK /\ Steady /\ [PipelineNext]_pipelineVars => Steady'
  <1> SUFFICES ASSUME PipelineTypeOK, Steady, [PipelineNext]_pipelineVars
               PROVE  Steady'
    OBVIOUS
  <1> USE PipelineAssumption DEF PipelineTypeOK, Steady, PC, Switch, Goto, jobVars, rowVars, runVars
  <1>1. ASSUME NEW s \in Slot, Find(s)
        PROVE  Steady'
    BY <1>1 DEF Find
  <1>2. ASSUME NEW s \in Slot, Create(s)
        PROVE  Steady'
    BY <1>2 DEF Create
  <1>3. ASSUME NEW s \in Slot, Routes(s)
        PROVE  Steady'
    BY <1>3 DEF Routes
  <1>4. ASSUME NEW s \in Slot, KillGlobal(s)
        PROVE  Steady'
    BY <1>4 DEF KillGlobal
  <1>5. ASSUME NEW s \in Slot, KillChain(s)
        PROVE  Steady'
    BY <1>5 DEF KillChain
  <1>6. ASSUME NEW s \in Slot, Rules(s)
        PROVE  Steady'
    BY <1>6 DEF Rules
  <1>7. ASSUME NEW s \in Slot, Block(s)
        PROVE  Steady'
    BY <1>7 DEF Block
  <1>8. ASSUME NEW s \in Slot, Approve(s)
        PROVE  Steady'
    BY <1>8 DEF Approve
  <1>9. ASSUME NEW s \in Slot, Enqueue(s)
        PROVE  Steady'
    BY <1>9 DEF Enqueue
  <1>10. ASSUME NEW s \in Slot, Finish(s)
        PROVE  Steady'
    BY <1>10 DEF Finish, Leave
  <1>11. ASSUME NEW s \in Slot, Throws(s)
        PROVE  Steady'
    BY <1>11 DEF Throws
  <1>12. ASSUME NEW s \in Slot, NEW f \in Fingerprint, Take(s, f)
        PROVE  Steady'
    BY <1>12 DEF Take
  <1>13. ASSUME NEW f \in Fingerprint, Detect(f)
        PROVE  Steady'
    BY <1>13 DEF Detect
  <1>14. ASSUME NEW f \in Fingerprint, Evict(f)
        PROVE  Steady'
    BY <1>14 DEF Evict
  <1>15. ASSUME NEW f \in Fingerprint, Stall(f)
        PROVE  Steady'
    BY <1>15 DEF Stall
  <1>16. ASSUME NEW o \in Opp, Execute(o)
        PROVE  Steady'
    BY <1>16 DEF Execute
  <1>17. ASSUME NEW o \in Opp, GrowOld(o)
        PROVE  Steady'
    BY <1>17 DEF GrowOld
  <1>18. ASSUME NEW k \in Switch, SetKill(k)
        PROVE  Steady'
    BY <1>18 DEF SetKill
  <1>19. ASSUME NEW k \in Switch, ClearKill(k)
        PROVE  Steady'
    BY <1>19 DEF ClearKill
  <1>20. CASE Cleanup
    BY <1>20 DEF Cleanup
  <1>21. CASE Crash
    BY <1>21 DEF Crash, Leave
  <1>22. CASE UNCHANGED pipelineVars
    BY <1>22 DEF pipelineVars
  <1>23. QED
    BY <1>1, <1>2, <1>3, <1>4, <1>5, <1>6, <1>7, <1>8, <1>9, <1>10, <1>11,
       <1>12, <1>13, <1>14, <1>15, <1>16, <1>17, <1>18, <1>19, <1>20, <1>21,
       <1>22 DEF PipelineNext, Step

\* No opportunity is approved under a kill switch that was set during its whole
\* evaluation.
THEOREM KillsBlockApprovals == PipelineSpec => []KillBlocksApproval
  <1>1. PipelineInit => Inv /\ Steady
    BY TypeInit, ShapeInit DEF Inv, PipelineInit, Steady
  <1>2. Inv /\ Steady /\ [PipelineNext]_pipelineVars => Inv' /\ Steady'
    BY TypeStep, ShapeStep, SteadyStep DEF Inv
  <1>3. Steady => KillBlocksApproval
    BY DEF Steady, KillBlocksApproval
  <1>4. QED
    BY <1>1, <1>2, <1>3, PTL DEF PipelineSpec

-----------------------------------------------------------------------------
(* Queued once                                                                *)

Dead(o) == state[o] \in {"EXPIRED", "BLOCKED"}

\* The inductive strengthening of QueuedOnce: while no living process stalls, a
\* candidate is scored by the holder of its job alone, and beside the row that
\* is being scored all others of its fingerprint are expired or blocked.
Single ==
  "stall" \notin happens =>
    /\ \A s \in Slot : cand[s] # NoFp => holder[cand[s]] = s /\ job[cand[s]] = "active"
    /\ \A s \in Slot, o \in Opp :
         at[s] \in Scoring \cup {"create", "enqueue"} /\ fp[o] = cand[s] /\ o # opp[s] => Dead(o)
    /\ \A o, p \in Opp :
         state[o] = "APPROVED" /\ state[p] = "APPROVED" /\ fp[o] = fp[p] => o = p

LEMMA SingleStep == PipelineTypeOK /\ Shape /\ Single /\ [PipelineNext]_pipelineVars => Single'
  <1> SUFFICES ASSUME PipelineTypeOK, Shape, Single, [PipelineNext]_pipelineVars, "stall" \notin happens'
               PROVE  Single'
    BY DEF Single
  <1>0. happens' = happens
    BY DEF PipelineNext, Step, Find, Create, Routes, KillGlobal, KillChain, Rules, Block, Approve,
           Enqueue, Finish, Throws, Take, Detect, Evict, Stall, Execute, GrowOld, SetKill,
           ClearKill, Cleanup, Crash, pipelineVars
  <1> USE PipelineAssumption, <1>0 DEF PipelineTypeOK, Shape, RowInv, SlotInv, Single, Dead, Scoring,
          PC, OppState, Opp, NoOpp, Goto, jobVars, rowVars, runVars
  <1>1. ASSUME NEW s \in Slot, Find(s)
        PROVE  Single'
    <2>1. at'[s] = "create" => \A o \in Opp : fp[o] = cand[s] => Dead(o)
      BY <1>1 DEF Find
    <2>2. \A r \in Slot : r # s => at'[r] = at[r]
      BY <1>1 DEF Find
    <2>3. at'[s] \in {"done", "create"}
      BY <1>1 DEF Find
    <2>4. /\ job' = job /\ holder' = holder /\ cand' = cand /\ opp' = opp
          /\ state' = state /\ fp' = fp
      BY <1>1 DEF Find
    <2>5. QED
      BY <2>1, <2>2, <2>3, <2>4
  <1>2. ASSUME NEW s \in Slot, Create(s)
        PROVE  Single'
    BY <1>2 DEF Create
  <1>3. ASSUME NEW s \in Slot, Routes(s)
        PROVE  Single'
    BY <1>3 DEF Routes
  <1>4. ASSUME NEW s \in Slot, KillGlobal(s)
        PROVE  Single'
    BY <1>4 DEF KillGlobal
  <1>5. ASSUME NEW s \in Slot, KillChain(s)
        PROVE  Single'
    BY <1>5 DEF KillChain
  <1>6. ASSUME NEW s \in Slot, Rules(s)
        PROVE  Single'
    BY <1>6 DEF Rules
  <1>7. ASSUME NEW s \in Slot, Block(s)
        PROVE  Single'
    BY <1>7 DEF Block
  <1>8. ASSUME NEW s \in Slot, Approve(s)
        PROVE  Single'
    <2>1. /\ state' = [state EXCEPT ![opp[s]] = "APPROVED"]
          /\ job' = job /\ holder' = holder /\ cand' = cand /\ opp' = opp /\ fp' = fp
      BY <1>8 DEF Approve
    <2>2. /\ opp[s] \in Opp /\ fp[opp[s]] = cand[s] /\ state[opp[s]] \in {"DETECTED", "EXPIRED"}
          /\ cand[s] # NoFp
      BY <1>8 DEF Approve
    <2>3. \A o \in Opp : fp[o] = cand[s] /\ o # opp[s] => Dead(o)
      BY <1>8 DEF Approve
    <2>4. \A r \in Slot : r # s => cand[r] # cand[s] \/ cand[r] = NoFp
      BY <2>2
    <2>5. /\ at' = [at EXCEPT ![s] = "enqueue"]
          /\ \A r \in Slot : r # s /\ at[r] \in Scoring \cup {"create", "enqueue"} => cand[r] # cand[s]
      BY <1>8, <2>4 DEF Approve
    <2>6. \A r \in Slot, o \in Opp :
            at'[r] \in Scoring \cup {"create", "enqueue"} /\ fp[o] = cand[r] /\ o # opp[r]
              => state'[o] \in {"EXPIRED", "BLOCKED"}
      <3>1. TAKE r \in Slot, o \in Opp
      <3>2. CASE r = s
        BY <2>1, <2>2, <2>3, <3>2
      <3>3. CASE r # s
        BY <2>1, <2>2, <2>5, <3>3
      <3>4. QED
        BY <3>2, <3>3
    <2>7. \A o, p \in Opp :
            state'[o] = "APPROVED" /\ state'[p] = "APPROVED" /\ fp[o] = fp[p] => o = p
      <3>1. SUFFICES ASSUME NEW o \in Opp, NEW p \in Opp, fp[o] = fp[p],
                            state'[o] = "APPROVED", state'[p] = "APPROVED"
                     PROVE  o = p
        OBVIOUS
      <3>2. \A q \in Opp : q # opp[s] => state'[q] = state[q]
        BY <2>1
      <3>3. \A q \in Opp : fp[q] = cand[s] /\ q # opp[s] => state[q] # "APPROVED"
        BY <2>3
      <3>4. CASE o = opp[s] \/ p = opp[s]
        BY <2>2, <3>1, <3>2, <3>3, <3>4
      <3>5. CASE o # opp[s] /\ p # opp[s]
        <4>1. state[o] = "APPROVED" /\ state[p] = "APPROVED"
          BY <3>1, <3>2, <3>5
        <4>2. QED
          BY <1>0, <3>1, <4>1 DEF Single
      <3>6. QED
        BY <3>4, <3>5
    <2>8. \A r \in Slot : cand'[r] # NoFp =>
            holder'[cand'[r]] = r /\ job'[cand'[r]] = "active"
      BY <2>1
    <2>9. QED
      BY <2>1, <2>6, <2>7, <2>8
  <1>9. ASSUME NEW s \in Slot, Enqueue(s)
        PROVE  Single'
    BY <1>9 DEF Enqueue
  <1>10. ASSUME NEW s \in Slot, Finish(s)
        PROVE  Single'
    BY <1>10 DEF Finish, Leave
  <1>11. ASSUME NEW s \in Slot, Throws(s)
        PROVE  Single'
    BY <1>11 DEF Throws
  <1>12. ASSUME NEW s \in Slot, NEW f \in Fingerprint, Take(s, f)
        PROVE  Single'
    BY <1>12 DEF Take
  <1>13. ASSUME NEW f \in Fingerprint, Detect(f)
        PROVE  Single'
    BY <1>13 DEF Detect
  <1>14. ASSUME NEW f \in Fingerprint, Evict(f)
        PROVE  Single'
    BY <1>14 DEF Evict
  <1>15. ASSUME NEW f \in Fingerprint, Stall(f)
        PROVE  Single'
    BY <1>15 DEF Stall
  <1>16. ASSUME NEW o \in Opp, Execute(o)
        PROVE  Single'
    BY <1>16 DEF Execute
  <1>17. ASSUME NEW o \in Opp, GrowOld(o)
        PROVE  Single'
    BY <1>17 DEF GrowOld
  <1>18. ASSUME NEW k \in Switch, SetKill(k)
        PROVE  Single'
    BY <1>18 DEF SetKill
  <1>19. ASSUME NEW k \in Switch, ClearKill(k)
        PROVE  Single'
    BY <1>19 DEF ClearKill
  <1>20. CASE Cleanup
    BY <1>20 DEF Cleanup
  <1>21. CASE Crash
    BY <1>21 DEF Crash, Leave
  <1>22. CASE UNCHANGED pipelineVars
    BY <1>22 DEF pipelineVars
  <1>23. QED
    BY <1>1, <1>2, <1>3, <1>4, <1>5, <1>6, <1>7, <1>8, <1>9, <1>10, <1>11,
       <1>12, <1>13, <1>14, <1>15, <1>16, <1>17, <1>18, <1>19, <1>20, <1>21,
       <1>22 DEF PipelineNext, Step

\* While no living process stalls, a candidate is queued for execution at most
\* once, through detections, crashes, throws, expiries and evicted jobs.
THEOREM CandidatesAreQueuedOnce == PipelineSpec => []QueuedOnce
  <1>1. PipelineInit => Inv /\ Single
    BY TypeInit, ShapeInit DEF Inv, PipelineInit, Single, Scoring
  <1>2. Inv /\ Single /\ [PipelineNext]_pipelineVars => Inv' /\ Single'
    BY TypeStep, ShapeStep, SingleStep DEF Inv
  <1>3. Inv /\ Single => QueuedOnce
    BY DEF Inv, Shape, RowInv, Single, QueuedOnce
  <1>4. QED
    BY <1>1, <1>2, <1>3, PTL DEF PipelineSpec
=============================================================================
