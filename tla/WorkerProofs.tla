---------------------------- MODULE WorkerProofs ----------------------------
(* What the circuit breaker promises for every set of failures and chains,   *)
(* every length of the hour and every limit; and what the watcher of the V3  *)
(* pools promises for every set of pools, however many of its polls overlap  *)
(* and however long the chain.                                               *)
EXTENDS RiskEngine, WorkerProcess, FiniteSetTheorems, TLAPS

OfChain(c) == {f \in Failure : ChainOf[f] = c}

\* A counter holds failures of its chain that were reported; a failure that was
\* not is not recent; without a key there is no counter.
Shape ==
  /\ TypeOK
  /\ \A c \in Chain : \A f \in counted[c] : ChainOf[f] = c /\ pc[f] # "todo"
  /\ \A f \in Failure : pc[f] = "todo" => age[f] = Hour
  /\ \A c \in Chain : ttl[c] = 0 => counted[c] = {}

\* Sets of failures are finite, and more failures count for more.
LEMMA FailuresCount ==
  ASSUME NEW S \in SUBSET Failure
  PROVE  /\ IsFiniteSet(S)
         /\ Cardinality(S) \in Nat
         /\ \A T \in SUBSET S : Cardinality(T) <= Cardinality(S)
  <1>1. IsFiniteSet(S)
    BY FS_Subset, RiskAssumption
  <1>2. QED
    BY <1>1, FS_Subset, FS_CardinalityType

\* INCR returns the number of failures in the counter it leaves behind, and
\* that is no more than the chain has.
LEMMA IncrCounts ==
  ASSUME Shape, NEW f \in Failure, pc[f] = "todo"
  PROVE  LET c == ChainOf[f] IN
         /\ Cardinality(counted[c] \cup {f}) = Cardinality(counted[c]) + 1
         /\ Cardinality(counted[c]) + 1 \in Nat
         /\ Cardinality(counted[c]) + 1 <= Cardinality(OfChain(c))
  <1> DEFINE c == ChainOf[f]
  <1>1. c \in Chain /\ counted[c] \in SUBSET Failure
    BY RiskAssumption DEF Shape, TypeOK
  <1>2. f \notin counted[c] /\ counted[c] \cup {f} \in SUBSET OfChain(c)
    BY <1>1 DEF Shape, OfChain
  <1>3. IsFiniteSet(counted[c]) /\ Cardinality(counted[c]) \in Nat
    BY <1>1, FailuresCount
  <1>4. Cardinality(counted[c] \cup {f}) = Cardinality(counted[c]) + 1
    BY <1>2, <1>3, FS_AddElement
  <1>5. OfChain(c) \in SUBSET Failure
    BY DEF OfChain
  <1>6. Cardinality(counted[c] \cup {f}) <= Cardinality(OfChain(c))
    BY <1>2, <1>5, FailuresCount
  <1>7. QED
    BY <1>3, <1>4, <1>6

-----------------------------------------------------------------------------
(* Types                                                                     *)

LEMMA ShapeInit == Init => Shape
  <1> SUFFICES ASSUME Init PROVE Shape
    OBVIOUS
  <1>1. \A f \in Failure : 0 <= Cardinality(OfChain(ChainOf[f]))
    BY FailuresCount DEF OfChain
  <1>2. QED
    BY <1>1, RiskAssumption DEF Init, Shape, TypeOK, OfChain, Scope, Forever

\* Every step keeps the counters in shape.
LEMMA ShapeStep == Shape /\ [Next]_vars => Shape'
  <1> SUFFICES ASSUME Shape, [Next]_vars
               PROVE  Shape'
    OBVIOUS
  <1> USE RiskAssumption DEF Shape, TypeOK, Scope, Forever, Goto
  <1>1. ASSUME NEW f \in Failure, Incr(f)
        PROVE  Shape'
    <2> DEFINE c == ChainOf[f]
    <2>1. /\ Cardinality(counted[c]) + 1 \in Nat
          /\ Cardinality(counted[c]) + 1 <= Cardinality(OfChain(c))
      BY <1>1, IncrCounts DEF Incr
    <2>2. seen' \in [Failure -> Nat]
      BY <1>1, <2>1 DEF Incr
    <2>3. \A g \in Failure : seen'[g] <= Cardinality({h \in Failure : ChainOf[h] = ChainOf[g]})
      <3>1. TAKE g \in Failure
      <3>2. CASE g = f
        BY <1>1, <2>1, <3>2 DEF Incr, OfChain
      <3>3. CASE g # f
        BY <1>1, <3>3 DEF Incr
      <3>4. QED
        BY <3>2, <3>3
    <2>4. counted' \in [Chain -> SUBSET Failure]
      BY <1>1 DEF Incr
    <2>5. /\ \A d \in Chain : \A g \in counted'[d] : ChainOf[g] = d /\ pc'[g] # "todo"
          /\ \A g \in Failure : pc'[g] = "todo" => age'[g] = Hour
      BY <1>1 DEF Incr
    <2>6. \A d \in Chain : ttl'[d] = 0 => counted'[d] = {}
      BY <1>1 DEF Incr
    <2>7. /\ ttl' \in [Chain -> 0 .. Forever]
          /\ age' \in [Failure -> 0 .. Hour]
          /\ pc' \in [Failure -> {"todo", "expire", "check", "done"}]
      BY <1>1 DEF Incr
    <2>8. setting' = setting /\ kill' = kill /\ limit' = limit
      BY <1>1 DEF Incr
    <2>9. QED
      BY <2>2, <2>3, <2>4, <2>5, <2>6, <2>7, <2>8
  <1>2. ASSUME NEW f \in Failure, Expire(f)
        PROVE  Shape'
    BY <1>2 DEF Expire
  <1>3. ASSUME NEW f \in Failure, Check(f)
        PROVE  Shape'
    BY <1>3 DEF Check
  <1>4. ASSUME NEW f \in Failure, Lose(f)
        PROVE  Shape'
    BY <1>4 DEF Lose
  <1>5. ASSUME NEW c \in Chain, RecordSuccessfulTx(c)
        PROVE  Shape'
    BY <1>5 DEF RecordSuccessfulTx, vars
  <1>6. ASSUME NEW s \in Scope, ActivateKillSwitch(s) \/ DeactivateKillSwitch(s)
        PROVE  Shape'
    BY <1>6 DEF ActivateKillSwitch, DeactivateKillSwitch
  <1>7. ASSUME NEW l \in Limits, UpdateConfig(l)
        PROVE  Shape'
    BY <1>7 DEF UpdateConfig
  <1>8. CASE Tick
    BY <1>8 DEF Tick
  <1>9. CASE UNCHANGED vars
    BY <1>9 DEF vars
  <1>10. QED
    BY <1>1, <1>2, <1>3, <1>4, <1>5, <1>6, <1>7, <1>8, <1>9 DEF Next, Report

\* The variables keep their types, and no report sees more failures than its
\* chain has.
THEOREM TypeCorrect == Spec => []TypeOK
  <1>1. Shape => TypeOK
    BY DEF Shape
  <1>2. QED
    BY <1>1, ShapeInit, ShapeStep, PTL DEF Spec

-----------------------------------------------------------------------------
(* A hot chain is rejected                                                   *)

\* The inductive strengthening of HotIsRejected: while reports are whole, each
\* recent failure is in the counter, and its report gave the key at least an
\* hour to live from then on.
Covered ==
  Reliable => \A f \in Failure : age[f] < Hour =>
    /\ f \in counted[ChainOf[f]]
    /\ pc[f] # "expire" => ttl[ChainOf[f]] + age[f] >= Hour

LEMMA CoveredInit == Init => Covered
  BY RiskAssumption DEF Init, Covered

LEMMA CoveredStep == Shape /\ Covered /\ [Next]_vars => Covered'
  <1> SUFFICES ASSUME Shape, Covered, [Next]_vars, Reliable'
               PROVE  Covered'
    BY DEF Covered
  <1> USE RiskAssumption DEF Shape, TypeOK, Scope, Forever, Goto
  <1>0. setting' = setting /\ Reliable
    BY DEF Next, Report, Incr, Expire, Check, Lose, RecordSuccessfulTx,
           ActivateKillSwitch, DeactivateKillSwitch, UpdateConfig, Tick, vars, Reliable
  <1>a. \A f \in Failure : age[f] < Hour =>
          /\ f \in counted[ChainOf[f]]
          /\ pc[f] # "expire" => ttl[ChainOf[f]] + age[f] >= Hour
    BY <1>0 DEF Covered
  <1>b. SUFFICES ASSUME NEW g \in Failure, age'[g] < Hour
                 PROVE  /\ g \in counted'[ChainOf[g]]
                        /\ pc'[g] # "expire" => ttl'[ChainOf[g]] + age'[g] >= Hour
    BY DEF Covered
  <1> DEFINE Goal == /\ g \in counted'[ChainOf[g]]
                     /\ pc'[g] # "expire" => ttl'[ChainOf[g]] + age'[g] >= Hour
  <1>1. ASSUME NEW f \in Failure, Incr(f)
        PROVE  Goal
    BY <1>1, <1>a, <1>b DEF Incr
  <1>2. ASSUME NEW f \in Failure, Expire(f)
        PROVE  Goal
    <2>1. g \in counted'[ChainOf[g]] /\ ttl[ChainOf[g]] # 0
      BY <1>2, <1>a, <1>b DEF Expire
    <2>2. QED
      BY <1>2, <1>a, <1>b, <2>1 DEF Expire
  <1>3. ASSUME NEW f \in Failure, Check(f)
        PROVE  Goal
    BY <1>3, <1>a, <1>b DEF Check
  <1>4. ASSUME NEW f \in Failure, Lose(f)
        PROVE  Goal
    BY <1>4, <1>0 DEF Lose, Reliable
  <1>5. ASSUME NEW c \in Chain, RecordSuccessfulTx(c)
        PROVE  Goal
    BY <1>5, <1>a, <1>b DEF RecordSuccessfulTx, vars
  <1>6. ASSUME NEW s \in Scope, ActivateKillSwitch(s) \/ DeactivateKillSwitch(s)
        PROVE  Goal
    BY <1>6, <1>a, <1>b DEF ActivateKillSwitch, DeactivateKillSwitch
  <1>7. ASSUME NEW l \in Limits, UpdateConfig(l)
        PROVE  Goal
    BY <1>7, <1>a, <1>b DEF UpdateConfig
  <1>8. CASE Tick
    <2>1. pc[g] # "expire" /\ pc' = pc
      BY <1>8, <1>0 DEF Tick, Reliable, InFlight
    <2>2. age[g] < Hour /\ age'[g] = age[g] + 1
      BY <1>8, <1>b DEF Tick
    <2>3. g \in counted[ChainOf[g]] /\ ttl[ChainOf[g]] + age[g] >= Hour
      BY <1>a, <2>1, <2>2
    <2>4. ttl[ChainOf[g]] \notin {0, 1}
      BY <1>b, <2>2, <2>3
    <2>5. counted'[ChainOf[g]] = counted[ChainOf[g]]
      BY <1>8, <2>4 DEF Tick
    <2>6. ttl'[ChainOf[g]] + age'[g] >= Hour
      BY <1>8, <2>2, <2>3, <2>4 DEF Tick
    <2>7. QED
      BY <2>3, <2>5, <2>6
  <1>9. CASE UNCHANGED vars
    BY <1>9, <1>a, <1>b DEF vars
  <1>10. QED
    BY <1>1, <1>2, <1>3, <1>4, <1>5, <1>6, <1>7, <1>8, <1>9 DEF Next, Report

LEMMA CoveredRejects == Shape /\ Covered => HotIsRejected
  <1> SUFFICES ASSUME Shape, Covered, Reliable, NEW c \in Chain, Hot(c)
               PROVE  Rejected(c)
    BY DEF HotIsRejected
  <1>1. Recent(c) \in SUBSET counted[c] /\ counted[c] \in SUBSET Failure /\ limit \in Nat
    BY RiskAssumption DEF Covered, Recent, Shape, TypeOK
  <1>2. Recent(c) \in SUBSET Failure
    BY DEF Recent
  <1>3. /\ Cardinality(Recent(c)) <= Cardinality(counted[c])
        /\ Cardinality(Recent(c)) \in Nat /\ Cardinality(counted[c]) \in Nat
    BY <1>1, <1>2, FailuresCount
  <1>4. QED
    BY <1>1, <1>3 DEF Hot, Rejected, RateExceeded

\* While every report reaches Redis whole, an opportunity of a chain whose
\* failures of the last hour reach the limit is rejected.
THEOREM HotChainsAreRejected == Spec => []HotIsRejected
  <1>1. Init => Shape /\ Covered
    BY ShapeInit, CoveredInit
  <1>2. Shape /\ Covered /\ [Next]_vars => Shape' /\ Covered'
    BY ShapeStep, CoveredStep
  <1>3. QED
    BY <1>1, <1>2, CoveredRejects, PTL DEF Spec

-----------------------------------------------------------------------------
(* The automatic kill                                                        *)

\* Nothing but reports touches the kill switch and the limit.
Alone == Reliable /\ setting \cap {"operator", "config"} = {}

\* The inductive strengthening of AutoKill: a counter at the limit has set the
\* switch, or the report that brought it there is about to.
Armed ==
  Alone => \A c \in Chain : Cardinality(counted[c]) >= limit =>
    \/ "GLOBAL" \in kill
    \/ \E f \in InFlight : seen[f] >= limit

LEMMA ArmedInit == Init => Armed
  <1> SUFFICES ASSUME Init, NEW c \in Chain PROVE ~(Cardinality(counted[c]) >= limit)
    BY DEF Armed
  <1>1. Cardinality(counted[c]) = 0 /\ limit \in Nat \ {0}
    BY FS_EmptySet, RiskAssumption DEF Init
  <1>2. QED
    BY <1>1

LEMMA ArmedStep == Shape /\ Armed /\ [Next]_vars => Armed'
  <1> SUFFICES ASSUME Shape, Armed, [Next]_vars, Alone', NEW c \in Chain,
                      Cardinality(counted'[c]) >= limit'
               PROVE  \/ "GLOBAL" \in kill'
                      \/ \E f \in InFlight' : seen'[f] >= limit'
    BY DEF Armed
  <1> USE RiskAssumption DEF Goto
  <1> DEFINE Goal == \/ "GLOBAL" \in kill'
                     \/ \E f \in InFlight' : seen'[f] >= limit'
  <1>t. /\ pc \in [Failure -> {"todo", "expire", "check", "done"}]
        /\ seen \in [Failure -> Nat] /\ limit \in Nat
        /\ counted \in [Chain -> SUBSET Failure]
        /\ ttl \in [Chain -> 0 .. Forever]
    BY DEF Shape, TypeOK
  <1>0. setting' = setting /\ Alone
    BY DEF Next, Report, Incr, Expire, Check, Lose, RecordSuccessfulTx,
           ActivateKillSwitch, DeactivateKillSwitch, UpdateConfig, Tick, vars, Reliable, Alone
  <1>a. Cardinality(counted[c]) >= limit =>
          \/ "GLOBAL" \in kill
          \/ \E f \in InFlight : seen[f] >= limit
    BY <1>0 DEF Armed
  <1>1. ASSUME NEW f \in Failure, Incr(f)
        PROVE  Goal
    <2>0. limit' = limit /\ kill' = kill /\ pc[f] = "todo"
      BY <1>1 DEF Incr
    <2>1. CASE c = ChainOf[f]
      <3>1. Cardinality(counted'[c]) = seen'[f]
        BY <1>1, <1>t, <2>0, <2>1, IncrCounts DEF Incr
      <3>2. f \in InFlight'
        BY <1>1, <1>t DEF Incr, InFlight
      <3>3. QED
        BY <3>1, <3>2
    <2>2. CASE c # ChainOf[f]
      <3>1. counted'[c] = counted[c]
        BY <1>1, <1>t, <2>2 DEF Incr
      <3>2. \A g \in InFlight : g \in InFlight' /\ seen'[g] = seen[g]
        BY <1>1, <1>t, <2>0 DEF Incr, InFlight
      <3>3. QED
        BY <1>a, <2>0, <3>1, <3>2
    <2>3. QED
      BY <2>1, <2>2
  <1>2. ASSUME NEW f \in Failure, Expire(f)
        PROVE  Goal
    <2>1. \A g \in InFlight : g \in InFlight'
      BY <1>2, <1>t DEF Expire, InFlight
    <2>2. limit' = limit /\ kill' = kill /\ seen' = seen /\ counted' = counted
      BY <1>2 DEF Expire
    <2>3. QED
      BY <1>a, <2>1, <2>2
  <1>3. ASSUME NEW f \in Failure, Check(f)
        PROVE  Goal
    <2>1. limit' = limit /\ seen' = seen /\ counted' = counted
      BY <1>3 DEF Check
    <2>2. CASE seen[f] >= limit
      BY <1>3, <2>2 DEF Check
    <2>3. CASE ~(seen[f] >= limit)
      <3>1. \A g \in InFlight : seen[g] >= limit => g \in InFlight'
        BY <1>3, <1>t, <2>3 DEF Check, InFlight
      <3>2. kill' = kill
        BY <1>3, <2>3 DEF Check
      <3>3. QED
        BY <1>a, <2>1, <3>1, <3>2
    <2>4. QED
      BY <2>2, <2>3
  <1>4. ASSUME NEW f \in Failure, Lose(f)
        PROVE  Goal
    BY <1>4, <1>0 DEF Lose, Reliable, Alone
  <1>5. ASSUME NEW d \in Chain, RecordSuccessfulTx(d)
        PROVE  Goal
    BY <1>5, <1>a DEF RecordSuccessfulTx, vars, InFlight
  <1>6. ASSUME NEW s \in Scope, ActivateKillSwitch(s) \/ DeactivateKillSwitch(s)
        PROVE  Goal
    BY <1>6, <1>0 DEF ActivateKillSwitch, DeactivateKillSwitch, Alone
  <1>7. ASSUME NEW l \in Limits, UpdateConfig(l)
        PROVE  Goal
    BY <1>7, <1>0 DEF UpdateConfig, Alone
  <1>8. CASE Tick
    <2>1. Cardinality(counted'[c]) <= Cardinality(counted[c])
      <3>1. counted'[c] \in SUBSET counted[c] /\ counted[c] \in SUBSET Failure
        BY <1>8, <1>t DEF Tick
      <3>2. QED
        BY <3>1, FailuresCount
    <2>2. limit' = limit /\ kill' = kill /\ seen' = seen /\ InFlight' = InFlight
      BY <1>8 DEF Tick, InFlight
    <2>3. Cardinality(counted'[c]) \in Nat /\ Cardinality(counted[c]) \in Nat
      BY <1>8, <1>t, FailuresCount DEF Tick
    <2>4. QED
      BY <1>a, <1>t, <2>1, <2>2, <2>3
  <1>9. CASE UNCHANGED vars
    BY <1>9, <1>a DEF vars, InFlight
  <1>10. QED
    BY <1>1, <1>2, <1>3, <1>4, <1>5, <1>6, <1>7, <1>8, <1>9 DEF Next, Report

LEMMA ArmedKills == Shape /\ Covered /\ Armed => AutoKill
  <1> SUFFICES ASSUME Shape, Covered, Armed, Alone, NEW c \in Chain, Hot(c), InFlight = {}
               PROVE  "GLOBAL" \in kill
    BY DEF AutoKill, Alone
  <1>1. Recent(c) \in SUBSET counted[c] /\ counted[c] \in SUBSET Failure /\ limit \in Nat
    BY RiskAssumption DEF Covered, Recent, Shape, TypeOK, Alone
  <1>2. Recent(c) \in SUBSET Failure
    BY DEF Recent
  <1>3. /\ Cardinality(Recent(c)) <= Cardinality(counted[c])
        /\ Cardinality(Recent(c)) \in Nat /\ Cardinality(counted[c]) \in Nat
    BY <1>1, <1>2, FailuresCount
  <1>4. Cardinality(counted[c]) >= limit
    BY <1>1, <1>3 DEF Hot
  <1>5. QED
    BY <1>4 DEF Armed

\* With nobody to clear the switch or change the limit, a chain whose failures
\* of the last hour reach the limit has set the global kill switch as soon as
\* its reports are through.
THEOREM HotChainsKill == Spec => []AutoKill
  <1>1. Init => Shape /\ Covered /\ Armed
    BY ShapeInit, CoveredInit, ArmedInit
  <1>2. Shape /\ Covered /\ Armed /\ [Next]_vars => Shape' /\ Covered' /\ Armed'
    BY ShapeStep, CoveredStep, ArmedStep
  <1>3. QED
    BY <1>1, <1>2, ArmedKills, PTL DEF Spec

-----------------------------------------------------------------------------
(* What a stale entry waits for                                              *)

\* A poll waits for the logs of a window that ends at a block of the chain.
Polls ==
  /\ poll \in [Poll -> [pc : {"idle", "logs"}, from : Int, to : Int]]
  /\ \A q \in Poll : poll[q].pc = "logs" => poll[q].from <= poll[q].to /\ poll[q].to \in 1 .. head

\* The watcher starts when every read is done, and looks at no block before.
Watch ==
  /\ watched \subseteq Pool
  /\ watched # {} => /\ phase \in {"scheduling", "counting", "up"}
                     /\ unread = {} /\ reading = NoRead
  /\ watched = {} => lastBlock = 0 /\ \A q \in Poll : poll[q].pc = "idle"

\* lastBlock is never ahead of the chain.
Blocks ==
  /\ {head, lastBlock, opened} \subseteq Int
  /\ head \in Block /\ lastBlock <= head
  /\ lastBlock = 0 => opened = 0
  /\ events \in [Block -> Event \cup {NoEvent}]
  /\ cache \in [Pool -> SUBSET Int]
  /\ reading \in [pool : Pool \cup {"none"}, calls : Int, at : SUBSET Int]

\* The poll that delivers an event is under way.
Awaited(b) == \E q \in Poll : poll[q].pc = "logs" /\ b \in poll[q].from .. poll[q].to

\* What overtakes an entry before the window of some poll is in the window of
\* another: the poll may set lastBlock to the end of its window.
NothingSkipped ==
  "logs" \notin faults =>
    \A p \in watched : \A b \in 1 .. head : \A q \in Poll :
      (Overtaken(p, b) /\ b > opened /\ poll[q].pc = "logs" /\ b < poll[q].from) => Awaited(b)

WatchInv == Blocks /\ Polls /\ Watch /\ NothingSkipped /\ StaleBriefly

LEMMA WatchInit == WorkerInit => WatchInv
  BY CacheAssumption DEF WorkerInit, SchedInit, CacheInit, WatchInv, Blocks, Polls, Watch,
     NothingSkipped, StaleBriefly, NoPoll, NoRead, Block, Awaited, Overtaken, Event

\* A step that leaves the cache and its watcher alone, whatever the process does.
LEMMA WatchRests ==
  ASSUME WatchInv, UNCHANGED <<faults, cacheVars>>,
         phase \in {"scheduling", "counting", "up"} => phase' \in {"scheduling", "counting", "up"}
  PROVE  WatchInv'
  BY DEF WatchInv, Blocks, Polls, Watch, NothingSkipped, StaleBriefly, Overtaken, Awaited,
         cacheVars

\* An exit takes the watcher with the cache.
LEMMA WatchForgets ==
  ASSUME WatchInv, Forget
  PROVE  WatchInv'
  <1>1. /\ UNCHANGED <<head, events>> /\ reading' = NoRead /\ unread' = {}
        /\ cache' = [p \in Pool |-> {}] /\ watched' = {} /\ lastBlock' = 0
        /\ poll' = [q \in Poll |-> NoPoll] /\ opened' = 0
    BY DEF Forget, chainVars
  <1>2. Blocks'
    BY <1>1 DEF WatchInv, Blocks, NoRead, Block
  <1>3. Polls' /\ Watch'
    BY <1>1 DEF WatchInv, Polls, Watch, NoPoll
  <1>4. NothingSkipped' /\ StaleBriefly'
    BY <1>1 DEF NothingSkipped, StaleBriefly
  <1>5. QED
    BY <1>2, <1>3, <1>4 DEF WatchInv

LEMMA SchedulerKeepsWatch ==
  ASSUME WatchInv, SchedNext, IF Exits THEN Forget ELSE UNCHANGED cacheVars
  PROVE  WatchInv'
  <1>1. CASE Exits
    BY <1>1, WatchForgets
  <1>2. CASE ~Exits
    <2>1. UNCHANGED cacheVars
      BY <1>2
    <2>2. /\ faults' = faults
          /\ phase' = phase \/ phase' \in {"down", "counting", "up"}
      BY DEF SchedNext, Toggle, StartScheduler, StartupScan, StartFails, Down, Fire,
             ReadKillSwitch, ReadRows, AddFails, Add, TakeScan, TakeStalled, ScanEnds, Crash,
             Shutdown, ScanPool, ScanPoolFails, frameVars
    <2>3. phase # "down" => phase' # "down"
      BY <1>2 DEF Exits
    <2>4. QED
      BY <2>1, <2>2, <2>3, WatchRests
  <1>3. QED
    BY <1>1, <1>2

\* A new block has no event an entry accounts for, and is after every window.
LEMMA BlockKeepsWatch ==
  ASSUME WatchInv, NEW e \in Event \cup {NoEvent}, Mine(e), UNCHANGED schedVars
  PROVE  WatchInv'
  <1> USE DEF WatchInv
  <1>1. UNCHANGED <<faults, phase, reading, unread, cache, watched, lastBlock, poll, opened>>
    BY DEF Mine, watchVars, schedVars
  <1>2. head' = head + 1 /\ head + 1 \in Block /\ head \in Nat
    BY CacheAssumption DEF Mine, Block, Blocks
  <1>3. Blocks'
    BY <1>1, <1>2 DEF Blocks, Mine
  <1>4. Polls'
    BY <1>1, <1>2 DEF Polls, Blocks
  <1>5. Watch'
    BY <1>1 DEF Watch
  <1>6. \A p \in Pool : \A b \in 1 .. head : Overtaken(p, b)' => Overtaken(p, b)
    BY <1>1, <1>2 DEF Overtaken, Mine, Blocks
  <1>7. \A b \in 1 .. head' : b \in 1 .. head \/ b = head + 1
    BY <1>2
  <1>8. \A b : Awaited(b)' <=> Awaited(b)
    BY <1>1 DEF Awaited
  <1>9. NothingSkipped'
    BY <1>1, <1>2, <1>6, <1>7, <1>8 DEF NothingSkipped, Polls, Watch
  <1>10. StaleBriefly'
    BY <1>1, <1>2, <1>6, <1>7, <1>8 DEF StaleBriefly, Blocks, Watch, Awaited
  <1>11. QED
    BY <1>3, <1>4, <1>5, <1>9, <1>10

\* Pools are read before the watcher starts, or it never does.
LEMMA ReadsKeepWatch ==
  ASSUME WatchInv,
         (\E p \in Pool : BeginPool(p)) \/ ReadCall \/ StorePool \/ ReadFails,
         UNCHANGED schedVars
  PROVE  WatchInv'
  <1> USE DEF WatchInv
  <1>1. UNCHANGED <<faults, phase, head, events, watched, lastBlock, poll, opened>>
    BY DEF BeginPool, ReadCall, StorePool, ReadFails, watchVars, chainVars, schedVars
  <1>2. watched = {}
    BY DEF BeginPool, ReadCall, StorePool, ReadFails, Watch
  <1>3. /\ cache' \in [Pool -> SUBSET Int]
        /\ reading' \in [pool : Pool \cup {"none"}, calls : Int, at : SUBSET Int]
    <2>1. ASSUME NEW p \in Pool, BeginPool(p)
          PROVE  cache' = cache /\ reading' = [pool |-> p, calls |-> 0, at |-> {}]
      BY <2>1 DEF BeginPool
    <2>2. CASE ReadCall
      <3>1. cache' = cache
        BY <2>2 DEF ReadCall
      <3>2. reading' = [reading EXCEPT !.calls = reading.calls + 1, !.at = reading.at \cup {head}]
        BY <2>2 DEF ReadCall
      <3>3. reading.calls + 1 \in Int /\ reading.at \cup {head} \in SUBSET Int
        BY DEF Blocks
      <3>4. QED
        BY <3>1, <3>2, <3>3 DEF Blocks
    <2>3. CASE StorePool
      <3>1. /\ cache' = [cache EXCEPT ![reading.pool] = reading.at] /\ reading' = NoRead
            /\ reading.at \in SUBSET Int
        BY <2>3 DEF StorePool, Blocks
      <3>2. cache' \in [Pool -> SUBSET Int]
        BY <3>1 DEF Blocks
      <3>3. QED
        BY <3>1, <3>2 DEF NoRead
    <2>4. CASE ReadFails
      BY <2>4 DEF ReadFails, Blocks, NoRead
    <2>5. QED
      BY <2>1, <2>2, <2>3, <2>4 DEF Blocks
  <1>4. QED
    BY <1>1, <1>2, <1>3 DEF Blocks, Polls, Watch, NothingSkipped, StaleBriefly

\* A poll's window begins after lastBlock, and the first window is opened.
LEMMA PollKeepsWatch ==
  ASSUME WatchInv, NEW q \in Poll, PollBlock(q), UNCHANGED schedVars
  PROVE  WatchInv'
  <1> USE DEF WatchInv
  <1> DEFINE last == IF lastBlock = 0 THEN head - BackStep ELSE lastBlock
  <1>1. UNCHANGED <<faults, phase, head, events, reading, unread, cache, watched>>
    BY DEF PollBlock, chainVars, schedVars
  <1>2. /\ watched # {} /\ poll[q].pc = "idle"
        /\ lastBlock' = last /\ opened' = IF lastBlock = 0 THEN last ELSE opened
        /\ poll' = IF head > last
                     THEN [poll EXCEPT ![q] = [pc |-> "logs", from |-> last + 1, to |-> head]]
                     ELSE poll
    BY DEF PollBlock
  <1>3. last \in Int /\ last <= head /\ (lastBlock # 0 => last = lastBlock) /\ head \in Int
    BY CacheAssumption DEF Blocks
  <1> HIDE DEF last
  <1>4. Blocks'
    BY <1>1, <1>2, <1>3 DEF Blocks
  <1>5. Polls'
    <2>1. head \in 1 .. head /\ last + 1 \in Int /\ (head > last => last + 1 <= head)
      BY <1>3 DEF Blocks, Block
    <2>2. [pc |-> "logs", from |-> last + 1, to |-> head]
            \in [pc : {"idle", "logs"}, from : Int, to : Int]
      BY <1>3, <2>1
    <2>3. poll' \in [Poll -> [pc : {"idle", "logs"}, from : Int, to : Int]]
      BY <1>2, <2>2 DEF Polls
    <2>4. \A r \in Poll : poll'[r] = poll[r] \/
            (head > last /\ poll'[r] = [pc |-> "logs", from |-> last + 1, to |-> head])
      BY <1>2 DEF Polls
    <2>5. QED
      BY <1>1, <2>1, <2>3, <2>4 DEF Polls
  <1>6. Watch'
    BY <1>1, <1>2 DEF Watch
  <1>7. \A p, b : Overtaken(p, b)' <=> Overtaken(p, b)
    BY <1>1 DEF Overtaken
  <1>8. \A r \in Poll : poll[r].pc = "logs" => r # q /\ poll'[r] = poll[r]
    BY <1>2 DEF Polls
  <1>9. \A b : Awaited(b) => Awaited(b)'
    BY <1>8 DEF Awaited
  <1>10. \A b \in 1 .. head : b > opened' => b > opened
    BY <1>2, <1>3 DEF Blocks
  <1>11. \A r \in Poll : poll'[r].pc = "logs" =>
           poll'[r] = poll[r] \/ poll'[r].from = last + 1
    BY <1>2 DEF Polls
  <1>12. StaleBriefly'
    BY <1>1, <1>2, <1>3, <1>7, <1>9, <1>10 DEF StaleBriefly, Awaited, Blocks
  <1>13. NothingSkipped'
    <2> SUFFICES ASSUME "logs" \notin faults, NEW p \in watched, NEW b \in 1 .. head,
                        NEW r \in Poll, Overtaken(p, b), b > opened', poll'[r].pc = "logs",
                        b < poll'[r].from
                 PROVE  Awaited(b)'
      BY <1>1, <1>7 DEF NothingSkipped
    <2>1. CASE poll'[r] = poll[r]
      BY <2>1, <1>9, <1>10 DEF NothingSkipped
    <2>2. CASE poll'[r].from = last + 1
      <3>1. b <= last
        BY <2>2, <1>3
      <3>2. lastBlock # 0 /\ b > opened /\ ~ (b > lastBlock)
        BY <3>1, <1>2, <1>3, <1>10
      <3>3. Awaited(b)
        BY <3>2 DEF StaleBriefly, Awaited
      <3>4. QED
        BY <3>3, <1>9
    <2>3. QED
      BY <2>1, <2>2, <1>11
  <1>14. QED
    BY <1>4, <1>5, <1>6, <1>12, <1>13

\* Logs that arrive evict what they overtake; the rest is in other windows.
LEMMA LogsKeepWatch ==
  ASSUME WatchInv, NEW q \in Poll, NEW lost \in LostLogs, PollLogs(q, lost), UNCHANGED schedVars
  PROVE  WatchInv'
  <1> USE DEF WatchInv
  <1>1. UNCHANGED <<faults, phase, head, events, reading, unread, watched, opened>>
    BY DEF PollLogs, chainVars, schedVars
  <1>2. /\ poll[q].pc = "logs" /\ poll[q].from <= poll[q].to /\ poll[q].to \in 1 .. head
        /\ {head, poll[q].from, poll[q].to} \subseteq Int
        /\ lastBlock' = poll[q].to /\ poll' = [poll EXCEPT ![q] = NoPoll]
    BY DEF PollLogs, Polls, Blocks
  <1>3. watched # {}
    BY <1>2 DEF Watch
  <1>4. \A p \in Pool : cache'[p] \in {{}, cache[p]}
    BY DEF PollLogs
  <1>5. \A p \in Pool : \A b : Overtaken(p, b)' => Overtaken(p, b)
    BY <1>1, <1>4 DEF Overtaken
  <1>6. "logs" \notin faults =>
          \A p \in watched : \A b \in 1 .. head : Overtaken(p, b)' =>
            ~ (b \in poll[q].from .. poll[q].to)
    <2> SUFFICES ASSUME "logs" \notin faults, NEW p \in watched, NEW b \in 1 .. head,
                        events[b].pool = p, b \in poll[q].from .. poll[q].to
                 PROVE  cache'[p] = {}
      BY <1>1 DEF Overtaken
    <2>1. lost = {}
      BY DEF LostLogs
    <2>2. b \in Block \cap (poll[q].from .. poll[q].to) /\ p \in Pool
      BY CacheAssumption DEF Block, Blocks, Watch, WatchInv
    <2>3. QED
      BY <2>1, <2>2 DEF PollLogs
  <1>7. \A r \in Poll : poll'[r].pc = "logs" => r # q /\ poll'[r] = poll[r]
    BY <1>2 DEF Polls, NoPoll
  <1>8. \A r \in Poll : r # q => poll'[r] = poll[r]
    BY <1>2 DEF Polls
  <1>9. \A b : Awaited(b) /\ ~ (b \in poll[q].from .. poll[q].to) => Awaited(b)'
    BY <1>8 DEF Awaited
  <1>10. Blocks'
    <2>1. cache' \in [Pool -> SUBSET Int]
      <3>1. cache' = [p \in Pool |-> cache'[p]]
        BY DEF PollLogs
      <3>2. QED
        BY <1>4, <3>1 DEF Blocks
    <2>2. lastBlock' = 0 => opened = 0
      BY <1>2 DEF Blocks
    <2>3. QED
      BY <1>1, <1>2, <2>1, <2>2 DEF Blocks
  <1>11. Polls'
    BY <1>1, <1>2 DEF Polls, NoPoll
  <1>12. Watch'
    BY <1>1, <1>3 DEF Watch
  <1>13. NothingSkipped'
    BY <1>1, <1>5, <1>6, <1>7, <1>9 DEF NothingSkipped, Watch
  <1>14. StaleBriefly'
    <2> SUFFICES ASSUME "logs" \notin faults, NEW p \in watched, NEW b \in 1 .. head,
                        Overtaken(p, b)', b > opened, ~ (b > poll[q].to)
                 PROVE  Awaited(b)'
      BY <1>1, <1>2 DEF StaleBriefly, Awaited
    <2>1. Overtaken(p, b) /\ ~ (b \in poll[q].from .. poll[q].to)
      BY <1>5, <1>6 DEF Watch
    <2>2. b < poll[q].from
      BY <1>2, <2>1
    <2>3. Awaited(b)
      BY <1>2, <2>1, <2>2 DEF NothingSkipped
    <2>4. QED
      BY <1>9, <2>1, <2>3
  <1>15. QED
    BY <1>10, <1>11, <1>12, <1>13, <1>14

\* Boot, the registration of the adapters and the end of the first reads.
LEMMA StartKeepsWatch ==
  ASSUME WatchInv, Boot \/ RegisterAdapters \/ ReadsInTime \/ ReadsTimeOut
  PROVE  WatchInv'
  <1> USE DEF WatchInv
  <1>1. CASE Boot
    BY <1>1, WatchRests DEF Boot
  <1>2. CASE RegisterAdapters
    <2>1. /\ UNCHANGED <<faults, head, events, reading, cache, watched, lastBlock, poll, opened>>
          /\ watched = {}
      BY <1>2 DEF RegisterAdapters, BeginReads, watchVars, chainVars, Watch
    <2>2. QED
      BY <2>1 DEF Blocks, Polls, Watch, NothingSkipped, StaleBriefly
  <1>3. CASE ReadsInTime
    <2>1. /\ UNCHANGED <<faults, head, events, reading, unread, cache, lastBlock, poll, opened>>
          /\ watched = {} /\ watched' \subseteq Pool
          /\ unread = {} /\ reading = NoRead /\ phase' = "scheduling"
      BY <1>3 DEF ReadsInTime, ReadsDone, StartWatcher, chainVars, Watch, Cached
    <2>2. lastBlock' = 0 /\ \A q \in Poll : poll'[q].pc = "idle"
      BY <2>1 DEF Watch
    <2>3. Blocks' /\ Polls'
      BY <2>1 DEF Blocks, Polls
    <2>4. Watch'
      BY <2>1, <2>2 DEF Watch
    <2>5. NothingSkipped' /\ StaleBriefly'
      BY <2>2 DEF NothingSkipped, StaleBriefly
    <2>6. QED
      BY <2>3, <2>4, <2>5
  <1>4. CASE ReadsTimeOut
    BY <1>4, WatchRests DEF ReadsTimeOut
  <1>5. QED
    BY <1>1, <1>2, <1>3, <1>4

LEMMA WatchStep == WatchInv /\ [WorkerNext]_workerVars => WatchInv'
  <1> SUFFICES ASSUME WatchInv, [WorkerNext]_workerVars
               PROVE  WatchInv'
    OBVIOUS
  <1>1. CASE Boot \/ RegisterAdapters \/ ReadsInTime \/ ReadsTimeOut
    BY <1>1, StartKeepsWatch
  <1>2. CASE SchedNext /\ IF Exits THEN Forget ELSE UNCHANGED cacheVars
    BY <1>2, SchedulerKeepsWatch
  <1>3. CASE CacheNext /\ UNCHANGED schedVars
    <2>1. ASSUME NEW e \in Event \cup {NoEvent}, Mine(e)
          PROVE  WatchInv'
      BY <1>3, <2>1, BlockKeepsWatch
    <2>2. CASE (\E p \in Pool : BeginPool(p)) \/ ReadCall \/ StorePool \/ ReadFails
      BY <1>3, <2>2, ReadsKeepWatch
    <2>3. ASSUME NEW q \in Poll, PollBlock(q)
          PROVE  WatchInv'
      BY <1>3, <2>3, PollKeepsWatch
    <2>4. ASSUME NEW q \in Poll, NEW lost \in LostLogs, PollLogs(q, lost)
          PROVE  WatchInv'
      BY <1>3, <2>4, LogsKeepWatch
    <2>5. QED
      BY <1>3, <2>1, <2>2, <2>3, <2>4 DEF CacheNext
  <1>4. CASE UNCHANGED workerVars
    BY <1>4, WatchRests DEF workerVars, schedVars
  <1>5. QED
    BY <1>1, <1>2, <1>3, <1>4 DEF WorkerNext

\* While getLogs answers, an event that overtakes the cached state of a watched
\* pool is still to be delivered, by the next poll or by one that waits for its
\* logs: with any number of overlapping polls that set lastBlock back, and
\* through every crash, none is skipped for good.
THEOREM StaleEntriesAreBrief == WorkerSpec => []StaleBriefly
  <1>1. WatchInv => StaleBriefly
    BY DEF WatchInv
  <1>2. QED
    BY <1>1, WatchInit, WatchStep, PTL DEF WorkerSpec

=============================================================================
