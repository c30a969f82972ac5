---------------------------- MODULE TradeProofs ----------------------------
(* What NonceManager, FlashArb and TradeRoute promise for every set of       *)
(* callers, candidates, venues and pools, and for every bound.               *)
EXTENDS NonceManager, FlashArb, TradeRoute, FiniteSetTheorems, TLAPS

-----------------------------------------------------------------------------
(* Types                                                                    *)

\* Every step keeps the types.
LEMMA TypeStep == TypeOK /\ [Next]_vars => TypeOK'
  <1> SUFFICES ASSUME TypeOK, [Next]_vars
               PROVE  TypeOK'
    OBVIOUS
  <1> USE NonceAssumption DEF TypeOK, PC, Goto
  <1>1. ASSUME NEW p \in Caller, Begin(p)
        PROVE  TypeOK'
    BY <1>1 DEF Begin
  <1>2. ASSUME NEW p \in Caller, TryLock(p)
        PROVE  TypeOK'
    BY <1>2 DEF TryLock
  <1>3. ASSUME NEW p \in Caller, SpinTimeout(p)
        PROVE  TypeOK'
    BY <1>3 DEF SpinTimeout
  <1>4. ASSUME NEW p \in Caller, ReadCache(p)
        PROVE  TypeOK'
    BY <1>4 DEF ReadCache
  <1>5. ASSUME NEW p \in Caller, CountTransactions(p)
        PROVE  TypeOK'
    BY <1>5 DEF CountTransactions
  <1>6. ASSUME NEW p \in Caller, Send(p)
        PROVE  TypeOK'
    <2>1. nonce[p] \in Nat
      OBVIOUS
    <2>2. used' \in SUBSET Nat /\ lost' \in SUBSET Nat
      <3>1. used' \subseteq used \cup {nonce[p]} /\ lost' \subseteq lost \cup {nonce[p]}
        BY <1>6 DEF Send
      <3>2. QED
        BY <2>1, <3>1
    <2>3. pc' \in [Caller -> PC] /\ phase' \in [Caller -> {"try", "catch", "late"}]
      BY <1>6 DEF Send
    <2>4. QED
      BY <1>6, <2>2, <2>3 DEF Send
  <1>7. ASSUME NEW p \in Caller, WaitReceipt(p)
        PROVE  TypeOK'
    BY <1>7 DEF WaitReceipt
  <1>8. ASSUME NEW p \in Caller, SetCache(p)
        PROVE  TypeOK'
    BY <1>8 DEF SetCache
  <1>9. ASSUME NEW p \in Caller, CheckLock(p)
        PROVE  TypeOK'
    BY <1>9 DEF CheckLock, AfterRelease
  <1>10. ASSUME NEW p \in Caller, DelLock(p)
         PROVE  TypeOK'
    BY <1>10 DEF DelLock, AfterRelease
  <1>11. ASSUME NEW p \in Caller, RedisThrows(p)
         PROVE  TypeOK'
    BY <1>11 DEF RedisThrows
  <1>12. ASSUME NEW p \in Caller, Crash(p)
         PROVE  TypeOK'
    BY <1>12 DEF Crash
  <1>13. CASE LockExpires
    BY <1>13 DEF LockExpires
  <1>14. CASE CacheExpires
    BY <1>14 DEF CacheExpires
  <1>15. CASE UNCHANGED vars
    BY <1>15 DEF vars
  <1>16. QED
    BY <1>1, <1>2, <1>3, <1>4, <1>5, <1>6, <1>7, <1>8, <1>9, <1>10, <1>11,
       <1>12, <1>13, <1>14, <1>15 DEF Next, Step

\* The variables of NonceManager keep their types whatever the environment does.
THEOREM TypeCorrect == Spec => []TypeOK
  <1>1. Init => TypeOK
    BY NonceAssumption DEF Init, TypeOK, PC
  <1>2. QED
    BY <1>1, TypeStep, PTL DEF Spec

-----------------------------------------------------------------------------
(* Mutual exclusion, as long as no holder overruns the lock's time to live  *)

\* The inductive strengthening of MutualExclusion: a critical caller, and one
\* about to delete the lock, own the lock.
LockOwned ==
  \A p \in Caller : Critical(p) \/ pc[p] = "delLock" => lock = p

\* What may go wrong stays the same all along.
LEMMA FaultsStay == [Next]_vars => faults' = faults
  BY DEF Next, Step, Begin, TryLock, SpinTimeout, ReadCache, CountTransactions,
         Send, WaitReceipt, SetCache, CheckLock, DelLock, RedisThrows, Crash,
         LockExpires, CacheExpires, vars

\* Where LockOwned holds at most one caller is critical.
LEMMA OwnedImpliesExclusion == LockOwned => MutualExclusion
  BY DEF LockOwned, MutualExclusion

\* A step that leaves the lock alone and moves only p keeps LockOwned when it
\* does not make p critical.
LEMMA LockOwnedStep ==
  ASSUME TypeOK, "overrun" \notin faults, LockOwned, [Next]_vars
  PROVE  LockOwned'
  <1> USE NonceAssumption DEF TypeOK, LockOwned, Critical, Goto
  <1>1. ASSUME NEW p \in Caller, Begin(p)
        PROVE  LockOwned'
    BY <1>1 DEF Begin
  <1>2. ASSUME NEW p \in Caller, TryLock(p)
        PROVE  LockOwned'
    BY <1>2 DEF TryLock
  <1>3. ASSUME NEW p \in Caller, SpinTimeout(p)
        PROVE  LockOwned'
    BY <1>3 DEF SpinTimeout
  <1>4. ASSUME NEW p \in Caller, ReadCache(p)
        PROVE  LockOwned'
    BY <1>4 DEF ReadCache
  <1>5. ASSUME NEW p \in Caller, CountTransactions(p)
        PROVE  LockOwned'
    BY <1>5 DEF CountTransactions
  <1>6. ASSUME NEW p \in Caller, Send(p)
        PROVE  LockOwned'
    BY <1>6 DEF Send
  <1>7. ASSUME NEW p \in Caller, WaitReceipt(p)
        PROVE  LockOwned'
    BY <1>7 DEF WaitReceipt
  <1>8. ASSUME NEW p \in Caller, SetCache(p)
        PROVE  LockOwned'
    BY <1>8 DEF SetCache
  <1>9. ASSUME NEW p \in Caller, CheckLock(p)
        PROVE  LockOwned'
    BY <1>9 DEF CheckLock, AfterRelease
  <1>10. ASSUME NEW p \in Caller, DelLock(p)
         PROVE  LockOwned'
    BY <1>10 DEF DelLock, AfterRelease
  <1>11. ASSUME NEW p \in Caller, RedisThrows(p)
         PROVE  LockOwned'
    BY <1>11 DEF RedisThrows
  <1>12. ASSUME NEW p \in Caller, Crash(p)
         PROVE  LockOwned'
    BY <1>12 DEF Crash
  <1>13. CASE LockExpires
    BY <1>13 DEF LockExpires, Working
  <1>14. CASE CacheExpires
    BY <1>14 DEF CacheExpires
  <1>15. CASE UNCHANGED vars
    BY <1>15 DEF vars
  <1>16. QED
    BY <1>1, <1>2, <1>3, <1>4, <1>5, <1>6, <1>7, <1>8, <1>9, <1>10, <1>11,
       <1>12, <1>13, <1>14, <1>15 DEF Next, Step

\* Crashes, Redis errors, failed sends and late releases never let two callers
\* into the part of acquireNonce and release that the lock is for; only a lock
\* that expires under its working holder does.
THEOREM LockExcludes == Spec => []MutualExclusion
  <1> DEFINE Inv == "overrun" \notin faults => LockOwned
  <1>1. Init => Inv
    BY DEF Init, LockOwned, Critical
  <1>2. TypeOK /\ Inv /\ [Next]_vars => Inv'
    BY LockOwnedStep, FaultsStay
  <1>3. Inv => MutualExclusion
    BY OwnedImpliesExclusion DEF MutualExclusion
  <1>4. QED
    BY <1>1, <1>2, <1>3, TypeCorrect, PTL DEF Spec

-----------------------------------------------------------------------------
(* Unused nonces, as long as every holder lives and finishes its release    *)

\* The faults under which a lock stays with its working holder to the end.
HoldersFinish == faults \subseteq {"rpcFails", "sendFails", "cacheExpires"}



\* The counter that the cache stands for.
Count == IF cache = NoNonce THEN 0 ELSE cache

\* Whoever works, up to the end of its release, owns the lock; without a
\* cached nonce nobody but a reader of the chain relies on there being none.
HoldsLock ==
  \A p \in Caller : /\ Working(p) => lock = p
                    /\ pc[p] = "rpc" => cache = NoNonce

\* The nonces given out and consumed are the ones below the counter, and the
\* counter itself between a submission and the cache write.
Consumed ==
  /\ \A p \in Caller : pc[p] \in {"held", "setCache"} => nonce[p] = Count
  /\ used \cup lost =
       IF \E p \in Caller : pc[p] = "setCache" THEN 0 .. Count ELSE 0 .. Count - 1

LEMMA HoldsLockStep ==
  ASSUME TypeOK, HoldsLock, HoldersFinish, [Next]_vars
  PROVE  HoldsLock'
  <1> USE NonceAssumption DEF TypeOK, HoldsLock, Working, Goto, HoldersFinish
  <1>1. ASSUME NEW p \in Caller, Begin(p)
       PROVE  HoldsLock'
    BY <1>1 DEF Begin
  <1>2. ASSUME NEW p \in Caller, TryLock(p)
       PROVE  HoldsLock'
    BY <1>2 DEF TryLock
  <1>3. ASSUME NEW p \in Caller, SpinTimeout(p)
       PROVE  HoldsLock'
    BY <1>3 DEF SpinTimeout
  <1>4. ASSUME NEW p \in Caller, ReadCache(p)
       PROVE  HoldsLock'
    BY <1>4 DEF ReadCache
  <1>5. ASSUME NEW p \in Caller, CountTransactions(p)
       PROVE  HoldsLock'
    BY <1>5 DEF CountTransactions
  <1>6. ASSUME NEW p \in Caller, Send(p)
       PROVE  HoldsLock'
    BY <1>6 DEF Send
  <1>7. ASSUME NEW p \in Caller, WaitReceipt(p)
       PROVE  HoldsLock'
    BY <1>7 DEF WaitReceipt
  <1>8. ASSUME NEW p \in Caller, SetCache(p)
       PROVE  HoldsLock'
    BY <1>8 DEF SetCache
  <1>9. ASSUME NEW p \in Caller, CheckLock(p)
       PROVE  HoldsLock'
    BY <1>9 DEF CheckLock, AfterRelease
  <1>10. ASSUME NEW p \in Caller, DelLock(p)
        PROVE  HoldsLock'
    BY <1>10 DEF DelLock, AfterRelease
  <1>11. ASSUME NEW p \in Caller, RedisThrows(p)
        PROVE  HoldsLock'
    BY <1>11 DEF RedisThrows
  <1>12. ASSUME NEW p \in Caller, Crash(p)
        PROVE  HoldsLock'
    BY <1>12 DEF Crash
  <1>13. CASE LockExpires
    BY <1>13 DEF LockExpires
  <1>14. CASE CacheExpires
    BY <1>14 DEF CacheExpires
  <1>15. CASE UNCHANGED vars
    BY <1>15 DEF vars
  <1>16. QED
    BY <1>1, <1>2, <1>3, <1>4, <1>5, <1>6, <1>7, <1>8, <1>9, <1>10, <1>11,
       <1>12, <1>13, <1>14, <1>15 DEF Next, Step

LEMMA ConsumedStep ==
  ASSUME TypeOK, HoldsLock, Consumed, OnlyFailedCalls, [Next]_vars
  PROVE  Consumed'
  <1> USE NonceAssumption DEF TypeOK, HoldsLock, Working, Consumed, Count, Goto, OnlyFailedCalls
  <1>1. ASSUME NEW p \in Caller, Begin(p)
       PROVE  Consumed'
    BY <1>1 DEF Begin
  <1>2. ASSUME NEW p \in Caller, TryLock(p)
       PROVE  Consumed'
    BY <1>2 DEF TryLock
  <1>3. ASSUME NEW p \in Caller, SpinTimeout(p)
       PROVE  Consumed'
    BY <1>3 DEF SpinTimeout
  <1>4. ASSUME NEW p \in Caller, ReadCache(p)
       PROVE  Consumed'
    BY <1>4 DEF ReadCache
  <1>5. ASSUME NEW p \in Caller, CountTransactions(p)
       PROVE  Consumed'
    <2>1. pc[p] = "rpc" /\ cache = NoNonce /\ \A q \in Caller : pc[q] = "setCache" => q = p
      BY <1>5 DEF CountTransactions
    <2>2. used \cup lost = {}
      BY <2>1
    <2>3. ASSUME NEW n \in 0 .. MaxStarts, IsPendingCount(n)
          PROVE  n = 0
      BY <2>2, <2>3 DEF IsPendingCount
    <2>4. \A q \in Caller : pc'[q] # "setCache"
      BY <1>5, <2>1 DEF CountTransactions
    <2>5. used' \cup lost' = {} /\ cache' = NoNonce
      BY <1>5, <2>1, <2>2 DEF CountTransactions
    <2>6. ASSUME NEW q \in Caller, pc'[q] \in {"held", "setCache"}
          PROVE  nonce'[q] = 0
      <3>1. q = p
        BY <1>5, <2>1, <2>6 DEF CountTransactions
      <3>2. QED
        BY <1>5, <2>3, <2>6, <3>1 DEF CountTransactions
    <2>7. QED
      BY <2>4, <2>5, <2>6
  <1>6. ASSUME NEW p \in Caller, Send(p)
       PROVE  Consumed'
    BY <1>6 DEF Send
  <1>7. ASSUME NEW p \in Caller, WaitReceipt(p)
       PROVE  Consumed'
    BY <1>7 DEF WaitReceipt
  <1>8. ASSUME NEW p \in Caller, SetCache(p)
       PROVE  Consumed'
    BY <1>8 DEF SetCache
  <1>9. ASSUME NEW p \in Caller, CheckLock(p)
       PROVE  Consumed'
    BY <1>9 DEF CheckLock, AfterRelease
  <1>10. ASSUME NEW p \in Caller, DelLock(p)
        PROVE  Consumed'
    BY <1>10 DEF DelLock, AfterRelease
  <1>11. ASSUME NEW p \in Caller, RedisThrows(p)
        PROVE  Consumed'
    BY <1>11 DEF RedisThrows
  <1>12. ASSUME NEW p \in Caller, Crash(p)
        PROVE  Consumed'
    BY <1>12 DEF Crash
  <1>13. CASE LockExpires
    BY <1>13 DEF LockExpires
  <1>14. CASE CacheExpires
    BY <1>14 DEF CacheExpires
  <1>15. CASE UNCHANGED vars
    BY <1>15 DEF vars
  <1>16. QED
    BY <1>1, <1>2, <1>3, <1>4, <1>5, <1>6, <1>7, <1>8, <1>9, <1>10, <1>11,
       <1>12, <1>13, <1>14, <1>15 DEF Next, Step

-----------------------------------------------------------------------------
(* Sequential nonces, as long as every submission succeeds                  *)

\* The chain has accepted the first k nonces, and all that acquireNonce and
\* release know agrees with k.
InTurnAt(k) ==
  /\ used = 0 .. k - 1
  /\ \A p \in Caller : /\ pc[p] = "held" => nonce[p] = k
                       /\ pc[p] = "setCache" => nonce[p] + 1 = k
  /\ cache # NoNonce =>
       cache = IF \E p \in Caller : pc[p] = "setCache" THEN k - 1 ELSE k

InTurn == \E k \in Nat : InTurnAt(k)

\* Once the accepted nonces are the first k, the pending count is k.
LEMMA PendingCountUnique ==
  ASSUME NEW k \in Nat, NEW n \in Nat, used = 0 .. k - 1, IsPendingCount(n)
  PROVE  n = k
  <1>1. ~(n < k)
    BY DEF IsPendingCount
  <1>2. k < n => k \in 0 .. n - 1
    OBVIOUS
  <1>3. QED
    BY <1>1, <1>2 DEF IsPendingCount

LEMMA InTurnStep ==
  ASSUME TypeOK, HoldsLock, InTurn, OnlyFailedReads, [Next]_vars
  PROVE  InTurn'
  <1>0. PICK k \in Nat : InTurnAt(k)
    BY DEF InTurn
  <1> USE <1>0, NonceAssumption DEF TypeOK, HoldsLock, Working, Goto, OnlyFailedReads, InTurnAt
  <1>1. ASSUME NEW p \in Caller, Begin(p)
       PROVE  InTurnAt(k)'
    BY <1>1 DEF Begin
  <1>2. ASSUME NEW p \in Caller, TryLock(p)
       PROVE  InTurnAt(k)'
    BY <1>2 DEF TryLock
  <1>3. ASSUME NEW p \in Caller, SpinTimeout(p)
       PROVE  InTurnAt(k)'
    BY <1>3 DEF SpinTimeout
  <1>4. ASSUME NEW p \in Caller, ReadCache(p)
       PROVE  InTurnAt(k)'
    BY <1>4, ZenonT(40) DEF ReadCache
  <1>5. ASSUME NEW p \in Caller, CountTransactions(p)
       PROVE  InTurnAt(k)'
    <2>1. ASSUME NEW n \in 0 .. MaxStarts, IsPendingCount(n)
          PROVE  n = k
      <3>1. n \in Nat /\ k \in Nat /\ used = 0 .. k - 1
        BY <2>1
      <3>2. QED
        BY <2>1, <3>1, PendingCountUnique
    <2>2. \A q \in Caller : pc'[q] = "setCache" <=> pc[q] = "setCache"
      BY <1>5 DEF CountTransactions
    <2>3. ASSUME NEW q \in Caller, pc'[q] = "held"
          PROVE  nonce'[q] = k
      BY <1>5, <2>1, <2>3 DEF CountTransactions
    <2>4. ASSUME NEW q \in Caller, pc'[q] = "setCache"
          PROVE  nonce'[q] + 1 = k
      BY <1>5, <2>2, <2>4 DEF CountTransactions
    <2>5. used' = used /\ cache' = cache
      BY <1>5 DEF CountTransactions
    <2>6. QED
      BY <2>2, <2>3, <2>4, <2>5
  <1>6. ASSUME NEW p \in Caller, Send(p)
       PROVE  InTurnAt(k + 1)'
    <2>1. nonce[p] = k /\ \A q \in Caller : Working(q) => q = p
      BY <1>6 DEF Send
    <2>2. used' = 0 .. k
      <3>1. used' = (0 .. k - 1) \cup {k}
        BY <1>6, <2>1 DEF Send
      <3>2. QED
        BY <3>1
    <2>3. cache # NoNonce => cache = k
      BY <1>6, <2>1 DEF Send
    <2>4. \A q \in Caller : pc'[q] # "held" /\ (pc'[q] = "setCache" => q = p)
      BY <1>6, <2>1 DEF Send
    <2>5. pc'[p] = "setCache" /\ nonce'[p] + 1 = k + 1 /\ cache' = cache
      BY <1>6, <2>1 DEF Send
    <2>6. used' = 0 .. (k + 1) - 1
      BY <2>2
    <2>7. cache' # NoNonce => cache' = (k + 1) - 1
      BY <2>3, <2>5
    <2>8. QED
      BY <2>4, <2>5, <2>6, <2>7
  <1>7. ASSUME NEW p \in Caller, WaitReceipt(p)
       PROVE  InTurnAt(k)'
    BY <1>7 DEF WaitReceipt
  <1>8. ASSUME NEW p \in Caller, SetCache(p)
       PROVE  InTurnAt(k)'
    BY <1>8 DEF SetCache
  <1>9. ASSUME NEW p \in Caller, CheckLock(p)
       PROVE  InTurnAt(k)'
    BY <1>9 DEF CheckLock, AfterRelease
  <1>10. ASSUME NEW p \in Caller, DelLock(p)
        PROVE  InTurnAt(k)'
    BY <1>10 DEF DelLock, AfterRelease
  <1>11. ASSUME NEW p \in Caller, RedisThrows(p)
        PROVE  InTurnAt(k)'
    BY <1>11 DEF RedisThrows
  <1>12. ASSUME NEW p \in Caller, Crash(p)
        PROVE  InTurnAt(k)'
    BY <1>12 DEF Crash
  <1>13. ASSUME LockExpires
         PROVE  InTurnAt(k)'
    BY <1>13 DEF LockExpires
  <1>14. ASSUME CacheExpires
         PROVE  InTurnAt(k)'
    BY <1>14 DEF CacheExpires
  <1>15. ASSUME UNCHANGED vars
         PROVE  InTurnAt(k)'
    BY <1>15 DEF vars
  <1>16. InTurnAt(k)' \/ InTurnAt(k + 1)'
    <2> HIDE DEF InTurnAt
    <2> QED
      BY <1>1, <1>2, <1>3, <1>4, <1>5, <1>6, <1>7, <1>8, <1>9, <1>10, <1>11,
         <1>12, <1>13, <1>14, <1>15 DEF Next, Step
  <1>17. QED
    <2> HIDE DEF InTurnAt
    <2>1. k \in Nat /\ k + 1 \in Nat
      BY <1>0
    <2>2. QED
      BY <1>16, <2>1 DEF InTurn

\* While submissions succeed and holders finish, acquireNonce hands out exactly
\* the nonce the chain expects, with or without a cached value.
THEOREM NoncesAreSequential == Spec => [](OnlyFailedReads => SequentialNonces)
  <1> DEFINE Inv == OnlyFailedReads => HoldsLock /\ InTurn
  <1>1. Init => Inv
    <2>1. Init => InTurnAt(0)
      BY NonceAssumption DEF Init, InTurnAt
    <2>2. Init => HoldsLock
      BY NonceAssumption DEF Init, HoldsLock, Working
    <2>3. QED
      BY <2>1, <2>2 DEF InTurn
  <1>2. TypeOK /\ Inv /\ [Next]_vars => Inv'
    BY HoldsLockStep, InTurnStep, FaultsStay DEF OnlyFailedReads, HoldersFinish
  <1>3. Inv => (OnlyFailedReads => SequentialNonces)
    BY DEF InTurn, InTurnAt, SequentialNonces, IsPendingCount
  <1>4. QED
    BY <1>1, <1>2, <1>3, TypeCorrect, PTL DEF Spec

\* acquireNonce hands out the nonce the chain expects while submissions succeed,
\* and never a used one while they may fail and the counter lives.
THEOREM NoncesAreFresh == Spec => []NonceFresh
  <1> DEFINE Inv == OnlyFailedCalls => HoldsLock /\ Consumed
  <1>1. Init => Inv
    BY NonceAssumption DEF Init, HoldsLock, Consumed, Count, Working
  <1>2. TypeOK /\ Inv /\ [Next]_vars => Inv'
    BY HoldsLockStep, ConsumedStep, FaultsStay DEF OnlyFailedCalls, HoldersFinish
  <1>3. TypeOK /\ Inv /\ (OnlyFailedReads => SequentialNonces) => NonceFresh
    <2>1. SUFFICES ASSUME TypeOK, Inv, OnlyFailedReads => SequentialNonces,
                          NEW p \in Caller, pc[p] = "held"
                   PROVE  /\ OnlyFailedReads => IsPendingCount(nonce[p])
                          /\ OnlyFailedCalls => nonce[p] \notin used
      BY Zenon DEF NonceFresh
    <2>2. OnlyFailedReads => IsPendingCount(nonce[p])
      BY <2>1, Zenon DEF SequentialNonces
    <2>3. ASSUME OnlyFailedCalls
          PROVE  nonce[p] \notin used
      <3>1. \A q \in Caller : pc[q] # "setCache"
        BY <2>1, <2>3, NonceAssumption DEF HoldsLock, Working, TypeOK
      <3>2. used \cup lost = 0 .. nonce[p] - 1
        BY <2>1, <2>3, <3>1 DEF Consumed
      <3>3. nonce[p] \in Nat
        BY <2>1 DEF TypeOK
      <3>4. QED
        BY <3>2, <3>3
    <2>4. QED
      BY <2>2, <2>3
  <1>4. QED
    BY <1>1, <1>2, <1>3, TypeCorrect, NoncesAreSequential, PTL DEF Spec

-----------------------------------------------------------------------------
(* Flash loans                                                              *)

Ledger == [kept : Int, mid : Int, aave : Int, allowance : Int]
ContractCall ==
  [opp : Opp \cup {Nobody}, step : {"none", "buy", "sell", "repay", "pull"},
   in : Int, before : Ledger]
Succeeded == {o \in Opp : tx[o].state = "ok"}
Owed == Reserve + Premium * Cardinality(Succeeded)

\* The job has not sent anything yet.
Unsent == {"absent", "create", "dedup", "simulating", "estimate", "mock", "signing", "nonce", "send"}
Stages == Unsent \cup Done \cup {"record", "confirming", "wait", "landing", "pnl"}
Reasons == {"DUPLICATE_OPPORTUNITY", "SIMULATION_FAILED", "TX_SUBMISSION_FAILED", "TX_REVERTED"}
RowRecord ==
  [state : {"none", "PENDING", "SIMULATING", "SIGNING", "CONFIRMING", "LANDED", "FAILED"},
   code : Reasons \cup {"none"}, pnl : Int]
TxRecord ==
  [state : {"none", "pending", "ok", "reverted"}, profit : Int, kept : Int, gain : Int]

FlashType ==
  /\ quote \in [Opp -> [buy : Nat, sell : Nat]]
  /\ stands \in [Opp -> Stages]
  /\ outcome \in [Opp -> RowRecord]
  /\ tx \in [Opp -> TxRecord]
  /\ call \in ContractCall
  /\ chain \in Ledger

\* Nothing is half done on a chain like this.
Settled(c) == c.aave = Owed /\ c.mid = 0 /\ c.allowance = 0 /\ c.kept >= 0

\* Where a call is, what it has moved since it began, on settled books.
UnderWay ==
  /\ call.opp \in Opp /\ tx[call.opp].state = "pending"
  /\ Settled(call.before)
  /\ chain.aave = Owed - Loan
  /\ call.in >= 0
  /\ chain.mid = (IF call.step = "sell" THEN call.in ELSE 0)
  /\ chain.allowance = (IF call.step = "pull" THEN Loan + Premium ELSE 0)
  /\ chain.kept = call.before.kept +
       (CASE call.step = "buy" -> Loan [] call.step = "sell" -> 0 [] OTHER -> call.in)
  /\ call.step = "buy" => call.in = Loan
  /\ call.step = "pull" => chain.kept >= Loan + Premium

\* The books of the chain, between two calls and within one.
Books ==
  /\ IsFiniteSet(Succeeded)
  /\ call = NoCall \/ call.step \in {"buy", "sell", "repay", "pull"}
  /\ call = NoCall => Settled(chain)
  /\ call # NoCall => UnderWay

Mocked == lending.mock

\* What a job's row and its progress say of its transaction.
RowOf(o) ==
  /\ stands[o] \in Unsent => tx[o].state = "none"
  /\ stands[o] = "mock" => Mocked
  /\ stands[o] \in {"landing", "pnl"} => tx[o].state = "ok"
  /\ outcome[o].code # "none" => stands[o] = "done"
  /\ outcome[o].state = "LANDED" => tx[o].state = "ok" \/ Mocked
  /\ outcome[o].state = "LANDED" /\ stands[o] = "done" =>
       outcome[o].pnl = tx[o].profit \/ Mocked
  /\ tx[o].state = "ok" => tx[o].profit = tx[o].kept + tx[o].gain
  /\ outcome[o].code = "TX_REVERTED" => tx[o].state = "reverted"
  /\ outcome[o].code \in {"DUPLICATE_OPPORTUNITY", "SIMULATION_FAILED"} => tx[o].state = "none"

FlashInv == FlashType /\ Books /\ \A o \in Opp : RowOf(o)

\* A job's step leaves the other jobs and the call alone, and touches its
\* transaction only to send it.
LEMMA JobWrites ==
  ASSUME NEW o \in Opp, FlashType, JobStep(o)
  PROVE  /\ UNCHANGED <<lending, quote, call, chain>>
         /\ \A p \in Opp \ {o} : stands'[p] = stands[p] /\ outcome'[p] = outcome[p]
         /\ tx' = tx \/ (stands[o] = "send" /\ Broadcast(o))
         /\ stands' \in [Opp -> Stages]
         /\ outcome' \in [Opp -> RowRecord]
<1>1. stands \in [Opp -> Stages] /\ outcome \in [Opp -> RowRecord]
  BY DEF FlashType
<1>a. ASSUME NEW step \in Stages, Advance(o, step)
      PROVE  stands' \in [Opp -> Stages] /\ \A p \in Opp \ {o} : stands'[p] = stands[p]
  BY <1>1, <1>a DEF Advance
<1>b. ASSUME NEW state \in {"PENDING", "SIMULATING", "SIGNING", "CONFIRMING", "LANDED"},
             SetState(o, state)
      PROVE  outcome' \in [Opp -> RowRecord] /\ \A p \in Opp \ {o} : outcome'[p] = outcome[p]
  BY <1>1, <1>b DEF SetState, RowRecord
<1>c. ASSUME NEW code \in Reasons, Fail(o, code)
      PROVE  /\ outcome' \in [Opp -> RowRecord] /\ \A p \in Opp \ {o} : outcome'[p] = outcome[p]
             /\ stands' \in [Opp -> Stages] /\ \A p \in Opp \ {o} : stands'[p] = stands[p]
  <2>1. \A c \in Reasons :
          [state |-> "FAILED", code |-> c, pnl |-> outcome[o].pnl] \in RowRecord
    BY <1>1 DEF RowRecord
  <2>2. \/ UNCHANGED outcome
        \/ \E c \in Reasons :
             outcome' = [outcome EXCEPT ![o] = [state |-> "FAILED", code |-> c, pnl |-> @.pnl]]
    BY <1>c DEF Fail, Reasons
  <2>3. Advance(o, "done") \/ Advance(o, "thrown")
    BY <1>c DEF Fail
  <2>. QED
    BY <1>1, <2>1, <2>2, <2>3 DEF Advance, Stages, Done
<1>d. UNCHANGED <<lending, quote, call, chain>>
      /\ (tx' = tx \/ (stands[o] = "send" /\ Broadcast(o)))
  BY DEF JobStep, Create, Dedup, Simulating, Estimate, Mock, Signing, Acquire,
         SendTx, Record, Confirming, Wait, Landing, Pnl, chainState
<1>e. ASSUME (\E step \in Stages : Advance(o, step)) \/ (\E code \in Reasons : Fail(o, code)),
             \/ \E state \in {"PENDING", "SIMULATING", "SIGNING", "CONFIRMING", "LANDED"} :
                  SetState(o, state)
             \/ \E code \in Reasons : Fail(o, code)
             \/ outcome' \in [Opp -> RowRecord] /\ \A p \in Opp \ {o} : outcome'[p] = outcome[p]
      PROVE  /\ outcome' \in [Opp -> RowRecord] /\ \A p \in Opp \ {o} : outcome'[p] = outcome[p]
             /\ stands' \in [Opp -> Stages] /\ \A p \in Opp \ {o} : stands'[p] = stands[p]
  BY <1>a, <1>b, <1>c, <1>e
<1>f. (\E step \in Stages : Advance(o, step)) \/ (\E code \in Reasons : Fail(o, code))
  <2> USE DEF Stages, Unsent, Done, Reasons, Throws
  <2>1. CASE Create(o)
    BY <2>1 DEF Create
  <2>2. CASE Dedup(o)
    BY <2>2 DEF Dedup
  <2>3. CASE Simulating(o)
    BY <2>3 DEF Simulating
  <2>4. CASE Estimate(o)
    BY <2>4 DEF Estimate
  <2>5. CASE Mock(o)
    BY <2>5 DEF Mock
  <2>6. CASE Signing(o)
    BY <2>6 DEF Signing
  <2>7. CASE Acquire(o)
    BY <2>7 DEF Acquire
  <2>8. CASE SendTx(o)
    BY <2>8 DEF SendTx, GiveUp
  <2>9. CASE Record(o)
    BY <2>9 DEF Record, GiveUp
  <2>10. CASE Confirming(o)
    BY <2>10 DEF Confirming
  <2>11. CASE Wait(o)
    BY <2>11 DEF Wait
  <2>12. CASE Landing(o)
    BY <2>12 DEF Landing
  <2>13. CASE Pnl(o)
    BY <2>13 DEF Pnl
  <2>. QED
    BY <2>1, <2>2, <2>3, <2>4, <2>5, <2>6, <2>7, <2>8, <2>9, <2>10, <2>11, <2>12, <2>13 DEF JobStep
<1>g. \/ \E state \in {"PENDING", "SIMULATING", "SIGNING", "CONFIRMING", "LANDED"} : SetState(o, state)
      \/ \E code \in Reasons : Fail(o, code)
      \/ outcome' \in [Opp -> RowRecord] /\ \A p \in Opp \ {o} : outcome'[p] = outcome[p]
  <2>0. UNCHANGED outcome =>
          outcome' \in [Opp -> RowRecord] /\ \A p \in Opp \ {o} : outcome'[p] = outcome[p]
    BY <1>1
  <2> USE <2>0 DEF Reasons, Throws
  <2>1. CASE Create(o)
    BY <2>1 DEF Create
  <2>2. CASE Dedup(o)
    BY <2>2 DEF Dedup
  <2>3. CASE Simulating(o)
    BY <2>3 DEF Simulating
  <2>4. CASE Estimate(o)
    BY <2>4 DEF Estimate
  <2>5. CASE Mock(o)
    BY <2>5 DEF Mock, SetState
  <2>6. CASE Signing(o)
    BY <2>6 DEF Signing
  <2>7. CASE Acquire(o)
    BY <2>7 DEF Acquire
  <2>8. CASE SendTx(o)
    BY <2>8 DEF SendTx, GiveUp
  <2>9. CASE Record(o)
    BY <2>9 DEF Record, GiveUp
  <2>10. CASE Confirming(o)
    BY <2>10 DEF Confirming
  <2>11. CASE Wait(o)
    BY <2>11 DEF Wait
  <2>12. CASE Landing(o)
    BY <2>12 DEF Landing
  <2>13. CASE Pnl(o)
    <3>1. tx[o].profit \in Int
      BY DEF FlashType, TxRecord
    <3>2. ASSUME outcome' = [outcome EXCEPT ![o].pnl = tx[o].profit]
          PROVE  outcome' \in [Opp -> RowRecord] /\ \A p \in Opp \ {o} : outcome'[p] = outcome[p]
      BY <1>1, <3>1, <3>2 DEF RowRecord
    <3>. QED
      BY <2>13, <3>2 DEF Pnl
  <2>. QED
    BY <2>1, <2>2, <2>3, <2>4, <2>5, <2>6, <2>7, <2>8, <2>9, <2>10, <2>11, <2>12, <2>13 DEF JobStep
<1>. QED
  BY <1>d, <1>e, <1>f, <1>g

\* A job that gives up keeps its row true, if what it gives for the reason is.
LEMMA RowFails ==
  ASSUME NEW o \in Opp, NEW code \in Reasons, FlashType, RowOf(o), Fail(o, code),
         stands[o] \notin Done, lending' = lending,
         tx'[o] = tx[o] \/ (tx[o].state = "none" /\ tx'[o] = [tx[o] EXCEPT !.state = "pending"]),
         code = "TX_REVERTED" => tx'[o].state = "reverted",
         code \in {"DUPLICATE_OPPORTUNITY", "SIMULATION_FAILED"} => tx'[o].state = "none"
  PROVE  RowOf(o)'
<1>1. Mocked' = Mocked
  BY DEF Mocked
<1>2. tx'[o].state = "ok" => tx'[o] = tx[o]
  BY DEF FlashType, TxRecord
<1>3. tx[o].state # "none" => tx'[o] = tx[o]
  OBVIOUS
<1>4. ASSUME NEW c \in {code, "TX_SUBMISSION_FAILED"},
             outcome'[o] = [state |-> "FAILED", code |-> c, pnl |-> outcome[o].pnl],
             stands'[o] = "done"
      PROVE  RowOf(o)'
  BY <1>1, <1>2, <1>4 DEF RowRecord, TxRecord, Reasons, RowOf, Unsent
<1>5. CASE stands'[o] = "thrown" /\ outcome'[o] = outcome[o]
  BY <1>1, <1>2, <1>3, <1>5 DEF RowRecord, TxRecord, Reasons, RowOf, Unsent, Done
<1>6. \/ \E c \in {code, "TX_SUBMISSION_FAILED"} :
           /\ outcome'[o] = [state |-> "FAILED", code |-> c, pnl |-> outcome[o].pnl]
           /\ stands'[o] = "done"
      \/ stands'[o] = "thrown" /\ outcome'[o] = outcome[o]
  BY DEF Fail, Advance, FlashType, RowRecord, Stages
<1>. QED
  BY <1>4, <1>5, <1>6

\* A job's own row.
LEMMA RowStep ==
  ASSUME NEW o \in Opp, FlashType, RowOf(o), JobStep(o)
  PROVE  RowOf(o)'
<1>0. /\ lending' = lending /\ Mocked' = Mocked
      /\ stands \in [Opp -> Stages] /\ outcome \in [Opp -> RowRecord] /\ tx \in [Opp -> TxRecord]
  BY JobWrites DEF Mocked, FlashType
<1>1. ASSUME stands[o] \notin Done, Fail(o, "TX_SUBMISSION_FAILED"), tx' = tx
      PROVE  RowOf(o)'
  BY <1>0, <1>1, RowFails DEF Reasons
<1>2. CASE Create(o)
  <2>1. CASE SetState(o, "PENDING") /\ Advance(o, "dedup") /\ UNCHANGED tx /\ stands[o] = "create"
    BY <1>0, <2>1 DEF RowRecord, TxRecord, RowOf, Unsent, Advance, SetState
  <2>2. CASE Advance(o, "thrown") /\ UNCHANGED <<outcome, tx>> /\ stands[o] = "create"
    BY <1>0, <2>2 DEF RowRecord, TxRecord, RowOf, Unsent, Advance
  <2>. QED
    BY <1>2, <2>1, <2>2 DEF Create, chainState
<1>3. CASE Dedup(o)
  <2>1. CASE Advance(o, "simulating") /\ UNCHANGED <<outcome, tx>> /\ stands[o] = "dedup"
    BY <1>0, <2>1 DEF RowRecord, TxRecord, RowOf, Unsent, Advance
  <2>2. CASE Fail(o, "DUPLICATE_OPPORTUNITY") /\ UNCHANGED tx /\ stands[o] = "dedup"
    BY <1>0, <2>2, RowFails DEF RowRecord, TxRecord, RowOf, Unsent, Done, Reasons
  <2>. QED
    BY <1>1, <1>3, <2>1, <2>2 DEF Dedup, Throws, Done, chainState
<1>4. CASE Simulating(o)
  <2>1. CASE SetState(o, "SIMULATING") /\ Advance(o, "estimate") /\ UNCHANGED tx
             /\ stands[o] = "simulating"
    BY <1>0, <2>1 DEF RowRecord, TxRecord, RowOf, Unsent, Advance, SetState
  <2>. QED
    BY <1>1, <1>4, <2>1 DEF Simulating, Throws, Done, chainState
<1>5. CASE Estimate(o)
  <2>1. CASE stands[o] = "estimate" /\ UNCHANGED <<outcome, tx>>
             /\ ((stands'[o] = "mock" /\ Mocked) \/ stands'[o] = "signing")
    BY <1>0, <2>1 DEF RowRecord, TxRecord, RowOf, Unsent
  <2>2. CASE Fail(o, "SIMULATION_FAILED") /\ UNCHANGED tx /\ stands[o] = "estimate"
    BY <1>0, <2>2, RowFails DEF RowRecord, TxRecord, RowOf, Unsent, Done, Reasons
  <2>. QED
    BY <1>0, <1>5, <2>1, <2>2 DEF Estimate, Advance, Mocked, chainState
<1>6. CASE Mock(o)
  <2>1. CASE outcome' = [outcome EXCEPT ![o].state = "LANDED"] /\ Advance(o, "done")
             /\ UNCHANGED tx /\ stands[o] = "mock"
    BY <1>0, <2>1 DEF RowRecord, TxRecord, RowOf, Unsent, Advance
  <2>. QED
    BY <1>1, <1>6, <2>1 DEF Mock, Throws, Done, chainState
<1>7. CASE Signing(o)
  <2>1. CASE SetState(o, "SIGNING") /\ Advance(o, "nonce") /\ UNCHANGED tx /\ stands[o] = "signing"
    BY <1>0, <2>1 DEF RowRecord, TxRecord, RowOf, Unsent, Advance, SetState
  <2>. QED
    BY <1>1, <1>7, <2>1 DEF Signing, Throws, Done, chainState
<1>8. CASE Acquire(o)
  <2>1. CASE Advance(o, "send") /\ UNCHANGED <<outcome, tx>> /\ stands[o] = "nonce"
    BY <1>0, <2>1 DEF RowRecord, TxRecord, RowOf, Unsent, Advance
  <2>. QED
    BY <1>1, <1>8, <2>1 DEF Acquire, Throws, Done, chainState
<1>9. CASE SendTx(o)
  <2>1. tx[o].state = "none" /\ stands[o] = "send"
    BY <1>9 DEF SendTx, RowOf, Unsent
  <2>2. CASE Broadcast(o) /\ Advance(o, "record") /\ UNCHANGED outcome
    BY <1>0, <2>1, <2>2 DEF RowRecord, TxRecord, RowOf, Unsent, Advance, Broadcast
  <2>3. CASE Broadcast(o) /\ Fail(o, "TX_SUBMISSION_FAILED")
    <3>1. tx'[o] = [tx[o] EXCEPT !.state = "pending"]
      BY <1>0, <2>3 DEF Broadcast, TxRecord
    <3>. QED
      BY <1>0, <2>1, <2>3, <3>1, RowFails DEF Done, Reasons
  <2>. QED
    BY <1>1, <1>9, <2>1, <2>2, <2>3 DEF SendTx, GiveUp, Done
<1>10. CASE Record(o)
  <2>1. CASE Advance(o, "confirming") /\ UNCHANGED <<outcome, tx>> /\ stands[o] = "record"
    BY <1>0, <2>1 DEF RowRecord, TxRecord, RowOf, Unsent, Advance
  <2>. QED
    BY <1>1, <1>10, <2>1 DEF Record, GiveUp, Done, chainState
<1>11. CASE Confirming(o)
  <2>1. CASE SetState(o, "CONFIRMING") /\ Advance(o, "wait") /\ UNCHANGED tx
             /\ stands[o] = "confirming"
    BY <1>0, <2>1 DEF RowRecord, TxRecord, RowOf, Unsent, Advance, SetState
  <2>. QED
    BY <1>1, <1>11, <2>1 DEF Confirming, Throws, Done, chainState
<1>12. CASE Wait(o)
  <2>1. CASE tx[o].state = "ok" /\ Advance(o, "landing") /\ UNCHANGED <<outcome, tx>>
             /\ stands[o] = "wait"
    BY <1>0, <2>1 DEF RowRecord, TxRecord, RowOf, Unsent, Advance
  <2>2. CASE tx[o].state = "reverted" /\ Fail(o, "TX_REVERTED") /\ UNCHANGED tx
             /\ stands[o] = "wait"
    BY <1>0, <2>2, RowFails DEF Done, Reasons
  <2>. QED
    BY <1>1, <1>12, <2>1, <2>2 DEF Wait, Done, chainState
<1>13. CASE Landing(o)
  <2>1. CASE SetState(o, "LANDED") /\ Advance(o, "pnl") /\ UNCHANGED tx /\ stands[o] = "landing"
    BY <1>0, <2>1 DEF RowRecord, TxRecord, RowOf, Unsent, Advance, SetState
  <2>. QED
    BY <1>1, <1>13, <2>1 DEF Landing, Throws, Done, chainState
<1>14. CASE Pnl(o)
  <2>1. CASE outcome' = [outcome EXCEPT ![o].pnl = tx[o].profit] /\ Advance(o, "done")
             /\ UNCHANGED tx /\ stands[o] = "pnl"
    BY <1>0, <2>1 DEF RowRecord, TxRecord, RowOf, Unsent, Advance
  <2>. QED
    BY <1>1, <1>14, <2>1 DEF Pnl, Throws, Done, chainState
<1>. QED
  BY <1>2, <1>3, <1>4, <1>5, <1>6, <1>7, <1>8, <1>9, <1>10, <1>11, <1>12, <1>13, <1>14 DEF JobStep

\* A step of the chain leaves the jobs alone; it settles the pending
\* transaction of the call, for good.
LEMMA ChainWrites ==
  ASSUME FlashType, Books, ChainStep
  PROVE  /\ UNCHANGED <<lending, quote, stands, outcome>>
         /\ \/ tx' = tx
            \/ call # NoCall /\ tx' = [tx EXCEPT ![call.opp].state = "reverted"]
            \/ /\ call # NoCall
               /\ tx' = [tx EXCEPT ![call.opp] =
                    [state |-> "ok", profit |-> chain.kept - Loan - Premium,
                     kept |-> call.before.kept, gain |-> call.in - Loan - Premium]]
               /\ chain.kept = call.before.kept + call.in
<1>1. CASE \E o \in Opp : Borrow(o)
  BY <1>1 DEF Borrow, jobState
<1>2. CASE \E out \in Nat : BuySwap(out) \/ SellSwap(out)
  BY <1>2 DEF BuySwap, SellSwap, jobState
<1>3. CASE SwapReverts \/ ArbNotProfitable
  BY <1>3 DEF SwapReverts, ArbNotProfitable, Revert, NoCall, jobState
<1>4. CASE Approve
  BY <1>4 DEF Approve, jobState
<1>5. CASE Pull
  BY <1>5 DEF Pull, Books, UnderWay, NoCall, jobState
<1>6. CASE \E amount \in 1 .. chain.kept : Withdraw(amount)
  BY <1>6 DEF Withdraw, jobState
<1>. QED
  BY <1>1, <1>2, <1>3, <1>4, <1>5, <1>6 DEF ChainStep, Outcomes

\* Every row stays true.
LEMMA RowsStep ==
  ASSUME FlashInv, [FlashNext]_flashVars, NEW o \in Opp
  PROVE  RowOf(o)'
<1>0. FlashType /\ Books /\ RowOf(o) /\ \A p \in Opp : RowOf(p)
  BY DEF FlashInv
<1>1. ASSUME lending' = lending, stands'[o] = stands[o], outcome'[o] = outcome[o], tx'[o] = tx[o]
      PROVE  RowOf(o)'
  BY <1>0, <1>1 DEF RowOf, Mocked
<1>2. ASSUME NEW p \in Opp, JobStep(p) PROVE RowOf(o)'
  <2>1. CASE p = o
    BY <1>0, <1>2, <2>1, RowStep
  <2>2. CASE p # o
    <3>1. lending' = lending /\ stands'[o] = stands[o] /\ outcome'[o] = outcome[o] /\ tx'[o] = tx[o]
      BY <1>0, <1>2, <2>2, JobWrites DEF Broadcast, FlashType
    <3>. QED
      BY <1>1, <3>1
  <2>. QED
    BY <2>1, <2>2
<1>3. CASE DedupExpires \/ UNCHANGED flashVars
  BY <1>1, <1>3 DEF DedupExpires, flashVars, chainState
<1>4. CASE ChainStep
  <2>1. UNCHANGED <<lending, stands, outcome>> /\ Mocked' = Mocked
    BY <1>0, <1>4, ChainWrites DEF Mocked
  <2>2. CASE tx'[o] = tx[o]
    BY <1>1, <2>1, <2>2
  <2>3. CASE tx'[o] # tx[o]
    <3>1. tx[o].state = "pending"
      BY <1>0, <1>4, <2>3, ChainWrites DEF FlashType, Books, UnderWay
    <3>2. /\ tx'[o].state \in {"ok", "reverted"}
          /\ tx'[o].state = "ok" => tx'[o].profit = tx'[o].kept + tx'[o].gain
      BY <1>0, <1>4, <2>3, ChainWrites, FlashAssumption
         DEF FlashType, TxRecord, Books, UnderWay, Ledger, ContractCall
    <3>. QED
      BY <1>0, <2>1, <3>1, <3>2 DEF RowOf
  <2>. QED
    BY <2>2, <2>3
<1>. QED
  BY <1>2, <1>3, <1>4 DEF FlashNext

\* A ledger or a call with some of its fields changed is one.
LEMMA LedgerFields ==
  ASSUME NEW c \in Ledger, NEW x \in Int, NEW y \in Int, NEW z \in Int
  PROVE  /\ [c EXCEPT !.kept = x, !.aave = y] \in Ledger
         /\ [c EXCEPT !.kept = x, !.mid = y] \in Ledger
         /\ [c EXCEPT !.mid = x, !.kept = y] \in Ledger
         /\ [c EXCEPT !.kept = x, !.aave = y, !.allowance = z] \in Ledger
         /\ [c EXCEPT !.kept = x] \in Ledger /\ [c EXCEPT !.allowance = x] \in Ledger
<1>1. /\ [c EXCEPT !.kept = x] \in Ledger /\ [c EXCEPT !.mid = x] \in Ledger
      /\ [c EXCEPT !.allowance = x] \in Ledger
  BY DEF Ledger
<1>. DEFINE d == [c EXCEPT !.kept = x]
            e == [c EXCEPT !.mid = x]
            f == [d EXCEPT !.aave = y]
<1>2. d \in Ledger /\ e \in Ledger
  BY <1>1
<1>. HIDE DEF d, e
<1>3. f \in Ledger /\ [d EXCEPT !.mid = y] \in Ledger /\ [e EXCEPT !.kept = y] \in Ledger
  BY <1>2 DEF Ledger
<1>. HIDE DEF f
<1>4. [f EXCEPT !.allowance = z] \in Ledger
  BY <1>3 DEF Ledger
<1>. USE DEF d, e, f
<1>. QED
  BY <1>1, <1>3, <1>4

LEMMA CallFields ==
  ASSUME call \in ContractCall, NEW x \in Int
  PROVE  /\ [call EXCEPT !.step = "sell", !.in = x] \in ContractCall
         /\ [call EXCEPT !.step = "repay", !.in = x] \in ContractCall
         /\ [call EXCEPT !.step = "pull"] \in ContractCall
<1>. DEFINE d == [call EXCEPT !.step = "sell"]
            e == [call EXCEPT !.step = "repay"]
<1>1. d \in ContractCall /\ e \in ContractCall /\ [call EXCEPT !.step = "pull"] \in ContractCall
  BY DEF ContractCall
<1>. HIDE DEF d, e
<1>2. [d EXCEPT !.in = x] \in ContractCall /\ [e EXCEPT !.in = x] \in ContractCall
  BY <1>1 DEF ContractCall
<1>. USE DEF d, e
<1>. QED
  BY <1>1, <1>2

LEMMA FlashTypeStep ==
  ASSUME FlashInv, [FlashNext]_flashVars
  PROVE  FlashType'
<1>0. /\ FlashType /\ Books /\ {Loan, Premium, Reserve} \subseteq Nat
      /\ tx \in [Opp -> TxRecord] /\ call \in ContractCall /\ chain \in Ledger
      /\ quote \in [Opp -> [buy : Nat, sell : Nat]]
  BY FlashAssumption DEF FlashInv, FlashType
<1>1. ASSUME NEW o \in Opp, JobStep(o) PROVE FlashType'
  <2>1. tx' \in [Opp -> TxRecord]
    BY <1>0, <1>1, JobWrites, SMTT(20) DEF Broadcast, TxRecord
  <2>. QED
    BY <1>0, <1>1, <2>1, JobWrites DEF FlashType
<1>2. CASE DedupExpires \/ UNCHANGED flashVars
  BY <1>0, <1>2 DEF DedupExpires, flashVars, chainState, FlashType
<1>3. CASE ChainStep
  <2>1. tx' \in [Opp -> TxRecord]
    BY <1>0, <1>3, ChainWrites DEF TxRecord, Ledger, ContractCall
  <2>2. call' \in ContractCall /\ chain' \in Ledger
    <3>1. ASSUME NEW o \in Opp, Borrow(o) PROVE call' \in ContractCall /\ chain' \in Ledger
      <4>1. chain.kept + Loan \in Int /\ chain.aave - Loan \in Int
        BY <1>0 DEF Ledger
      <4>2. chain' \in Ledger
        BY <1>0, <3>1, <4>1, LedgerFields DEF Borrow
      <4>. QED
        BY <1>0, <3>1, <4>2 DEF Borrow, ContractCall
    <3>2. ASSUME NEW out \in Nat, BuySwap(out) PROVE call' \in ContractCall /\ chain' \in Ledger
      <4>1. chain.kept - call.in \in Int /\ chain.mid + out \in Int
        BY <1>0 DEF Ledger, ContractCall
      <4>2. chain' \in Ledger
        BY <1>0, <3>2, <4>1, LedgerFields DEF BuySwap
      <4>3. out \in Int
        OBVIOUS
      <4>4. [call EXCEPT !.step = "sell", !.in = out] \in ContractCall
        BY <1>0, <4>3, CallFields
      <4>5. call' \in ContractCall
        BY <3>2, <4>4 DEF BuySwap
      <4>. QED
        BY <4>2, <4>5
    <3>3. ASSUME NEW out \in Nat, SellSwap(out) PROVE call' \in ContractCall /\ chain' \in Ledger
      <4>1. chain.mid - call.in \in Int /\ chain.kept + out \in Int
        BY <1>0 DEF Ledger, ContractCall
      <4>2. chain' \in Ledger
        BY <1>0, <3>3, <4>1, LedgerFields DEF SellSwap
      <4>3. out \in Int
        OBVIOUS
      <4>4. [call EXCEPT !.step = "repay", !.in = out] \in ContractCall
        BY <1>0, <4>3, CallFields
      <4>5. call' \in ContractCall
        BY <3>3, <4>4 DEF SellSwap
      <4>. QED
        BY <4>2, <4>5
    <3>4. NoCall \in ContractCall
      BY FlashAssumption DEF NoCall, Untouched, ContractCall, Ledger
    <3>5. CASE SwapReverts \/ ArbNotProfitable
      BY <1>0, <3>4, <3>5 DEF SwapReverts, ArbNotProfitable, Revert, ContractCall
    <3>6. CASE Approve
      <4>1. chain.allowance + Loan + Premium \in Int
        BY <1>0 DEF Ledger
      <4>. QED
        BY <1>0, <3>6, <4>1, LedgerFields, CallFields DEF Approve
    <3>7. CASE Pull
      <4>1. /\ chain.kept - Loan - Premium \in Int /\ chain.aave + Loan + Premium \in Int
            /\ chain.allowance - Loan - Premium \in Int
        BY <1>0 DEF Ledger
      <4>. QED
        BY <1>0, <3>4, <3>7, <4>1, LedgerFields DEF Pull
    <3>8. CASE \E amount \in 1 .. chain.kept : Withdraw(amount)
      BY <1>0, <3>8 DEF Withdraw, Ledger
    <3>. QED
      BY <1>3, <3>1, <3>2, <3>3, <3>5, <3>6, <3>7, <3>8 DEF ChainStep, Outcomes
  <2>. QED
    BY <1>0, <1>3, <2>1, <2>2, ChainWrites DEF FlashType
<1>. QED
  BY <1>1, <1>2, <1>3 DEF FlashNext

\* Where the chain and the call are left alone, and what succeeded is the same,
\* the books are in order as before.
LEMMA SameBooks ==
  ASSUME Books, UNCHANGED <<call, chain>>, Succeeded' = Succeeded,
         call # NoCall => tx'[call.opp] = tx[call.opp]
  PROVE  Books'
<1>1. Owed' = Owed
  BY DEF Owed
<1>2. UnderWay /\ tx'[call.opp] = tx[call.opp] => UnderWay'
  BY <1>1 DEF UnderWay, Settled
<1>3. Settled(chain) => Settled(chain)'
  BY <1>1 DEF Settled
<1>. QED
  BY <1>2, <1>3 DEF Books, NoCall

\* Aave is owed one more premium with each call that succeeds, and no other.
LEMMA OwedMore ==
  ASSUME IsFiniteSet(Succeeded), FlashType, NEW o \in Opp, tx[o].state # "ok",
         tx' \in [Opp -> TxRecord], \A p \in Opp \ {o} : tx'[p] = tx[p], tx'[o].state = "ok"
  PROVE  /\ IsFiniteSet(Succeeded')
         /\ Owed' = Owed + Premium
<1>1. Succeeded' = Succeeded \cup {o} /\ o \notin Succeeded
  BY DEF Succeeded
<1>2. /\ IsFiniteSet(Succeeded \cup {o})
      /\ Cardinality(Succeeded \cup {o}) = Cardinality(Succeeded) + 1
      /\ Cardinality(Succeeded) \in Nat
  BY <1>1, FS_AddElement, FS_CardinalityType
<1>. DEFINE n == Cardinality(Succeeded)
<1>3. n \in Nat /\ Owed = Reserve + Premium * n /\ Owed' = Reserve + Premium * (n + 1)
  BY <1>1, <1>2 DEF Owed
<1>. HIDE DEF n
<1>4. Premium \in Nat /\ Reserve \in Nat
  BY FlashAssumption
<1>5. Premium * (n + 1) = Premium * n + Premium
  BY <1>3, <1>4
<1>6. Owed' = Owed + Premium
  <2>. DEFINE m == Premium * n
  <2>1. m \in Nat
    BY <1>3, <1>4
  <2>2. Owed = Reserve + m /\ Owed' = Reserve + (m + Premium)
    BY <1>3, <1>5
  <2>. HIDE DEF m
  <2>. QED
    BY <1>4, <2>1, <2>2
<1>. QED
  BY <1>1, <1>2, <1>6

\* The books stay in order at every step of the contract, whatever the swaps
\* bring and wherever the call fails.
LEMMA BooksStep ==
  ASSUME FlashInv, [FlashNext]_flashVars
  PROVE  Books'
<1>0. /\ FlashType /\ Books /\ \A o \in Opp : RowOf(o)
      /\ Loan \in Nat /\ Premium \in Nat
      /\ tx \in [Opp -> TxRecord] /\ call \in ContractCall /\ chain \in Ledger
      /\ \A o \in Opp : quote[o].buy \in Nat /\ quote[o].sell \in Nat
  BY FlashAssumption DEF FlashInv, FlashType
<1>t. tx' \in [Opp -> TxRecord] /\ call' \in ContractCall /\ chain' \in Ledger
  BY FlashTypeStep DEF FlashType
<1>1. ASSUME NEW o \in Opp, JobStep(o) PROVE Books'
  <2>1. UNCHANGED <<call, chain>> /\ (tx' = tx \/ (tx[o].state = "none" /\ Broadcast(o)))
    BY <1>0, <1>1, JobWrites DEF RowOf, Unsent
  <2>2. Succeeded' = Succeeded
    BY <1>0, <2>1 DEF Succeeded, Broadcast, TxRecord
  <2>3. call # NoCall => tx'[call.opp] = tx[call.opp]
    BY <1>0, <2>1 DEF Books, UnderWay, Broadcast
  <2>. QED
    BY <1>0, <2>1, <2>2, <2>3, SameBooks
<1>2. CASE DedupExpires \/ UNCHANGED flashVars
  <2>1. UNCHANGED <<call, chain, tx>>
    BY <1>2 DEF DedupExpires, flashVars, chainState
  <2>. QED
    BY <1>0, <2>1, SameBooks DEF Succeeded
<1>n. Owed \in Int /\ IsFiniteSet(Succeeded)
  BY <1>0, FS_CardinalityType, FlashAssumption DEF Books, Owed
<1>o. ASSUME UNCHANGED tx PROVE Owed' = Owed /\ Succeeded' = Succeeded
  BY <1>o DEF Owed, Succeeded
<1>3. ASSUME NEW o \in Opp, Borrow(o) PROVE Books'
  <2>1. Owed' = Owed /\ Succeeded' = Succeeded /\ Settled(chain)
    BY <1>0, <1>3, <1>o DEF Borrow, Books
  <2>2. call' # NoCall /\ UnderWay'
    BY <1>0, <1>n, <1>3, <2>1 DEF Borrow, UnderWay, Settled, NoCall, Ledger
  <2>. QED
    BY <1>n, <1>3, <2>1, <2>2 DEF Books, Borrow
<1>4. ASSUME NEW out \in Nat, call # NoCall, BuySwap(out) PROVE Books'
  <2>1. Owed' = Owed /\ Succeeded' = Succeeded /\ UnderWay
    BY <1>0, <1>4, <1>o DEF BuySwap, Books
  <2>2. call'.step = "sell" /\ UnderWay'
    BY <1>0, <1>n, <1>4, <2>1 DEF BuySwap, UnderWay, Settled, Ledger, ContractCall
  <2>. QED
    BY <1>n, <2>1, <2>2 DEF Books, NoCall
<1>5. ASSUME NEW out \in Nat, call # NoCall, SellSwap(out) PROVE Books'
  <2>1. Owed' = Owed /\ Succeeded' = Succeeded /\ UnderWay
    BY <1>0, <1>5, <1>o DEF SellSwap, Books
  <2>2. call'.step = "repay" /\ UnderWay'
    BY <1>0, <1>n, <1>5, <2>1 DEF SellSwap, UnderWay, Settled, Ledger, ContractCall
  <2>. QED
    BY <1>n, <2>1, <2>2 DEF Books, NoCall
<1>6. CASE SwapReverts \/ ArbNotProfitable
  <2>1. call # NoCall /\ Revert
    BY <1>6 DEF SwapReverts, ArbNotProfitable, NoCall
  <2>2. Owed' = Owed /\ Succeeded' = Succeeded
    <3>1. Succeeded' = Succeeded
      BY <1>0, <2>1 DEF Revert, Succeeded, Books, UnderWay, TxRecord
    <3>. QED
      BY <3>1 DEF Owed
  <2>3. call' = NoCall /\ Settled(chain)'
    BY <1>0, <2>1, <2>2 DEF Revert, Books, UnderWay, Settled
  <2>. QED
    BY <1>n, <2>2, <2>3 DEF Books
<1>7. CASE Approve
  <2>1. Owed' = Owed /\ Succeeded' = Succeeded /\ UnderWay /\ call # NoCall
    BY <1>0, <1>7, <1>o DEF Approve, Books, NoCall
  <2>2. call'.step = "pull" /\ UnderWay'
    BY <1>0, <1>n, <1>7, <2>1 DEF Approve, UnderWay, Settled, Ledger, ContractCall
  <2>. QED
    BY <1>n, <2>1, <2>2 DEF Books, NoCall
<1>8. CASE Pull
  <2>1. UnderWay /\ call.opp \in Opp /\ tx[call.opp].state = "pending"
    BY <1>0, <1>8 DEF Pull, Books, UnderWay, NoCall
  <2>2. /\ \A p \in Opp \ {call.opp} : tx'[p] = tx[p]
        /\ tx'[call.opp].state = "ok"
    BY <1>0, <1>8, <2>1 DEF Pull
  <2>3. IsFiniteSet(Succeeded') /\ Owed' = Owed + Premium
    <3>. DEFINE o == call.opp
    <3>1. o \in Opp /\ tx[o].state # "ok" /\ tx'[o].state = "ok" /\ \A p \in Opp \ {o} : tx'[p] = tx[p]
      BY <2>1, <2>2
    <3>. HIDE DEF o
    <3>. QED
      BY <1>0, <1>n, <1>t, <3>1, OwedMore
  <2>4. call' = NoCall /\ Settled(chain)'
    BY <1>0, <1>n, <1>8, <2>1, <2>3 DEF Pull, UnderWay, Settled, Ledger, ContractCall
  <2>. QED
    BY <2>3, <2>4 DEF Books
<1>9. ASSUME NEW amount \in 1 .. chain.kept, Withdraw(amount) PROVE Books'
  <2>1. Owed' = Owed /\ Succeeded' = Succeeded /\ Settled(chain) /\ call' = NoCall
    BY <1>0, <1>9, <1>o DEF Withdraw, Books
  <2>2. Settled(chain)'
    BY <1>0, <1>n, <1>9, <2>1 DEF Withdraw, Settled, Ledger
  <2>. QED
    BY <1>n, <2>1, <2>2 DEF Books
<1>. QED
  BY <1>1, <1>2, <1>3, <1>4, <1>5, <1>6, <1>7, <1>8, <1>9 DEF FlashNext, ChainStep, Outcomes

LEMMA FlashInitial == FlashInit => FlashInv
<1>. SUFFICES ASSUME FlashInit PROVE FlashInv
  OBVIOUS
<1>2. FlashType
  BY FlashAssumption
     DEF FlashInit, FlashType, Stages, Unsent, Done, Reasons, RowRecord, TxRecord, NoRow, NoTx,
         NoCall, Untouched, ContractCall, Ledger
<1>3. Succeeded = {}
  BY DEF FlashInit, Succeeded, NoTx
<1>4. IsFiniteSet(Succeeded) /\ Owed = Reserve
  BY <1>3, FS_EmptySet, FlashAssumption DEF Owed
<1>5. Books
  BY <1>4 DEF Books, FlashInit, Settled, Untouched
<1>6. \A o \in Opp : RowOf(o)
  BY DEF FlashInit, RowOf, NoRow, NoTx
<1>. QED
  BY <1>2, <1>5, <1>6 DEF FlashInv

LEMMA FlashKept == FlashInv /\ [FlashNext]_flashVars => FlashInv'
  BY FlashTypeStep, BooksStep, RowsStep DEF FlashInv

\* For every set of candidates, whatever is quoted, fails or is withdrawn:
\* between two calls Aave has all it lent and a premium for every call that
\* succeeded, no intermediate token and no allowance are left in the contract,
\* and a call that reverted has moved nothing.
THEOREM LoansAreRepaid == FlashSpec => []LoansRepaid
<1>1. FlashInv => LoansRepaid
  BY DEF FlashInv, Books, Settled, Owed, Succeeded, LoansRepaid
<1>. QED
  BY <1>1, FlashInitial, FlashKept, PTL DEF FlashSpec

\* A row says LANDED, reverted or refused only of a transaction that the chain
\* took, reverted or never saw, and the profit it books is the gain of its own
\* trade where nothing was left over in the contract.
THEOREM RowsTellTheChain == FlashSpec => []RowTellsChain
<1>1. FlashInv => RowTellsChain
  <2>. SUFFICES ASSUME FlashInv, NEW o \in Opp
                PROVE  /\ (outcome[o].state = "LANDED" /\ ~Mocked) => tx[o].state = "ok"
                       /\ (outcome[o].state = "LANDED" /\ stands[o] = "done" /\ ~Mocked
                             /\ tx[o].kept = 0) => outcome[o].pnl = tx[o].gain
                       /\ outcome[o].code = "TX_REVERTED" => tx[o].state = "reverted"
                       /\ outcome[o].code \in {"DUPLICATE_OPPORTUNITY", "SIMULATION_FAILED"} =>
                            tx[o].state = "none"
    BY DEF RowTellsChain, Mocked
  <2>. QED
    BY DEF FlashInv, FlashType, TxRecord, RowOf
<1>. QED
  BY <1>1, FlashInitial, FlashKept, PTL DEF FlashSpec

-----------------------------------------------------------------------------
(* Two legs                                                                 *)

Early == {"queued", "approve", "simulate", "buy"}
Late == {"bought", "approveSell", "sell"}
Ended == {"book", "landed"}

DealType ==
  /\ route \in RouteSettings
  /\ venue = route.venue
  /\ deployed \in [Venue -> SUBSET UNION {Slots[k] : k \in DOMAIN Slots}]
  /\ \A v \in Venue : deployed[v] \subseteq SlotsOf(v)
  /\ stage \in Early \cup Late \cup Ended \cup {"scan", "failed"}
  /\ DOMAIN deal = {"amountIn", "buyOut", "sellIn", "sellOut", "quoted", "liquidity", "old"}
  /\ deal.sellIn = deal.buyOut
  /\ deal.amountIn \in Nat /\ deal.buyOut \in Nat
  /\ calldata = [v \in Venue |-> calldata[v]]
  /\ wallet \in [{"x", "y"} -> Nat]
  /\ got \in [Venue -> Nat]
  /\ found = [v \in Venue |-> found[v]] /\ listed = [v \in Venue |-> listed[v]]
  /\ \A v \in Venue : found[v] \subseteq deployed[v]
  /\ \A v \in Venue : \A l \in listed[v] : l.slot \in deployed[v]
  /\ \A v \in Venue : venue[v].kind = "algebra" /\ listed[v] # {} => "pool" \in found[v]

\* Before the buy lands, between the two legs, and after the sell.
Untraded == wallet = route.held /\ got = [v \in Venue |-> 0]
Holding ==
  /\ got["sell"] = 0 /\ got["buy"] >= BuyMin /\ deal.buyOut > 0
  /\ wallet = [route.held EXCEPT !["x"] = @ - deal.amountIn, !["y"] = @ + got["buy"]]
Traded ==
  /\ got["buy"] >= BuyMin /\ deal.buyOut > 0 /\ got["sell"] >= SellMin
  /\ wallet = [route.held EXCEPT !["x"] = @ - deal.amountIn + got["sell"]]

Money ==
  /\ stage \in Early \cup {"scan"} => Untraded
  /\ stage = "buy" => deal.buyOut > 0
  /\ stage \in Late => Holding
  /\ stage \in Ended => Traded
  /\ stage = "failed" => Untraded \/ Holding
  /\ stage = "landed" => booked = got["sell"] - deal.amountIn

\* Where the factory, asked at rest, sends a quote and a swap at v.
Answer(v) ==
  CASE venue[v].kind = "v2" -> "pair"
    [] venue[v].kind = "v3" -> ResolveFeeTier(v)
    [] venue[v].kind = "solidly" -> ResolveStable(v, {})
    [] venue[v].kind = "algebra" -> "pool"
Steady(v) == ~disturbed /\ ~(Rpc /\ venue[v].kind = "solidly")
Built(v) ==
  stage \in (IF v = "buy" THEN {"approve", "simulate", "buy"} \cup Late ELSE {"approveSell", "sell"})
            \cup Ended \/ got[v] > 0

Ways ==
  /\ stage = "scan" => got = [v \in Venue |-> 0]
  /\ \A v \in Venue :
       /\ stage # "scan" /\ Steady(v) => deal.quoted[v] \in {Nowhere, Answer(v)}
       /\ stage # "scan" /\ Built(v) /\ ~disturbed => Steady(v) /\ calldata[v] = Answer(v)

RouteInv == DealType /\ Money /\ Ways

\* What is kept of an amount is one, and not nothing of two units or more.
LEMMA KeptBounds ==
  ASSUME NEW a \in Nat
  PROVE  Kept(a) \in Nat /\ (a > 1 => Kept(a) > 0)
<1>1. Slippage \in {2, 3, 5, 8}
  BY DEF Slippage
<1>2. CASE Slippage = 2
  BY <1>2 DEF Kept
<1>3. CASE Slippage = 3
  BY <1>3 DEF Kept
<1>4. CASE Slippage = 5
  BY <1>4 DEF Kept
<1>5. CASE Slippage = 8
  BY <1>5 DEF Kept
<1>. QED
  BY <1>1, <1>2, <1>3, <1>4, <1>5

LEMMA Products == \A a, b \in Nat : a * b \in Nat
OBVIOUS

LEMMA Quotients == \A a \in Nat, b \in Nat \ {0} : a \div b \in Nat
OBVIOUS

\* The setting is one of those assumed.
LEMMA Route ==
  ASSUME DealType
  PROVE  /\ route.held \in [{"x", "y"} -> Nat]
         /\ \A v \in Venue : /\ venue[v].kind \in {"v2", "v3", "solidly", "algebra"}
                             /\ \A s \in deployed[v] :
                                  s # "other" /\ s # Failure /\ s # Nowhere
                                  /\ Reserves[v][s] \in (Nat \ {0}) \X (Nat \ {0})
         /\ Venue = {"buy", "sell"}
<1>1. /\ route.held \in [{"x", "y"} -> Nat]
      /\ \A v \in Venue : venue[v].kind \in {"v2", "v3", "solidly", "algebra"}
  BY RouteAssumption DEF DealType, Slots
<1>2. ASSUME NEW v \in Venue, NEW s \in deployed[v]
      PROVE  /\ s # "other" /\ s # Failure /\ s # Nowhere
             /\ Reserves[v][s] \in (Nat \ {0}) \X (Nat \ {0})
  <2>1. s \in Slots[venue[v].kind] /\ venue[v].kind \in DOMAIN Slots
    BY <1>1, <1>2 DEF DealType, SlotsOf, Slots
  <2>2. s \in DOMAIN Reserves[v]
    BY <2>1, AdapterAssumption
  <2>3. s # "other" /\ s # Failure /\ s # Nowhere
    BY <1>1, <2>1 DEF Slots, Failure, Nowhere
  <2>. QED
    BY <2>2, <2>3, AdapterAssumption
<1>. QED
  BY <1>1, <1>2 DEF Venue

\* What a pool of the pair pays is an amount.
LEMMA OutType ==
  ASSUME DealType, NEW v \in Venue, NEW s \in deployed[v] \cup {"other"}, NEW a \in Nat, NEW ofX,
         ofX = TRUE \/ s # "other"
  PROVE  Out(v, s, a, ofX) \in Nat
<1>. DEFINE r == IF s = "other" THEN <<100, OtherRate>> ELSE Reserves[v][s]
<1>1. r[1] \in Nat \ {0} /\ r[2] \in Nat /\ (s # "other" => r[2] \in Nat \ {0})
  BY Route, AdapterAssumption
<1>2. Out(v, s, a, ofX) = IF ofX THEN ((a * r[2]) \div r[1]) \div 10 ELSE (a * r[1] * 10) \div r[2]
  BY DEF Out
<1>. HIDE DEF r
<1>3. a * r[2] \in Nat /\ a * r[1] \in Nat
  BY <1>1, Products
<1>4. (a * r[2]) \div r[1] \in Nat
  BY <1>1, <1>3, Quotients
<1>5. ((a * r[2]) \div r[1]) \div 10 \in Nat
  BY <1>4
<1>6. s # "other" => (a * r[1] * 10) \div r[2] \in Nat
  <2>1. (a * r[1]) * 10 \in Nat
    BY <1>3
  <2>. QED
    BY <1>1, <2>1, Quotients
<1>. QED
  BY <1>2, <1>5, <1>6

\* The amount put in is one.
LEMMA AmountType ==
  ASSUME DealType, NEW l \in listed["buy"]
  PROVE  AmountIn(l) \in Nat
<1>1. l.slot \in deployed["buy"] /\ "buy" \in Venue
  BY DEF DealType, Venue
<1>2. Reserves["buy"][l.slot][1] \in Nat \ {0} /\ Reserves["buy"][l.slot][2] \in Nat \ {0}
  BY <1>1, Route
<1>3. AdjX("buy", l) \in Nat \ {0} /\ AdjY("buy", l) \in Nat \ {0}
  BY <1>2 DEF AdjX, AdjY
<1>. DEFINE p == Price0Per1("buy", l)
<1>4. p[1] \in Nat \ {0} /\ p[2] \in Nat \ {0}
  BY <1>3 DEF Price0Per1
<1>5. AmountIn(l) = (TradeSize * 100 * p[2]) \div p[1]
  BY DEF AmountIn
<1>. HIDE DEF p
<1>6. TradeSize * 100 \in Nat
  BY RouteAssumption
<1>7. (TradeSize * 100) * p[2] \in Nat
  BY <1>4, <1>6, Products
<1>. QED
  BY <1>4, <1>5, <1>7, Quotients

\* A quote is of the pool that the factory, asked at rest, sends a swap to, and
\* an amount at the first venue.
LEMMA QuotesAnswer ==
  ASSUME DealType, NEW v \in Venue, listed[v] # {}, NEW a \in Nat, NEW ofX, NEW rpc \in BOOLEAN,
         NEW q \in GetQuote(v, a, ofX, rpc)
  PROVE  /\ ~(rpc /\ venue[v].kind = "solidly") => q.slot \in {Nowhere, Answer(v)}
         /\ ofX = TRUE => q.out \in Nat
<1>1. q = NoQuote \/ \E s : /\ q = QuoteIn(v, s, a, ofX)
                            /\ ~(rpc /\ venue[v].kind = "solidly") => s \in {Answer(v), Failure}
  <2>1. CASE venue[v].kind = "v2"
    BY <2>1 DEF GetQuote, V2Quote, V2Swap, Answer
  <2>2. CASE venue[v].kind = "v3"
    BY <2>2 DEF GetQuote, V3Quote, V3Swap, FeeTiers, Answer
  <2>3. CASE venue[v].kind = "solidly"
    BY <2>3 DEF GetQuote, SolidlyQuote, SolidlySwap, Answer
  <2>4. CASE venue[v].kind = "algebra"
    <3>1. "pool" \in found[v]
      BY <2>4 DEF DealType
    <3>. QED
      BY <2>4, <3>1 DEF GetQuote, AlgebraQuote, FindPoolForPair, Answer
  <2>. QED
    BY Route, <2>1, <2>2, <2>3, <2>4
<1>2. CASE q = NoQuote
  BY <1>2 DEF NoQuote
<1>3. ASSUME NEW s, q = QuoteIn(v, s, a, ofX), q # NoQuote,
             ~(rpc /\ venue[v].kind = "solidly") => s \in {Answer(v), Failure}
      PROVE  /\ ~(rpc /\ venue[v].kind = "solidly") => q.slot \in {Nowhere, Answer(v)}
             /\ ofX = TRUE => q.out \in Nat
  <2>1. /\ s \in deployed[v] \cup {"other"} /\ q.slot = s /\ q.out = Out(v, s, a, ofX)
    BY <1>3 DEF QuoteIn
  <2>2. s # Failure
    BY <2>1, Route DEF Failure
  <2>. QED
    BY <1>3, <2>1, <2>2, OutType
<1>. QED
  BY <1>1, <1>2, <1>3

\* The fields of a deal that minimums and pools are taken from.
DealKept ==
  /\ deal'.amountIn = deal.amountIn /\ deal'.buyOut = deal.buyOut
  /\ deal'.quoted = deal.quoted /\ deal'.liquidity = deal.liquidity
  /\ UNCHANGED <<got, booked, route, wallet>>

LEMMA MinsKept ==
  ASSUME DealKept
  PROVE  BuyMin' = BuyMin /\ SellMin' = SellMin
<1>1. Slippage' = Slippage
  BY DEF DealKept, Slippage
<1>. QED
  BY <1>1 DEF DealKept, BuyMin, SellMin, Kept

\* A job that goes on, or fails, without money moving.
LEMMA MoneyKept ==
  ASSUME Money, DealKept,
         \/ stage' = stage
         \/ stage' = "failed" /\ stage \in Early \cup Late
         \/ stage' \in Early \ {"buy"} /\ stage \in Early
         \/ stage' = "buy" /\ stage \in Early /\ deal.buyOut > 0
         \/ stage' \in Late /\ stage \in Late
  PROVE  Money'
<1>1. BuyMin' = BuyMin /\ SellMin' = SellMin
  BY MinsKept
<1>2. (Untraded => Untraded') /\ (Holding => Holding') /\ (Traded => Traded')
  BY <1>1 DEF DealKept, Untraded, Holding, Traded
<1>. QED
  BY <1>2 DEF Money, DealKept, Early, Late, Ended

\* The deal keeps its form and its amounts where only its age changes.
LEMMA AgeKeeps ==
  ASSUME DealType, Age
  PROVE  /\ DealKept /\ DealType'
         /\ UNCHANGED <<adapterVars, stage, calldata, disturbed>>
<1>1. DealKept /\ deal'.sellIn = deal.sellIn /\ deal'.sellOut = deal.sellOut
  BY DEF Age, DealType, DealKept
<1>2. DOMAIN deal' = DOMAIN deal
  BY DEF Age
<1>3. UNCHANGED <<adapterVars, stage, calldata, disturbed>>
  BY DEF Age
<1>. QED
  BY <1>1, <1>2, <1>3 DEF Age, DealType, adapterVars, SlotsOf

\* A listing names pools that are deployed.
LEMMA RefreshType ==
  ASSUME DealType, NEW v \in Venue, Refresh(v)
  PROVE  /\ DealType' /\ stage = "scan"
         /\ UNCHANGED <<venue, deployed, route, stage, dealVars, wallet, disturbed>>
<1>0. stage = "scan" /\ UNCHANGED <<route, stage, dealVars, wallet, allowed, disturbed>>
  BY DEF Refresh
<1>1. PICK answered \in SUBSET SlotsOf(v), read \in SUBSET SlotsOf(v), answers \in BOOLEAN :
         GetPools(v, answered, read, answers)
  BY DEF Refresh
<1>. DEFINE now == CASE venue[v].kind = "v2" -> V2Pools(v, answered, read)
                     [] venue[v].kind = "v3" -> V3Pools(v, answered, read)
                     [] venue[v].kind = "solidly" -> SolidlyPools(v, answered, read)
                     [] venue[v].kind = "algebra" -> AlgebraPools(v, answered, read)
<1>2. /\ found' = [found EXCEPT ![v] = now.keeps]
      /\ listed' = [listed EXCEPT ![v] = {l \in listed[v] : l.slot \notin now.sees}
           \cup [slot : now.sees, known : {(v \in meta) \/ answers}]]
      /\ UNCHANGED <<venue, deployed>>
  BY <1>1 DEF GetPools
<1>3. /\ now.keeps \subseteq deployed[v] /\ now.sees \subseteq deployed[v]
      /\ venue[v].kind = "algebra" =>
           now.keeps = found[v] \cup now.sees /\ deployed[v] \subseteq {"pool"}
  <2>1. found[v] \subseteq deployed[v] /\ deployed[v] \subseteq SlotsOf(v)
    BY DEF DealType
  <2>2. CASE venue[v].kind = "v2"
    BY <2>1, <2>2 DEF V2Pools
  <2>3. CASE venue[v].kind = "v3"
    BY <2>1, <2>3 DEF V3Pools
  <2>4. CASE venue[v].kind = "solidly"
    BY <2>1, <2>4 DEF SolidlyPools
  <2>5. CASE venue[v].kind = "algebra"
    BY <2>1, <2>5 DEF AlgebraPools, SlotsOf, Slots
  <2>. QED
    BY Route, <2>2, <2>3, <2>4, <2>5
<1>. HIDE DEF now
<1>4. ASSUME NEW w \in Venue
      PROVE  /\ found'[w] \subseteq deployed[w]
             /\ \A l \in listed'[w] : l.slot \in deployed[w]
             /\ venue[w].kind = "algebra" /\ listed'[w] # {} => "pool" \in found'[w]
  <2>1. CASE w # v
    BY <1>2, <2>1 DEF DealType
  <2>2. CASE w = v
    <3>1. found'[v] = now.keeps
      BY <1>2 DEF DealType
    <3>2. listed'[v] = {l \in listed[v] : l.slot \notin now.sees}
            \cup [slot : now.sees, known : {(v \in meta) \/ answers}]
      BY <1>2 DEF DealType
    <3>3. \A l \in listed'[v] : l.slot \in deployed[v]
      BY <1>3, <3>2 DEF DealType
    <3>4. ASSUME venue[v].kind = "algebra", listed'[v] # {} PROVE "pool" \in found'[v]
      <4>1. CASE now.sees = {}
        <5>1. listed[v] # {}
          BY <3>2, <3>4, <4>1
        <5>. QED
          BY <1>3, <3>1, <3>4, <5>1 DEF DealType
      <4>2. CASE now.sees # {}
        BY <1>3, <3>1, <3>4, <4>2
      <4>. QED
        BY <4>1, <4>2
    <3>. QED
      BY <1>3, <2>2, <3>1, <3>3, <3>4
  <2>. QED
    BY <2>1, <2>2
<1>5. found' = [w \in Venue |-> found'[w]] /\ listed' = [w \in Venue |-> listed'[w]]
  BY <1>2 DEF DealType
<1>. QED
  BY <1>0, <1>2, <1>4, <1>5 DEF DealType, dealVars, SlotsOf

\* Whatever the stage, the types stand where only the stage, the approvals and
\* the calldata change.
LEMMA TypeKept ==
  ASSUME DealType, UNCHANGED <<adapterVars, route, deal, got, wallet>>,
         stage' \in Early \cup Late \cup Ended \cup {"failed"},
         calldata' = [v \in Venue |-> calldata'[v]]
  PROVE  DealType'
BY DEF DealType, adapterVars, SlotsOf

\* The factory's answer is the same while no pool is created.
LEMMA AnswerKept ==
  ASSUME UNCHANGED <<venue, deployed>>, NEW v \in Venue
  PROVE  Answer(v)' = Answer(v)
BY DEF Answer, ResolveFeeTier, ResolveStable

\* A job goes on, or fails, without money moving or a pool being resolved.
LEMMA Quiet ==
  ASSUME RouteInv, UNCHANGED <<adapterVars, route, dealVars, wallet, disturbed>>,
         \/ stage' = "failed" /\ stage \in Early \cup Late
         \/ stage = "approve" /\ stage' = "simulate"
         \/ stage = "simulate" /\ stage' = "buy" /\ deal.buyOut > 0
         \/ stage = "approveSell" /\ stage' = "sell"
  PROVE  RouteInv'
<1>1. DealType /\ Money /\ Ways
  BY DEF RouteInv
<1>2. DealType'
  BY <1>1, TypeKept DEF dealVars, Early, Late, DealType
<1>3. Money'
  <2>1. DealKept
    BY DEF DealKept, dealVars
  <2>. QED
    BY <1>1, <2>1, MoneyKept DEF Early, Late
<1>4. Ways'
  <2>1. stage # "scan" /\ stage' # "scan"
    BY DEF Early, Late
  <2>2. ASSUME NEW v \in Venue
        PROVE  Answer(v)' = Answer(v) /\ Steady(v)' = Steady(v) /\ (Built(v)' => Built(v))
    <3>1. UNCHANGED <<venue, deployed>>
      BY DEF adapterVars
    <3>2. Steady(v)' = Steady(v)
      BY <3>1 DEF Steady, Rpc
    <3>3. Built(v)' => Built(v)
      BY DEF Built, Early, Late, Ended, dealVars
    <3>. QED
      BY <3>1, <3>2, <3>3, AnswerKept
  <2>. QED
    BY <1>1, <2>1, <2>2 DEF Ways, dealVars
<1>. QED
  BY <1>2, <1>3, <1>4 DEF RouteInv

\* Both quotes are of the pools the factory would answer now.
LEMMA QuoteStep ==
  ASSUME RouteInv, Quote
  PROVE  RouteInv'
<1>1. DealType /\ Money /\ Ways
  BY DEF RouteInv
<1>2. PICK b \in listed["buy"], s \in listed["sell"] :
        \E bq \in GetQuote("buy", AmountIn(b), TRUE, Rpc) :
          \E sq \in (IF bq.out = 0 THEN {NoQuote} ELSE GetQuote("sell", bq.out, FALSE, Rpc)) :
            Evaluate(b, s, bq, sq)
  BY DEF Quote
<1>3. PICK bq \in GetQuote("buy", AmountIn(b), TRUE, Rpc) :
        \E sq \in (IF bq.out = 0 THEN {NoQuote} ELSE GetQuote("sell", bq.out, FALSE, Rpc)) :
          Evaluate(b, s, bq, sq)
  BY <1>2
<1>4. PICK sq \in (IF bq.out = 0 THEN {NoQuote} ELSE GetQuote("sell", bq.out, FALSE, Rpc)) :
        Evaluate(b, s, bq, sq)
  BY <1>3
<1>5. /\ stage = "scan" /\ stage' = "queued" /\ disturbed' = FALSE
      /\ UNCHANGED <<adapterVars, route, calldata, wallet, allowed, got, booked>>
      /\ DOMAIN deal' = {"amountIn", "buyOut", "sellIn", "sellOut", "quoted", "liquidity", "old"}
      /\ deal'.amountIn = AmountIn(b) /\ deal'.buyOut = bq.out /\ deal'.sellIn = bq.out
      /\ deal'.quoted = [v \in Venue |-> IF v = "buy" THEN bq.slot ELSE sq.slot]
  BY <1>4 DEF Evaluate
<1>6. AmountIn(b) \in Nat
  BY <1>1, AmountType
<1>7. /\ bq.out \in Nat
      /\ ~(Rpc /\ venue["buy"].kind = "solidly") => bq.slot \in {Nowhere, Answer("buy")}
  <2>1. "buy" \in Venue /\ listed["buy"] # {} /\ Rpc \in BOOLEAN
    BY DEF Venue, Rpc
  <2>. QED
    BY <1>1, <1>6, <2>1, QuotesAnswer
<1>8. ~(Rpc /\ venue["sell"].kind = "solidly") => sq.slot \in {Nowhere, Answer("sell")}
  <2>1. CASE bq.out = 0
    BY <2>1 DEF NoQuote
  <2>2. CASE bq.out # 0
    <3>1. "sell" \in Venue /\ listed["sell"] # {} /\ Rpc \in BOOLEAN
      BY DEF Venue, Rpc
    <3>2. sq \in GetQuote("sell", bq.out, FALSE, Rpc)
      BY <2>2
    <3>. QED
      BY <1>1, <1>7, <3>1, <3>2, QuotesAnswer
  <2>. QED
    BY <2>1, <2>2
<1>9. DealType'
  BY <1>1, <1>5, <1>6, <1>7 DEF DealType, adapterVars, SlotsOf, Early
<1>10. Money'
  BY <1>1, <1>5 DEF Money, Untraded, Early, Late, Ended
<1>11. Ways'
  <2>1. got' = [v \in Venue |-> 0]
    BY <1>1, <1>5 DEF Ways
  <2>2. ASSUME NEW v \in Venue
        PROVE  (Steady(v)' => deal'.quoted[v] \in {Nowhere, Answer(v)'}) /\ ~Built(v)'
    <3>1. Answer(v)' = Answer(v)
      BY <1>5, AnswerKept DEF adapterVars
    <3>2. Steady(v)' => ~(Rpc /\ venue[v].kind = "solidly")
      BY <1>5 DEF Steady, Rpc, adapterVars
    <3>3. ~Built(v)'
      BY <1>5, <2>1 DEF Built, Late, Ended
    <3>. QED
      BY <1>5, <1>7, <1>8, <3>1, <3>2, <3>3 DEF Venue
  <2>. QED
    BY <1>5, <2>2 DEF Ways
<1>. QED
  BY <1>9, <1>10, <1>11 DEF RouteInv

\* A pool created meanwhile.
LEMMA NewPoolStep ==
  ASSUME RouteInv, NEW v \in Venue, NEW s \in SlotsOf(v), NewPool(v, s)
  PROVE  RouteInv'
<1>1. DealType /\ Money /\ Ways
  BY DEF RouteInv
<1>2. /\ UNCHANGED <<venue, found, meta, listed, route, stage, dealVars, wallet, allowed>>
      /\ stage # "scan" /\ disturbed' = TRUE
      /\ deployed' = [deployed EXCEPT ![v] = @ \cup {s}]
  BY DEF NewPool, Deploy
<1>3. DealType'
  <2>1. s \in UNION {Slots[k] : k \in DOMAIN Slots}
    BY <1>1, Route DEF SlotsOf, Slots
  <2>2. \A w \in Venue : deployed[w] \subseteq deployed'[w] /\ deployed'[w] \subseteq SlotsOf(w)
    BY <1>1, <1>2 DEF DealType
  <2>3. deployed' \in [Venue -> SUBSET UNION {Slots[k] : k \in DOMAIN Slots}]
    BY <1>1, <1>2, <2>1 DEF DealType
  <2>. QED
    BY <1>1, <1>2, <2>2, <2>3 DEF DealType, dealVars, SlotsOf
<1>4. Money'
  <2>1. DealKept
    BY <1>2 DEF DealKept, dealVars
  <2>. QED
    BY <1>1, <1>2, <2>1, MoneyKept
<1>5. Ways'
  BY <1>2 DEF Ways, Steady
<1>. QED
  BY <1>3, <1>4, <1>5 DEF RouteInv

\* A swap is built for the pool the factory answers now.
LEMMA BuildStep ==
  ASSUME RouteInv, NEW v \in Venue, NEW from, NEW to, Build(v, from, to),
         \/ v = "buy" /\ from = "queued" /\ to = "approve"
         \/ v = "sell" /\ from = "bought" /\ to = "approveSell"
  PROVE  RouteInv'
<1>1. DealType /\ Money /\ Ways
  BY DEF RouteInv
<1>2. PICK s \in Routes(v, Rpc) :
        /\ stage = from /\ stage' = IF s = Failure THEN "failed" ELSE to
        /\ calldata' = [calldata EXCEPT ![v] = IF s = Failure THEN calldata[v] ELSE s]
        /\ disturbed' = (disturbed \/ (Rpc /\ venue[v].kind = "solidly"))
        /\ UNCHANGED <<adapterVars, route, deal, wallet, allowed, got, booked>>
  BY DEF Build, AwaitsIn
<1>3. DealType'
  <2>1. calldata' = [w \in Venue |-> calldata'[w]]
    BY <1>1, <1>2 DEF DealType
  <2>. QED
    BY <1>1, <1>2, <2>1, TypeKept DEF Early, Late
<1>4. Money'
  <2>1. DealKept
    BY <1>2 DEF DealKept
  <2>2. \/ stage' = "failed" /\ stage \in Early \cup Late
        \/ stage' \in Early \ {"buy"} /\ stage \in Early
        \/ stage' \in Late /\ stage \in Late
    BY <1>2 DEF Early, Late
  <2>. QED
    BY <1>1, <2>1, <2>2, MoneyKept
<1>5. Ways'
  <2>1. stage # "scan" /\ stage' # "scan"
    BY <1>2
  <2>2. ASSUME NEW w \in Venue
        PROVE  /\ Steady(w)' => deal'.quoted[w] \in {Nowhere, Answer(w)'}
               /\ Built(w)' /\ ~disturbed' => Steady(w)' /\ calldata'[w] = Answer(w)'
    <3>1. UNCHANGED <<venue, deployed>>
      BY <1>2 DEF adapterVars
    <3>2. Answer(w)' = Answer(w)
      BY <3>1, AnswerKept
    <3>3. ~disturbed' => ~disturbed /\ Steady(w)' = Steady(w)
      BY <1>2, <3>1 DEF Steady, Rpc
    <3>4. Steady(w)' => ~disturbed'
      BY DEF Steady
    <3>5. Steady(w)' => deal'.quoted[w] \in {Nowhere, Answer(w)'}
      BY <1>1, <1>2, <2>1, <3>2, <3>3, <3>4 DEF Ways
    <3>6. CASE w # v \/ s = Failure
      <4>1. calldata'[w] = calldata[w]
        BY <1>1, <1>2, <3>6 DEF DealType
      <4>2. Built(w)' => Built(w)
        BY <1>2, <3>6 DEF Built, Late, Ended, Venue
      <4>. QED
        BY <1>1, <2>1, <3>2, <3>3, <3>5, <4>1, <4>2 DEF Ways
    <3>7. CASE w = v /\ s # Failure
      <4>1. calldata'[w] = s
        BY <1>1, <1>2, <3>7 DEF DealType
      <4>2. ASSUME ~disturbed' PROVE Steady(w)' /\ s = Answer(w)
        <5>1. ~(Rpc /\ venue[v].kind = "solidly")
          BY <1>2, <4>2
        <5>2. s = Answer(v)
          <6>1. CASE venue[v].kind = "v2"
            BY <1>2, <6>1 DEF Routes, V2Swap, Answer
          <6>2. CASE venue[v].kind = "v3"
            BY <1>2, <3>7, <6>2 DEF Routes, V3Swap, FeeTiers, Answer
          <6>3. CASE venue[v].kind = "solidly"
            BY <1>2, <5>1, <6>3 DEF Routes, SolidlySwap, Answer
          <6>4. CASE venue[v].kind = "algebra"
            BY <1>2, <6>4 DEF Routes, AlgebraSwap, Answer
          <6>. QED
            BY <1>1, <6>1, <6>2, <6>3, <6>4, Route
        <5>3. Steady(w)'
          BY <1>2, <3>1, <3>7, <4>2, <5>1 DEF Steady, Rpc
        <5>. QED
          BY <3>7, <5>2, <5>3
      <4>. QED
        BY <3>2, <3>5, <4>1, <4>2
    <3>. QED
      BY <3>6, <3>7
  <2>. QED
    BY <2>1, <2>2 DEF Ways
<1>. QED
  BY <1>3, <1>4, <1>5 DEF RouteInv

LEMMA EnsureStep ==
  ASSUME RouteInv,
         \/ Ensure("x", "buy", "approve", "simulate")
         \/ Ensure("y", "sell", "approveSell", "sell")
  PROVE  RouteInv'
<1>1. UNCHANGED <<adapterVars, route, dealVars, wallet, disturbed>>
  BY DEF Ensure
<1>2. \/ stage = "approve" /\ stage' \in {"simulate", "failed"}
      \/ stage = "approveSell" /\ stage' \in {"sell", "failed"}
  BY DEF Ensure, AwaitsIn
<1>. QED
  BY <1>1, <1>2, Quiet DEF Early, Late

\* What the simulation lets through sells something.
LEMMA SimulateStep ==
  ASSUME RouteInv, SimulateLegs
  PROVE  RouteInv'
<1>1. /\ stage = "simulate"
      /\ UNCHANGED <<adapterVars, route, dealVars, wallet, allowed, disturbed>>
  BY DEF SimulateLegs
<1>2. \/ stage' = "failed"
      \/ stage' = "buy" /\ \E ss : Swappable("y", "sell", ss, deal.sellIn)
  BY DEF SimulateLegs, LegsPass
<1>3. CASE stage' = "failed"
  BY <1>1, <1>3, Quiet DEF Early
<1>4. CASE stage' = "buy" /\ \E ss : Swappable("y", "sell", ss, deal.sellIn)
  <2>1. deal.sellIn \in 1 .. wallet["y"]
    BY <1>4 DEF Swappable
  <2>2. deal.buyOut > 0
    BY <2>1 DEF RouteInv, DealType
  <2>. QED
    BY <1>1, <1>4, <2>2, Quiet
<1>. QED
  BY <1>2, <1>3, <1>4

\* What a pool pays after it moved is an amount.
LEMMA Drifted ==
  ASSUME NEW o \in Nat, NEW d \in Drifts
  PROVE  (o * (100 - d)) \div 100 \in Nat
<1>1. 100 - d \in Nat
  BY RouteAssumption
<1>2. o * (100 - d) \in Nat
  BY <1>1, Products
<1>. QED
  BY <1>2, Quotients

\* A swap fails, or lands for what it takes and brings.
LEMMA SwapOutcome ==
  ASSUME DealType, NEW v \in Venue, NEW token \in {"x", "y"}, NEW amount \in Nat, NEW min,
         NEW from, NEW to, Swap(v, token, amount, min, from, to)
  PROVE  /\ stage = from /\ UNCHANGED <<adapterVars, route, deal, calldata, allowed, booked, disturbed>>
         /\ \/ stage' = "failed" /\ UNCHANGED <<dealVars, wallet>>
            \/ /\ stage' = to
               /\ amount \in 1 .. wallet[token]
               /\ \E out \in Nat :
                    /\ out >= min
                    /\ wallet' = [wallet EXCEPT ![token] = wallet[token] - amount,
                                                ![Other(token)] = wallet[Other(token)] + out]
                    /\ got' = [got EXCEPT ![v] = out]
<1>. DEFINE o == Out(v, calldata[v], amount, token = "x")
<1>1. PICK d \in Drifts :
        LET out == (o * (100 - d)) \div 100
        IN  \/ /\ Swappable(token, v, calldata[v], amount) /\ out >= min
               /\ AwaitsIn(from, to)
               /\ wallet' = [wallet EXCEPT ![token] = @ - amount, ![Other(token)] = @ + out]
               /\ got' = [got EXCEPT ![v] = out]
               /\ UNCHANGED <<adapterVars, route, deal, calldata, allowed, booked, disturbed>>
            \/ /\ ~(Swappable(token, v, calldata[v], amount) /\ out >= min)
               /\ AwaitsIn(from, "failed")
               /\ UNCHANGED <<adapterVars, route, dealVars, wallet, allowed, disturbed>>
  BY DEF Swap
<1>2. Swappable(token, v, calldata[v], amount) => o \in Nat
  <2>. SUFFICES ASSUME Swappable(token, v, calldata[v], amount) PROVE o \in Nat
    OBVIOUS
  <2>1. calldata[v] \in deployed[v]
    BY DEF Swappable
  <2>2. calldata[v] # "other"
    BY <2>1, Route
  <2>. QED
    BY <2>1, <2>2, OutType
<1>. HIDE DEF o
<1>. DEFINE out == (o * (100 - d)) \div 100
<1>3. Swappable(token, v, calldata[v], amount) => out \in Nat
  BY <1>2, Drifted
<1>4. \/ /\ Swappable(token, v, calldata[v], amount) /\ out >= min
         /\ AwaitsIn(from, to)
         /\ wallet' = [wallet EXCEPT ![token] = wallet[token] - amount,
                                     ![Other(token)] = wallet[Other(token)] + out]
         /\ got' = [got EXCEPT ![v] = out]
         /\ UNCHANGED <<adapterVars, route, deal, calldata, allowed, booked, disturbed>>
      \/ /\ AwaitsIn(from, "failed")
         /\ UNCHANGED <<adapterVars, route, dealVars, wallet, allowed, disturbed>>
  BY <1>1 DEF Other
<1>. HIDE DEF out
<1>. QED
  BY <1>3, <1>4 DEF AwaitsIn, Swappable, dealVars

\* A buy that lands leaves the wallet holding what it brought.
LEMMA BuyStep ==
  ASSUME RouteInv, Buy
  PROVE  RouteInv'
<1>1. DealType /\ Money /\ Ways
  BY DEF RouteInv
<1>2. deal.amountIn \in Nat /\ "buy" \in Venue /\ Venue = {"buy", "sell"}
  BY <1>1 DEF DealType, Venue
<1>3. Swap("buy", "x", deal.amountIn, BuyMin, "buy", "bought")
  BY DEF Buy
<1>4. /\ stage = "buy"
      /\ UNCHANGED <<adapterVars, route, deal, calldata, allowed, booked, disturbed>>
      /\ \/ stage' = "failed" /\ UNCHANGED <<dealVars, wallet>>
         \/ /\ stage' = "bought" /\ deal.amountIn \in 1 .. wallet["x"]
            /\ \E out \in Nat :
                 /\ out >= BuyMin
                 /\ wallet' = [wallet EXCEPT !["x"] = wallet["x"] - deal.amountIn,
                                             ![Other("x")] = wallet[Other("x")] + out]
                 /\ got' = [got EXCEPT !["buy"] = out]
  BY <1>1, <1>2, <1>3, SwapOutcome
<1>5. CASE stage' = "failed" /\ UNCHANGED <<dealVars, wallet>>
  BY <1>4, <1>5, Quiet DEF Early
<1>6. ASSUME stage' = "bought", deal.amountIn \in 1 .. wallet["x"], NEW out \in Nat, out >= BuyMin,
             wallet' = [wallet EXCEPT !["x"] = wallet["x"] - deal.amountIn,
                                      ![Other("x")] = wallet[Other("x")] + out],
             got' = [got EXCEPT !["buy"] = out]
      PROVE  RouteInv'
  <2>1. /\ wallet' = [route.held EXCEPT !["x"] = route.held["x"] - deal.amountIn,
                                        !["y"] = route.held["y"] + out]
        /\ wallet = route.held /\ got = [v \in Venue |-> 0] /\ deal.buyOut > 0
    BY <1>1, <1>4, <1>6 DEF Money, Untraded, Early, Other
  <2>2. wallet' \in [{"x", "y"} -> Nat] /\ got' \in [Venue -> Nat]
    <3>1. wallet \in [{"x", "y"} -> Nat]
      BY <1>1 DEF DealType
    <3>2. wallet["x"] - deal.amountIn \in Nat /\ wallet["y"] + out \in Nat
      BY <1>2, <1>6, <3>1
    <3>. QED
      BY <1>6, <2>1, <3>1, <3>2, ZenonT(40)
  <2>3. DealType'
    BY <1>1, <1>4, <1>6, <2>2 DEF DealType, adapterVars, SlotsOf, Late
  <2>4. Money'
    <3>1. BuyMin' = BuyMin
      BY <1>4 DEF BuyMin, Kept, Slippage
    <3>2. got'["buy"] = out /\ got'["sell"] = 0
      BY <1>2, <1>6, <2>1
    <3>3. Holding'
      BY <1>4, <1>6, <2>1, <3>1, <3>2 DEF Holding
    <3>. QED
      BY <1>6, <3>3 DEF Money, Early, Late, Ended
  <2>5. Ways'
    <3>1. UNCHANGED <<venue, deployed>>
      BY <1>4 DEF adapterVars
    <3>2. ASSUME NEW v \in Venue
          PROVE  Answer(v)' = Answer(v) /\ Steady(v)' = Steady(v) /\ (Built(v)' => Built(v))
      <4>1. Steady(v)' = Steady(v)
        BY <1>4, <3>1 DEF Steady, Rpc
      <4>2. got'["sell"] = 0
        BY <1>2, <1>6, <2>1
      <4>3. Built(v)' => Built(v)
        BY <1>2, <1>4, <1>6, <4>2 DEF Built, Late, Ended
      <4>. QED
        BY <3>1, <4>1, <4>3, AnswerKept
    <3>. QED
      BY <1>1, <1>4, <1>6, <3>2 DEF Ways
  <2>. QED
    BY <2>3, <2>4, <2>5 DEF RouteInv
<1>. QED
  BY <1>4, <1>5, <1>6

\* A sell that lands takes what the buy brought, and no more.
LEMMA SellStep ==
  ASSUME RouteInv, Sell
  PROVE  RouteInv'
<1>1. DealType /\ Money /\ Ways
  BY DEF RouteInv
<1>2. got["buy"] \in Nat /\ "sell" \in Venue /\ Venue = {"buy", "sell"}
  BY <1>1 DEF DealType, Venue
<1>3. Swap("sell", "y", got["buy"], SellMin, "sell", "book")
  BY DEF Sell, SellAmount
<1>4. /\ stage = "sell"
      /\ UNCHANGED <<adapterVars, route, deal, calldata, allowed, booked, disturbed>>
      /\ \/ stage' = "failed" /\ UNCHANGED <<dealVars, wallet>>
         \/ /\ stage' = "book" /\ got["buy"] \in 1 .. wallet["y"]
            /\ \E out \in Nat :
                 /\ out >= SellMin
                 /\ wallet' = [wallet EXCEPT !["y"] = wallet["y"] - got["buy"],
                                             ![Other("y")] = wallet[Other("y")] + out]
                 /\ got' = [got EXCEPT !["sell"] = out]
  BY <1>1, <1>2, <1>3, SwapOutcome
<1>5. CASE stage' = "failed" /\ UNCHANGED <<dealVars, wallet>>
  BY <1>4, <1>5, Quiet DEF Late
<1>6. ASSUME stage' = "book", got["buy"] \in 1 .. wallet["y"], NEW out \in Nat, out >= SellMin,
             wallet' = [wallet EXCEPT !["y"] = wallet["y"] - got["buy"],
                                      ![Other("y")] = wallet[Other("y")] + out],
             got' = [got EXCEPT !["sell"] = out]
      PROVE  RouteInv'
  <2>1. Holding
    BY <1>1, <1>4 DEF Money, Late
  <2>2. wallet \in [{"x", "y"} -> Nat] /\ route.held \in [{"x", "y"} -> Nat] /\ deal.amountIn \in Nat
    BY <1>1, Route DEF DealType
  <2>3. wallet["x"] = route.held["x"] - deal.amountIn /\ wallet["y"] = route.held["y"] + got["buy"]
    BY <2>1, <2>2 DEF Holding
  <2>4. wallet' = [wallet EXCEPT !["y"] = wallet["y"] - got["buy"], !["x"] = wallet["x"] + out]
    BY <1>6 DEF Other
  <2>5. wallet' = [route.held EXCEPT !["x"] = route.held["x"] - deal.amountIn + out]
    <3>1. wallet'["x"] = route.held["x"] - deal.amountIn + out /\ wallet'["y"] = route.held["y"]
      BY <1>2, <2>2, <2>3, <2>4
    <3>. QED
      BY <2>2, <2>4, <3>1
  <2>6. wallet' \in [{"x", "y"} -> Nat] /\ got' \in [Venue -> Nat]
    <3>1. wallet["x"] + out \in Nat /\ wallet["y"] - got["buy"] \in Nat
      BY <1>2, <1>6, <2>2
    <3>. QED
      BY <1>1, <1>6, <2>2, <2>4, <3>1, ZenonT(40) DEF DealType
  <2>7. DealType'
    BY <1>1, <1>4, <1>6, <2>6 DEF DealType, adapterVars, SlotsOf, Ended
  <2>8. Money'
    <3>1. BuyMin' = BuyMin /\ SellMin' = SellMin
      BY <1>4 DEF BuyMin, SellMin, Kept, Slippage
    <3>2. got'["sell"] = out /\ got'["buy"] = got["buy"]
      BY <1>1, <1>2, <1>6 DEF DealType
    <3>3. Traded'
      BY <1>4, <1>6, <2>1, <2>5, <3>1, <3>2 DEF Traded, Holding
    <3>. QED
      BY <1>6, <3>3 DEF Money, Early, Late, Ended
  <2>9. Ways'
    <3>1. UNCHANGED <<venue, deployed>>
      BY <1>4 DEF adapterVars
    <3>2. ASSUME NEW v \in Venue
          PROVE  Answer(v)' = Answer(v) /\ Steady(v)' = Steady(v) /\ Built(v)
      <4>1. Steady(v)' = Steady(v)
        BY <1>4, <3>1 DEF Steady, Rpc
      <4>2. Built(v)
        BY <1>4 DEF Built, Late
      <4>. QED
        BY <3>1, <4>1, <4>2, AnswerKept
    <3>. QED
      BY <1>1, <1>4, <1>6, <3>2 DEF Ways
  <2>. QED
    BY <2>7, <2>8, <2>9 DEF RouteInv
<1>. QED
  BY <1>4, <1>5, <1>6

LEMMA BookStep ==
  ASSUME RouteInv, Book
  PROVE  RouteInv'
<1>1. DealType /\ Money /\ Ways
  BY DEF RouteInv
<1>2. /\ stage = "book" /\ stage' = "landed" /\ booked' = got["sell"] - deal.amountIn
      /\ UNCHANGED <<adapterVars, route, deal, calldata, wallet, allowed, got, disturbed>>
  BY DEF Book, AwaitsIn
<1>3. DealType'
  BY <1>1, <1>2, TypeKept DEF Ended, DealType
<1>4. Money'
  <2>1. BuyMin' = BuyMin /\ SellMin' = SellMin
    BY <1>2 DEF BuyMin, SellMin, Kept, Slippage
  <2>2. Traded'
    BY <1>1, <1>2, <2>1 DEF Money, Ended, Traded
  <2>. QED
    BY <1>2, <2>2 DEF Money, Early, Late, Ended
<1>5. Ways'
  <2>1. ASSUME NEW v \in Venue
        PROVE  Answer(v)' = Answer(v) /\ Steady(v)' = Steady(v) /\ Built(v)
    <3>1. UNCHANGED <<venue, deployed>>
      BY <1>2 DEF adapterVars
    <3>2. Steady(v)' = Steady(v)
      BY <1>2, <3>1 DEF Steady, Rpc
    <3>3. Built(v)
      BY <1>2 DEF Built, Ended
    <3>. QED
      BY <3>1, <3>2, <3>3, AnswerKept
  <2>. QED
    BY <1>1, <1>2, <2>1 DEF Ways
<1>. QED
  BY <1>3, <1>4, <1>5 DEF RouteInv

LEMMA RefreshStep ==
  ASSUME RouteInv, NEW v \in Venue, Refresh(v)
  PROVE  RouteInv'
<1>1. DealType /\ Money /\ Ways
  BY DEF RouteInv
<1>2. /\ DealType' /\ stage = "scan"
      /\ UNCHANGED <<venue, deployed, route, stage, dealVars, wallet, disturbed>>
  BY <1>1, RefreshType
<1>3. Money'
  <2>1. DealKept
    BY <1>2 DEF DealKept, dealVars
  <2>. QED
    BY <1>1, <1>2, <2>1, MoneyKept
<1>. QED
  BY <1>1, <1>2, <1>3 DEF RouteInv, Ways, dealVars

LEMMA AgeStep ==
  ASSUME RouteInv, Age
  PROVE  RouteInv'
<1>1. DealType /\ Money /\ Ways
  BY DEF RouteInv
<1>2. /\ DealKept /\ DealType'
      /\ UNCHANGED <<adapterVars, stage, calldata, disturbed>>
  BY <1>1, AgeKeeps
<1>3. Money'
  BY <1>1, <1>2, MoneyKept
<1>4. Ways'
  <2>1. ASSUME NEW v \in Venue
        PROVE  Answer(v)' = Answer(v) /\ Steady(v)' = Steady(v) /\ Built(v)' = Built(v)
    <3>1. UNCHANGED <<venue, deployed>>
      BY <1>2 DEF adapterVars
    <3>2. Steady(v)' = Steady(v) /\ Built(v)' = Built(v)
      BY <1>2, <3>1 DEF Steady, Rpc, Built, DealKept
    <3>. QED
      BY <3>1, <3>2, AnswerKept
  <2>. QED
    BY <1>1, <1>2, <2>1 DEF Ways, DealKept
<1>. QED
  BY <1>2, <1>3, <1>4 DEF RouteInv

LEMMA RouteStep ==
  ASSUME RouteInv, [RouteNext]_routeVars
  PROVE  RouteInv'
<1>1. CASE UNCHANGED routeVars
  <2>1. DealType /\ Money /\ Ways
    BY DEF RouteInv
  <2>2. UNCHANGED <<adapterVars, route, stage, dealVars, wallet, disturbed>>
    BY <1>1 DEF routeVars
  <2>3. DealType'
    BY <2>1, <2>2 DEF DealType, adapterVars, dealVars, SlotsOf
  <2>4. Money'
    <3>1. DealKept
      BY <2>2 DEF DealKept, dealVars
    <3>. QED
      BY <2>1, <2>2, <3>1, MoneyKept
  <2>5. ASSUME NEW v \in Venue
        PROVE  Answer(v)' = Answer(v) /\ Steady(v)' = Steady(v) /\ Built(v)' = Built(v)
    <3>1. UNCHANGED <<venue, deployed>>
      BY <2>2 DEF adapterVars
    <3>2. Steady(v)' = Steady(v) /\ Built(v)' = Built(v)
      BY <2>2, <3>1 DEF Steady, Rpc, Built, dealVars
    <3>. QED
      BY <3>1, <3>2, AnswerKept
  <2>. QED
    BY <2>1, <2>2, <2>3, <2>4, <2>5 DEF RouteInv, Ways, dealVars
<1>2. ASSUME NEW v \in Venue, Refresh(v) PROVE RouteInv'
  BY <1>2, RefreshStep
<1>3. CASE Quote
  BY <1>3, QuoteStep
<1>4. CASE Age
  BY <1>4, AgeStep
<1>5. CASE Job
  <2>1. CASE Build("buy", "queued", "approve")
    BY <2>1, BuildStep DEF Venue
  <2>2. CASE Ensure("x", "buy", "approve", "simulate") \/ Ensure("y", "sell", "approveSell", "sell")
    BY <2>2, EnsureStep
  <2>3. CASE SimulateLegs
    BY <2>3, SimulateStep
  <2>4. CASE Buy
    BY <2>4, BuyStep
  <2>5. CASE Build("sell", "bought", "approveSell")
    BY <2>5, BuildStep DEF Venue
  <2>6. CASE Sell
    BY <2>6, SellStep
  <2>7. CASE Book
    BY <2>7, BookStep
  <2>. QED
    BY <1>5, <2>1, <2>2, <2>3, <2>4, <2>5, <2>6, <2>7 DEF Job
<1>6. ASSUME NEW v \in Venue, NEW s \in SlotsOf(v), NewPool(v, s) PROVE RouteInv'
  BY <1>6, NewPoolStep
<1>. QED
  BY <1>1, <1>2, <1>3, <1>4, <1>5, <1>6 DEF RouteNext

LEMMA RouteStarts == RouteInit => RouteInv
<1>. SUFFICES ASSUME RouteInit PROVE RouteInv
  OBVIOUS
<1>1. /\ route.held \in [{"x", "y"} -> Nat]
      /\ route.deployed \in [Venue -> SUBSET UNION {Slots[k] : k \in DOMAIN Slots}]
      /\ \A v \in Venue : route.deployed[v] \subseteq Slots[route.venue[v].kind]
  BY RouteAssumption DEF RouteInit
<1>2. DealType
  BY <1>1 DEF RouteInit, DealType, NoDeal, SlotsOf, Early
<1>3. Money
  BY DEF RouteInit, Money, Untraded, Early, Late, Ended
<1>4. Ways
  BY DEF RouteInit, Ways
<1>. QED
  BY <1>2, <1>3, <1>4 DEF RouteInv

\* The trade's promises, from the invariant.
LEMMA RouteImplies == RouteInv => TradeAsScored
<1>. SUFFICES ASSUME RouteInv PROVE TradeAsScored
  OBVIOUS
<1>1. DealType /\ Money /\ Ways
  BY DEF RouteInv
<1>2. RouteHolds
  <2>. SUFFICES ASSUME NEW v \in Venue, IF v = "buy" THEN Bought ELSE Sold,
                       deal.quoted[v] # Nowhere, ~disturbed
                PROVE  calldata[v] = deal.quoted[v]
    BY DEF RouteHolds
  <2>1. got[v] > 0
    BY DEF Bought, Sold, Venue
  <2>2. stage # "scan" /\ Built(v)
    BY <1>1, <2>1 DEF Ways, Built
  <2>. QED
    BY <1>1, <2>2 DEF Ways
<1>3. LossBounded
  <2>1. /\ route.held \in [{"x", "y"} -> Nat] /\ wallet \in [{"x", "y"} -> Nat]
        /\ deal.amountIn \in Nat /\ deal.buyOut \in Nat /\ got["buy"] \in Nat /\ got["sell"] \in Nat
    BY <1>1, Route DEF DealType, Venue
  <2>2. /\ Kept(deal.amountIn) \in Nat /\ Kept(deal.buyOut) \in Nat
        /\ deal.buyOut > 1 => Kept(deal.buyOut) > 0
    BY <2>1, KeptBounds
  <2>3. Untraded \/ Holding \/ Traded
    BY <1>1 DEF Money, DealType
  <2>4. deal.buyOut > 0 => BuyMin = Kept(deal.buyOut)
    BY DEF BuyMin
  <2>. HIDE DEF BuyMin, Kept
  <2>5. CASE Untraded
    <3>1. got["buy"] = 0 /\ got["sell"] = 0 /\ wallet = route.held
      BY <2>5 DEF Untraded, Venue
    <3>2. ASSUME stage = "landed" PROVE wallet = [route.held EXCEPT !["x"] = route.held["x"] + booked]
      <4>1. Traded /\ booked = got["sell"] - deal.amountIn
        BY <1>1, <3>2 DEF Money, Ended
      <4>. QED
        BY <2>1, <4>1 DEF Traded
    <3>. QED
      BY <2>1, <2>2, <3>1, <3>2 DEF LossBounded, Bought, Sold
  <2>6. CASE Holding
    <3>1. /\ got["sell"] = 0 /\ got["buy"] >= Kept(deal.buyOut) /\ deal.buyOut > 0
          /\ wallet["y"] = route.held["y"] + got["buy"]
      BY <2>1, <2>4, <2>6 DEF Holding
    <3>2. ASSUME stage = "landed" PROVE wallet = [route.held EXCEPT !["x"] = route.held["x"] + booked]
      <4>1. Traded /\ booked = got["sell"] - deal.amountIn
        BY <1>1, <3>2 DEF Money, Ended
      <4>. QED
        BY <2>1, <4>1 DEF Traded
    <3>. QED
      BY <2>1, <2>2, <3>1, <3>2 DEF LossBounded, Bought, Sold
  <2>7. CASE Traded
    <3>1. /\ got["buy"] >= Kept(deal.buyOut) /\ deal.buyOut > 0 /\ got["sell"] >= Kept(deal.amountIn)
          /\ wallet = [route.held EXCEPT !["x"] = route.held["x"] - deal.amountIn + got["sell"]]
      BY <2>1, <2>4, <2>7 DEF Traded, SellMin
    <3>2. wallet["x"] = route.held["x"] - deal.amountIn + got["sell"] /\ wallet["y"] = route.held["y"]
      BY <2>1, <3>1
    <3>3. ASSUME stage = "landed" PROVE wallet = [route.held EXCEPT !["x"] = route.held["x"] + booked]
      <4>1. booked = got["sell"] - deal.amountIn
        BY <1>1, <3>3 DEF Money
      <4>. QED
        BY <2>1, <3>1, <4>1
    <3>. QED
      BY <2>1, <2>2, <3>1, <3>2, <3>3 DEF LossBounded, Bought, Sold
  <2>. QED
    BY <2>3, <2>5, <2>6, <2>7
<1>. QED
  BY <1>2, <1>3 DEF TradeAsScored

\* Whatever the factory, the pools and the node do, a leg swaps in the pool that
\* was quoted for it and the wallet loses no more than the slippage of each quote.
THEOREM TradesAsScored == RouteSpec => []TradeAsScored
<1>1. RouteInv /\ [RouteNext]_routeVars => RouteInv'
  BY RouteStep
<1>. QED
  BY <1>1, RouteStarts, RouteImplies, PTL DEF RouteSpec

=============================================================================
