---------------------------- MODULE NonceManager ----------------------------
(***************************************************************************)
(* packages/chain/src/nonce-manager.ts: one wallet's transaction nonces,   *)
(* handed out under a Redis lock with a time to live and remembered in a   *)
(* Redis cache key.  The callers are those of packages/execution-engine:   *)
(* a swap leg (acquire, send, release) and an ERC20 approval (acquire,     *)
(* send, release, wait for the receipt, and release once more when the     *)
(* wait throws).  Every Redis command, RPC call and send is a step.        *)
(***************************************************************************)
EXTENDS Integers

CONSTANTS
  Caller,      \* the concurrent users of acquireNonce (jobs, worker processes)
  NoCaller,    \* the lock key does not exist
  NoNonce,     \* the cache key does not exist
  MaxStarts,   \* bound: number of acquireNonce calls in a behaviour
  Settings     \* the sets of faults that a behaviour may run with

AllFaults ==
  { "overrun",         \* a holder takes longer than LOCK_TTL_MS
    "crash",           \* a caller's process dies
    "redis",           \* a Redis command throws, executed or not
    "rpcFails",        \* getTransactionCount throws
    "sendFails",       \* sendTransaction throws, broadcast or not
    "receiptTimeout",  \* the approval's receipt does not come within 20 s
    "cacheExpires" }   \* the cache key reaches its 3600 s

ASSUME NonceAssumption ==
  /\ NoCaller \notin Caller
  /\ NoNonce \notin Nat
  /\ MaxStarts \in Nat
  /\ Settings \subseteq SUBSET AllFaults

VARIABLES
  faults,   \* what the environment may do: one of Settings, the same all along
  lock,     \* LOCK_KEY: the caller whose lockId it holds, or NoCaller
  cache,    \* NONCE_KEY: the next nonce, or NoNonce
  pc,       \* where each caller stands
  kind,     \* each caller's transaction: "swap" or "approve"
  phase,    \* which call of release() runs: "try", "catch", or "late" (after the wait)
  nonce,    \* the nonce each caller was given
  used,     \* nonces of the transactions the chain's node accepted
  lost,     \* nonces given out whose submission failed
  started   \* number of acquireNonce calls so far

vars == <<faults, lock, cache, pc, kind, phase, nonce, used, lost, started>>

PC == {"idle", "spin", "locked", "rpc", "held",
       "setCache", "checkLock", "delLock", "wait"}

Init ==
  /\ faults \in Settings
  /\ lock = NoCaller
  /\ cache = NoNonce
  /\ pc = [p \in Caller |-> "idle"]
  /\ kind = [p \in Caller |-> "swap"]
  /\ phase = [p \in Caller |-> "try"]
  /\ nonce = [p \in Caller |-> 0]
  /\ used = {}
  /\ lost = {}
  /\ started = 0

Goto(p, from, to) ==
  /\ pc[p] = from
  /\ pc' = [pc EXCEPT ![p] = to]

\* n is what getTransactionCount(pending) answers: the first nonce that no
\* accepted transaction has.
IsPendingCount(n) == n \notin used /\ 0 .. n - 1 \subseteq used

-----------------------------------------------------------------------------
(* acquireNonce                                                            *)

Begin(p) ==
  /\ started < MaxStarts
  /\ Goto(p, "idle", "spin")
  /\ started' = started + 1
  /\ \E k \in {"swap", "approve"} : kind' = [kind EXCEPT ![p] = k]
  /\ phase' = [phase EXCEPT ![p] = "try"]
  /\ nonce' = [nonce EXCEPT ![p] = 0]
  /\ UNCHANGED <<faults, lock, cache, used, lost>>

\* SET key lockId PX ttl NX; an attempt on an existing key changes nothing.
TryLock(p) ==
  /\ lock = NoCaller
  /\ Goto(p, "spin", "locked")
  /\ lock' = p
  /\ UNCHANGED <<faults, cache, kind, phase, nonce, used, lost, started>>

\* The deadline test follows the loop, so it also throws at a caller whose
\* last attempt got the lock: that lock stays until it expires.
SpinTimeout(p) ==
  /\ \/ Goto(p, "spin", "idle")
     \/ Goto(p, "locked", "idle")
  /\ UNCHANGED <<faults, lock, cache, kind, phase, nonce, used, lost, started>>

ReadCache(p) ==
  /\ \/ /\ cache # NoNonce
        /\ Goto(p, "locked", "held")
        /\ nonce' = [nonce EXCEPT ![p] = cache]
     \/ /\ cache = NoNonce
        /\ Goto(p, "locked", "rpc")
        /\ UNCHANGED nonce
  /\ UNCHANGED <<faults, lock, cache, kind, phase, used, lost, started>>

CountTransactions(p) ==
  /\ \/ /\ Goto(p, "rpc", "held")
        /\ \E n \in 0 .. MaxStarts : IsPendingCount(n) /\ nonce' = [nonce EXCEPT ![p] = n]
     \/ /\ "rpcFails" \in faults       \* throws: the lock is not given back
        /\ Goto(p, "rpc", "idle")
        /\ UNCHANGED nonce
  /\ UNCHANGED <<faults, lock, cache, kind, phase, used, lost, started>>

-----------------------------------------------------------------------------
(* The caller's submission                                                 *)

\* A node turns down a nonce that is used ("nonce too low", "underpriced") or
\* lets the new transaction replace the pending one.
Send(p) ==
  /\ Goto(p, "held", "setCache")
  /\ \/ /\ used' = used \cup {nonce[p]}
        /\ phase' = [phase EXCEPT ![p] = "try"]
        /\ UNCHANGED lost
     \/ /\ "sendFails" \in faults \/ nonce[p] \in used
        /\ phase' = [phase EXCEPT ![p] = "catch"]
        /\ \/ used' = used /\ lost' = lost \cup ({nonce[p]} \ used)
           \/ used' = used \cup {nonce[p]} /\ UNCHANGED lost
  /\ UNCHANGED <<faults, lock, cache, kind, nonce, started>>

WaitReceipt(p) ==
  /\ \/ Goto(p, "wait", "idle") /\ UNCHANGED phase
     \/ /\ "receiptTimeout" \in faults
        /\ Goto(p, "wait", "setCache")
        /\ phase' = [phase EXCEPT ![p] = "late"]
  /\ UNCHANGED <<faults, lock, cache, kind, nonce, used, lost, started>>

-----------------------------------------------------------------------------
(* release()                                                               *)

\* Mutant: the nonce itself is cached again.
SetCacheSame(p) ==
  /\ Goto(p, "setCache", "checkLock")
  /\ cache' = nonce[p]
  /\ UNCHANGED <<faults, lock, kind, phase, nonce, used, lost, started>>

SetCache(p) ==
  /\ Goto(p, "setCache", "checkLock")
  /\ cache' = nonce[p] + 1
  /\ UNCHANGED <<faults, lock, kind, phase, nonce, used, lost, started>>

AfterRelease(p) ==
  IF kind[p] = "approve" /\ phase[p] = "try" THEN "wait" ELSE "idle"

\* Mutant: the lock is released whoever owns it.
CheckLockAnyOwner(p) ==
  /\ Goto(p, "checkLock", "delLock")
  /\ UNCHANGED <<faults, lock, cache, kind, phase, nonce, used, lost, started>>

CheckLock(p) ==
  /\ Goto(p, "checkLock", IF lock = p THEN "delLock" ELSE AfterRelease(p))
  /\ UNCHANGED <<faults, lock, cache, kind, phase, nonce, used, lost, started>>

\* DEL removes whatever the key holds by now.
DelLock(p) ==
  /\ Goto(p, "delLock", AfterRelease(p))
  /\ lock' = NoCaller
  /\ UNCHANGED <<faults, cache, kind, phase, nonce, used, lost, started>>

-----------------------------------------------------------------------------
(* The environment                                                         *)

\* A Redis error: acquireNonce throws; a first release() is followed by the
\* one in the caller's catch block, whose own error is swallowed.
RedisThrows(p) ==
  /\ "redis" \in faults
  /\ \/ /\ \/ Goto(p, "spin", "idle") /\ lock' \in {lock, IF lock = NoCaller THEN p ELSE lock}
           \/ Goto(p, "locked", "idle") /\ UNCHANGED lock
        /\ UNCHANGED <<cache, phase>>
     \/ LET next == IF phase[p] = "try" THEN "setCache" ELSE "idle"
        IN /\ \/ Goto(p, "setCache", next) /\ cache' \in {cache, nonce[p] + 1} /\ UNCHANGED lock
              \/ Goto(p, "checkLock", next) /\ UNCHANGED <<cache, lock>>
              \/ Goto(p, "delLock", next) /\ lock' \in {lock, NoCaller} /\ UNCHANGED cache
           /\ phase' = [phase EXCEPT ![p] = IF @ = "try" THEN "catch" ELSE @]
  /\ UNCHANGED <<faults, kind, nonce, used, lost, started>>

Crash(p) ==
  /\ "crash" \in faults
  /\ pc[p] # "idle"
  /\ pc' = [pc EXCEPT ![p] = "idle"]
  /\ UNCHANGED <<faults, lock, cache, kind, phase, nonce, used, lost, started>>

\* p is between taking the lock and the end of release().
Working(p) == pc[p] \notin {"idle", "spin", "wait"}

\* Mutant: SET NX without PX.
LockNeverExpires == FALSE /\ UNCHANGED vars

LockExpires ==
  /\ lock # NoCaller
  /\ "overrun" \in faults \/ ~Working(lock)
  /\ lock' = NoCaller
  /\ UNCHANGED <<faults, cache, pc, kind, phase, nonce, used, lost, started>>

CacheExpires ==
  /\ "cacheExpires" \in faults
  /\ cache # NoNonce
  /\ cache' = NoNonce
  /\ UNCHANGED <<faults, lock, pc, kind, phase, nonce, used, lost, started>>

-----------------------------------------------------------------------------
Step(p) ==
  \/ TryLock(p)
  \/ SpinTimeout(p)
  \/ ReadCache(p)
  \/ CountTransactions(p)
  \/ Send(p)
  \/ WaitReceipt(p)
  \/ SetCache(p)
  \/ CheckLock(p)
  \/ DelLock(p)

Next ==
  \/ \E p \in Caller : Begin(p) \/ Step(p) \/ RedisThrows(p) \/ Crash(p)
  \/ LockExpires
  \/ CacheExpires

Spec == Init /\ [][Next]_vars

\* A caller that runs takes its next step, and Redis drops an expired key.
Fairness ==
  /\ \A p \in Caller : WF_vars(Step(p))
  /\ WF_vars(LockExpires)

FairSpec == Spec /\ Fairness

-----------------------------------------------------------------------------
(* Properties                                                              *)

\* Every variable has its type: the keys hold a caller and a nonce or do not
\* exist (state of nonce-manager.ts).
TypeOK ==
  /\ faults \in Settings
  /\ lock \in Caller \cup {NoCaller}
  /\ cache \in Nat \cup {NoNonce}
  /\ pc \in [Caller -> PC]
  /\ kind \in [Caller -> {"swap", "approve"}]
  /\ phase \in [Caller -> {"try", "catch", "late"}]
  /\ nonce \in [Caller -> Nat]
  /\ used \in SUBSET Nat
  /\ lost \in SUBSET Nat
  /\ started \in 0 .. MaxStarts

\* p has taken the lock and has not yet written the successor of its nonce.
Critical(p) ==
  \/ pc[p] \in {"locked", "rpc", "held"}
  \/ pc[p] = "setCache" /\ phase[p] = "try"

\* Two callers are never both between the lock and the first cache write of
\* their release, unless a holder overruns the lock's time to live: what SET NX
\* and the ownership test of release() are for.
MutualExclusion ==
  "overrun" \notin faults =>
    \A p, q \in Caller : Critical(p) /\ Critical(q) => p = q

\* Every submission succeeds; a read of the chain may fail, and the counter may
\* expire.
OnlyFailedReads == faults \subseteq {"rpcFails", "cacheExpires"}

\* A submission may fail as well, with or without a broadcast, while the counter
\* lives.  (With both, the chain's pending count fills a gap and the counter then
\* runs into the nonces sent above it.)
OnlyFailedCalls == faults \subseteq {"rpcFails", "sendFails"}

\* While submissions succeed, a nonce handed out is the one the chain expects
\* next, from the counter or read anew.  Once they fail too, it still belongs to
\* no accepted transaction, but it may lie above a gap: the release in the
\* callers' catch blocks advances the counter past a nonce that was never sent,
\* whatever the comment in release() says (CounterFollowsSubmissions).
NonceFresh ==
  \A p \in Caller :
    pc[p] = "held" => /\ OnlyFailedReads => IsPendingCount(nonce[p])
                      /\ OnlyFailedCalls => nonce[p] \notin used

\* "Increment nonce in cache after successful submission" (release): the counter
\* only ever stands right above a nonce that was submitted.
CounterFollowsSubmissions == cache # NoNonce => cache - 1 \in used

\* "Ensures sequential nonces even when multiple execution jobs run
\* concurrently": a nonce handed out is the one the chain expects next.
SequentialNonces ==
  \A p \in Caller : pc[p] = "held" => IsPendingCount(nonce[p])

\* A lock key never stays for good, whoever left it behind: a crash, a throw
\* after SET NX or a failed release is made up for by the time to live.
LockFreed == []<>(lock = NoCaller)
=============================================================================
