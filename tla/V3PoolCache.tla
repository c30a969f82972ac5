----------------------------- MODULE V3PoolCache -----------------------------
(***************************************************************************)
(* The worker's cache of V3 pools and the watcher that evicts from it:     *)
(*   apps/worker/src/index.ts                      refreshV3PoolStates,    *)
(*                                                 startLPWatcher          *)
(*   apps/worker/src/dex-adapters/v3-pool-reader.ts                        *)
(*   apps/worker/src/watchers/lp-event-watcher.ts  watchLPEvents           *)
(* A pool is read in several calls, each at the then latest block, so an   *)
(* entry may mix blocks; it is as old as its first call.                   *)
(***************************************************************************)
EXTENDS LiquidityScheduler

CONSTANTS
  Poll,      \* polls of the watcher that may be awaited at once
  MaxBlock,  \* the chain grows up to this block
  BackStep   \* blocks before the current one at which a watcher starts

ASSUME CacheAssumption == {MaxBlock, BackStep} \subseteq Nat /\ MaxBlock > 0

Block == 1 .. MaxBlock
Side == {"mint", "burn"}
NoEvent == [pool |-> "none", side |-> "none"]
Event == [pool : Pool, side : Side]

VARIABLES
  head,       \* the chain's latest block
  events,     \* the Mint or Burn of a watched pool in each block
  reading,    \* the pool refreshV3PoolStates reads: what is known of it
  unread,     \* the pools it has yet to read
  cache,      \* v3PoolCache: the blocks an entry was read at, {} if absent
  watched,    \* the addresses given to watchLPEvents
  lastBlock,  \* lastBlock, 0 before the first poll
  poll,       \* what each poll awaits
  opened      \* the block after which the watcher looks

cacheVars == <<head, events, reading, unread, cache, watched, lastBlock, poll, opened>>
watchVars == <<watched, lastBlock, poll, opened>>
chainVars == <<head, events>>

\* The calls of readV3PoolFull, in their order: liquidity and tokens, slot0
\* or globalState, the bitmap words, the ticks.
Calls == <<"liquidity", "slot0", "tickBitmap", "ticks">>

NoRead == [pool |-> "none", calls |-> 0, at |-> {}]
NoPoll == [pc |-> "idle", from |-> 0, to |-> 0]

CacheInit ==
  /\ head = 1
  /\ events = [b \in Block |-> NoEvent]
  /\ reading = NoRead
  /\ unread = {}
  /\ cache = [p \in Pool |-> {}]
  /\ watched = {}
  /\ lastBlock = 0
  /\ poll = [q \in Poll |-> NoPoll]
  /\ opened = 0

\* What a crash takes: everything but the chain.
Forget ==
  /\ reading' = NoRead
  /\ unread' = {}
  /\ cache' = [p \in Pool |-> {}]
  /\ watched' = {}
  /\ lastBlock' = 0
  /\ poll' = [q \in Poll |-> NoPoll]
  /\ opened' = 0
  /\ UNCHANGED chainVars

Mine(e) ==
  /\ "blocks" \in faults
  /\ head < MaxBlock
  /\ head' = head + 1
  /\ events' = [events EXCEPT ![head + 1] = e]
  /\ UNCHANGED <<reading, unread, cache, watchVars>>

-----------------------------------------------------------------------------
(* refreshV3PoolStates reads pool by pool; a read that fails leaves the    *)
(* pool out.  It goes on when main() has stopped waiting for it.           *)

\* Without blocks no pool is a V3 pool.
BeginReads ==
  /\ unread' = IF "blocks" \in faults THEN Pool ELSE {}
  /\ UNCHANGED <<chainVars, reading, cache, watchVars>>

BeginPool(p) ==
  /\ reading = NoRead
  /\ p \in unread
  /\ unread' = unread \ {p}
  /\ reading' = [pool |-> p, calls |-> 0, at |-> {}]
  /\ UNCHANGED <<chainVars, cache, watchVars>>

\* readV3PoolState, readTickBitmap and readInitializedTicks.
ReadCall ==
  /\ reading # NoRead
  /\ reading.calls < Len(Calls)
  /\ reading' = [reading EXCEPT !.calls = @ + 1, !.at = @ \cup {head}]
  /\ UNCHANGED <<chainVars, unread, cache, watchVars>>

StorePool ==
  /\ reading # NoRead
  /\ reading.calls = Len(Calls)
  /\ cache' = [cache EXCEPT ![reading.pool] = reading.at]
  /\ reading' = NoRead
  /\ UNCHANGED <<chainVars, unread, watchVars>>

ReadFails ==
  /\ "read" \in faults
  /\ reading # NoRead
  /\ reading' = NoRead
  /\ UNCHANGED <<chainVars, unread, cache, watchVars>>

ReadsDone == unread = {} /\ reading = NoRead

-----------------------------------------------------------------------------
(* The watcher: polls overlap when one takes longer than the interval, and *)
(* each keeps the window it computed.                                      *)

Cached == {p \in Pool : cache[p] # {}}

\* startLPWatcher; without a cached pool there is nothing to watch.
StartWatcher ==
  /\ watched' = Cached
  /\ UNCHANGED <<chainVars, reading, unread, cache, lastBlock, poll, opened>>

\* A poll up to its getLogs calls: getBlockNumber, the first window, the
\* return when there is no new block.
PollBlock(q) ==
  /\ watched # {}
  /\ poll[q].pc = "idle"
  /\ LET last == IF lastBlock = 0 THEN head - BackStep ELSE lastBlock
     IN  /\ lastBlock' = last
         /\ opened' = IF lastBlock = 0 THEN last ELSE opened
         /\ poll' = IF head > last
                      THEN [poll EXCEPT ![q] = [pc |-> "logs", from |-> last + 1, to |-> head]]
                      ELSE poll
  /\ UNCHANGED <<chainVars, reading, unread, cache, watched>>

\* Mutant: the window ends at the block that is current when the logs arrive.
PollLogsToHead(q, lost) ==
  /\ poll[q].pc = "logs"
  /\ cache' = [p \in Pool |->
       IF p \in watched /\ \E b \in Block \cap (poll[q].from .. poll[q].to) :
                             events[b].pool = p /\ events[b].side \notin lost
         THEN {} ELSE cache[p]]
  /\ lastBlock' = head
  /\ poll' = [poll EXCEPT ![q] = NoPoll]
  /\ UNCHANGED <<chainVars, reading, unread, watched, opened>>

\* The logs arrive: every event evicts its pool.  A call that failed counts
\* as one without logs, and the window is done all the same.
PollLogs(q, lost) ==
  /\ poll[q].pc = "logs"
  /\ cache' = [p \in Pool |->
       IF p \in watched /\ \E b \in Block \cap (poll[q].from .. poll[q].to) :
                             events[b].pool = p /\ events[b].side \notin lost
         THEN {} ELSE cache[p]]
  /\ lastBlock' = poll[q].to
  /\ poll' = [poll EXCEPT ![q] = NoPoll]
  /\ UNCHANGED <<chainVars, reading, unread, watched, opened>>

LostLogs == IF "logs" \in faults THEN SUBSET Side ELSE {{}}

CacheNext ==
  \/ \E e \in Event \cup {NoEvent} : Mine(e)
  \/ \E p \in Pool : BeginPool(p)
  \/ ReadCall \/ StorePool \/ ReadFails
  \/ \E q \in Poll : PollBlock(q) \/ \E lost \in LostLogs : PollLogs(q, lost)

-----------------------------------------------------------------------------
(* Properties.                                                             *)

\* An event of the pool that its entry does not account for: it happened
\* after the first of the calls the entry was read with.
Overtaken(p, b) == events[b].pool = p /\ \E a \in cache[p] : a < b

\* An entry of a watched pool is overtaken only by events that the watcher
\* is still to deliver: those after lastBlock, or in the window of a poll
\* that waits for its logs, however polls overlap and set lastBlock back.
\* (Excepted are events before the watcher's first window, and lost logs.)
StaleBriefly ==
  "logs" \notin faults =>
    \A p \in watched : \A b \in 1 .. head :
      (Overtaken(p, b) /\ lastBlock # 0 /\ b > opened) =>
        \/ b > lastBlock
        \/ \E q \in Poll : poll[q].pc = "logs" /\ b \in poll[q].from .. poll[q].to

=============================================================================
