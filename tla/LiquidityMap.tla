---------------------------- MODULE LiquidityMap ----------------------------
(***************************************************************************)
(* The cached liquidity map of one pool and the scans that keep it:        *)
(*   apps/worker/src/jobs/liquidity-scan.job.ts   processLiquidityScanJob  *)
(*   packages/opportunity-engine/src/liquidity-scanner.ts                  *)
(*                                                buildLiquidityMap        *)
(* The chain grows while a scan reads it.  One block of the model stands   *)
(* for one getLogs chunk; what happens to a position in a chunk is its net *)
(* change.  Reserves, ticks and event counts are derived data and left     *)
(* out: the map is its positions.                                          *)
(***************************************************************************)
EXTENDS Integers, FiniteSetsExt

CONSTANTS
  Position,      \* the pool's positions (V3) or LP holders (V2)
  MaxBlock,      \* the chain grows up to this block
  MaxLiquidity,  \* what one position holds at most
  MaxScans,      \* scans of the pool in a behaviour
  QuickRange,    \* REFRESH_BLOCK_RANGE
  FullRange,     \* DEFAULT_FULL_SCAN_RANGE
  Settings       \* the settings a behaviour may run in

\* How a pool is read: by a known NFT manager, by its own Mint and Burn
\* events, or, for V2, by Transfer events.
Kinds == {"nft", "direct", "v2"}

Faults ==
  { "chunk",     \* one getLogs call of a scan fails
    "position",  \* positions(tokenId) cannot be read
    "meta",      \* token0, token1 and fee of the pool cannot be read
    "crash" }    \* the scan throws or its process dies before the upsert

ASSUME ScanAssumption ==
  /\ MaxBlock \in Nat \ {0}
  /\ {MaxLiquidity, MaxScans, QuickRange, FullRange} \subseteq Nat
  /\ Settings \subseteq [kind : Kinds, faults : SUBSET Faults]

Block == 1 .. MaxBlock
Liquidity == 0 .. MaxLiquidity
Side == {"in", "out"}       \* Increase and Decrease, Mint and Burn

VARIABLES
  setting,  \* the pool's kind and what may go wrong
  head,     \* the chain's latest block
  held,     \* what each position holds after each block
  row,      \* the pool's row of liquidity_maps
  job,      \* the scan that runs
  scans,    \* scans started
  reads     \* how often a block's events of a position entered the row

vars == <<setting, head, held, row, job, scans, reads>>
chainVars == <<head, held>>

Nothing == [p \in Position |-> 0]
Idle == [pc |-> "idle", from |-> 0, to |-> 0, seen |-> {}, pending |-> {},
         gone |-> {}, got |-> Nothing, lost |-> {}]

Init ==
  /\ setting \in Settings
  /\ head = 1
  /\ held \in [0 .. MaxBlock -> {Nothing}]
  /\ row = [built |-> FALSE, from |-> 0, to |-> 0, tokens |-> Nothing, keys |-> Nothing]
  /\ job = Idle
  /\ scans = 0
  /\ reads = [p \in Position |-> [b \in Block |-> 0]]

-----------------------------------------------------------------------------
(* The chain: a block in which positions grow and shrink.                  *)

Mine(next) ==
  /\ head < MaxBlock
  /\ head' = head + 1
  /\ held' = [held EXCEPT ![head + 1] = next]
  /\ UNCHANGED <<setting, row, job, scans, reads>>

Positive(n) == IF n > 0 THEN n ELSE 0
Delta(p, b) == held[b][p] - held[b - 1][p]
Amount(p, b, side) == Positive(IF side = "in" THEN Delta(p, b) ELSE - Delta(p, b))

-----------------------------------------------------------------------------
(* The scan.  The job reads the row, takes the block number and derives    *)
(* the window: a full scan starts FullRange blocks back and, like the      *)
(* quick one, hands the existing map on.                                   *)

\* Mutant: a quick window after a pause starts a block late.
FromBlockLate(mode) ==
  IF mode = "quick" /\ row.to > 0
    THEN IF head - QuickRange > row.to THEN row.to + 2 ELSE head - QuickRange
    ELSE Positive(head - FullRange)

FromBlock(mode) ==
  IF mode = "quick" /\ row.to > 0
    THEN IF head - QuickRange > row.to THEN row.to + 1 ELSE head - QuickRange
    ELSE Positive(head - FullRange)

Start(requested) ==
  /\ job.pc = "idle"
  /\ scans < MaxScans
  /\ scans' = scans + 1
  /\ job' = [Idle EXCEPT
       !.pc = IF setting.kind = "nft" THEN "meta" ELSE "direct",
       !.from = FromBlock(IF row.built THEN requested ELSE "full"),
       !.to = head]
  /\ UNCHANGED <<setting, chainVars, row, reads>>

Window == Block \cap (job.from .. job.to)

\* The chunks that getLogs may fail to return: at most one of a scan.
Losses ==
  {{}} \cup IF "chunk" \in setting.faults THEN {{l} : l \in Window \X Side} ELSE {}

Logs(side, lost) == {b \in Window : <<b, side>> \notin lost}
Read(lost) == Logs("in", lost) \cap Logs("out", lost)

\* Mutant: only increases make a token worth fetching.
SeenIncreases(lost) ==
  {p \in Position : \E b \in Logs("in", lost) : Amount(p, b, "in") > 0}

Seen(lost) ==
  {p \in Position : \E side \in Side : \E b \in Logs(side, lost) : Amount(p, b, side) > 0}

Again(n) == IF n = 0 THEN 1 ELSE 2

\* What the upsert writes.
Save(tokens, keys) ==
  /\ row' = [built |-> TRUE, from |-> IF row.built THEN row.from ELSE job.from,
             to |-> job.to, tokens |-> tokens, keys |-> keys]
  /\ job' = Idle
  /\ UNCHANGED <<setting, chainVars, scans>>

-----------------------------------------------------------------------------
(* With an NFT manager: the tokens with events in the window are fetched   *)
(* at the then latest block, the others are kept from the existing map.    *)

Collect(lost) ==
  /\ job.pc = "meta"
  /\ job' = [job EXCEPT !.pc = "fetch", !.seen = Seen(lost),
                        !.pending = Seen(lost), !.lost = lost]
  /\ UNCHANGED <<setting, chainVars, row, scans, reads>>

Fetch(p) ==
  /\ job.pc = "fetch"
  /\ p \in job.pending
  /\ job' = [job EXCEPT !.pending = @ \ {p}, !.got[p] = held[head][p]]
  /\ UNCHANGED <<setting, chainVars, row, scans, reads>>

\* The token is taken for a burned one: it leaves the map.
FetchFails(p) ==
  /\ "position" \in setting.faults
  /\ job.pc = "fetch"
  /\ p \in job.pending
  /\ job' = [job EXCEPT !.pending = @ \ {p}, !.gone = @ \cup {p}]
  /\ UNCHANGED <<setting, chainVars, row, scans, reads>>

\* BigInt(id) of an existing entry throws when the id is a direct key.
HasDirectKeys == \E p \in Position : row.keys[p] > 0

SaveTokens ==
  /\ job.pc = "fetch"
  /\ job.pending = {}
  /\ ~HasDirectKeys
  /\ Save([p \in Position |-> IF p \in job.seen THEN job.got[p] ELSE row.tokens[p]],
          row.keys)
  /\ reads' = [p \in Position |-> [b \in Block |->
       IF p \in job.gone THEN 0
       ELSE IF b \in Read(job.lost) THEN Again(reads[p][b]) ELSE reads[p][b]]]

\* Any throw of the NFT scan falls back to the pool's own events.
FallBack ==
  /\ \/ job.pc = "meta" /\ "meta" \in setting.faults
     \/ job.pc = "fetch" /\ job.pending = {} /\ HasDirectKeys
  /\ job' = [job EXCEPT !.pc = "direct"]
  /\ UNCHANGED <<setting, chainVars, row, scans, reads>>

-----------------------------------------------------------------------------
(* From the pool's own events: their amounts are added to and subtracted   *)
(* from the existing entries, and an entry that falls to zero is dropped.  *)

Total(p, side, lost) ==
  MapThenSumSet(LAMBDA b : Amount(p, b, side), Logs(side, lost))

\* Mutant: the existing entries are not taken over.
AfterMintsAndBurnsAnew(p, lost) ==
  Positive(Total(p, "in", lost) - Total(p, "out", lost))

\* V3: all mints, then all burns.
AfterMintsAndBurns(p, lost) ==
  Positive(row.keys[p] + Total(p, "in", lost) - Total(p, "out", lost))

\* V2: the transfers in their order; there is one kind of log to lose.
AfterTransfers(p, lost) ==
  LET after[b \in 0 .. MaxBlock] ==
        IF b = 0 THEN row.keys[p]
        ELSE IF b \in Logs("in", lost) THEN Positive(after[b - 1] + Delta(p, b))
        ELSE after[b - 1]
  IN  after[job.to]

SaveKeys(lost) ==
  /\ job.pc = "direct"
  /\ Save(row.tokens,
          [p \in Position |-> IF setting.kind = "v2" THEN AfterTransfers(p, lost)
                                                     ELSE AfterMintsAndBurns(p, lost)])
  /\ reads' = [p \in Position |-> [b \in Block |->
       IF b \in Read(lost) THEN Again(reads[p][b]) ELSE reads[p][b]]]

Abandon ==
  /\ "crash" \in setting.faults
  /\ job.pc # "idle"
  /\ job' = Idle
  /\ UNCHANGED <<setting, chainVars, row, scans, reads>>

Next ==
  \/ \E next \in [Position -> Liquidity] : Mine(next)
  \/ \E mode \in {"full", "quick"} : Start(mode)
  \/ \E lost \in Losses : Collect(lost) \/ SaveKeys(lost)
  \/ \E p \in Position : Fetch(p) \/ FetchFails(p)
  \/ SaveTokens \/ FallBack \/ Abandon

Spec == Init /\ [][Next]_vars

-----------------------------------------------------------------------------
TypeOK ==
  /\ setting \in Settings
  /\ head \in 0 .. MaxBlock
  /\ held \in [0 .. MaxBlock -> [Position -> Liquidity]]
  /\ row \in [built : BOOLEAN, from : 0 .. MaxBlock, to : 0 .. MaxBlock,
              tokens : [Position -> Liquidity], keys : [Position -> Nat]]
  /\ job \in [pc : {"idle", "meta", "fetch", "direct"}, from : Int, to : 0 .. MaxBlock,
              seen : SUBSET Position, pending : SUBSET Position, gone : SUBSET Position,
              got : [Position -> Liquidity], lost : SUBSET (Block \X Side)]
  /\ scans \in 0 .. MaxScans
  /\ reads \in [Position -> [Block -> 0 .. 2]]

Changed(p, b) == b \in Block /\ Delta(p, b) # 0

\* The position's last change that the row should account for was missed:
\* in a failed chunk, before the first scan, between two windows, or by a
\* failed fetch and not read again since.
Missed(p) ==
  \E c \in 1 .. row.to :
    /\ Changed(p, c)
    /\ \A b \in c .. row.to : Changed(p, b) => reads[p][b] = 0

\* With a known NFT manager the map is idempotent: however the windows of
\* the scans overlap, whatever failed before and whatever the chain does
\* between the logs and the fetches, a position whose last change up to the
\* row's scanToBlock was read has a liquidity it had at that block or later
\* (scanV3ViaNFTManager refetches what it sees and keeps the rest).
NftExact ==
  (setting.kind = "nft" /\ "meta" \notin setting.faults) =>
    \A p \in Position :
      Missed(p) \/ \E b \in row.to .. head : row.tokens[p] = held[b][p]

\* The event sums of scanV3PoolDirect and scanV2Pool are right for a
\* position that was made in the scanned blocks as long as each of them
\* was scanned exactly once, over any number of scans.
DirectExact ==
  (setting.kind # "nft" /\ "chunk" \notin setting.faults) =>
    \A p \in Position :
      (/\ row.from > 0 => held[row.from - 1][p] = 0
       /\ \A b \in Block \cap (row.from .. row.to) : reads[p][b] = 1)
      => row.keys[p] = held[row.to][p]

\* Either way of building a map says what the pool holds.
MapExact == NftExact /\ DirectExact

\* The windows join: whatever the order of full and quick scans and however
\* long the pauses between them, no block of the last DEFAULT_FULL_SCAN_RANGE
\* ones before scanToBlock is left out, unless getLogs failed.  (Older ones
\* are: a full scan after a longer pause starts beyond scanToBlock.)
WindowsJoin ==
  setting.faults \cap {"chunk", "position"} = {} =>
    \A p \in Position : \A b \in Block \cap (row.from .. row.to) :
      b >= row.to - FullRange => reads[p][b] > 0

\* What the header of the job says of a quick scan, "merge into cached map
\* (incremental)": with the whole history scanned and nothing failing, the
\* merged map is the pool.  It is not: the last QuickRange blocks are added to a
\* map that already holds them.
MergesOnce ==
  (row.built /\ row.from <= 1 /\ setting.kind # "nft" /\ setting.faults = {}) =>
    \A p \in Position : row.keys[p] = held[row.to][p]

=============================================================================
