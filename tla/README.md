# ArbitEx: specifications, model checking and proofs

TLA+ models of the parts of ArbitEx that decide whether money moves: how a
wallet's nonces are handed out, how an approved opportunity is executed, by two
legs or by a flash loan, what stops trading, how candidates are found, sized and
become executions, how the liquidity maps that price a swap are kept, when
holdings are converted, and what operators see and do at the console. Each module
is translated from the code under `src/`; `PROJECT.json` names, for every
definition, the lines it stands for.

## 1. The system

`apps/worker` is one Node process (more may run) with BullMQ workers over Redis
and a Postgres database behind prisma. `apps/api` (NestJS) gives operators the
same Redis keys and tables; `apps/web` is a dashboard over the API. The rest are
packages that both import, and one contract.

```
 pool-refresh ──add──> opportunity-score ──add──> execution ──> chain
   (scan, regime)        (evaluate: RiskEngine)     (NonceManager, two legs or FlashArb)
 liquidity-scan <── scheduler (kill switch, 60 min)      │
 cleanup timer ──> opportunities                   recordFailedTx ──> kill switch
 dashboard ──> API ────────────── kill switches, limits ─────────────────┘
```

| Component | State | Operations | What is hard | What makes it correct |
|---|---|---|---|---|
| NonceManager (`packages/chain/src/nonce-manager.ts`) | two Redis keys for each wallet: lock with 30 s TTL, next nonce with 1 h TTL | `acquireNonce`, the `release` it returns | lock expiry under a slow holder, `release` called twice, test and delete of the lock not atomic, throws after `SET NX` | one holder at a time; a nonce handed out is the one the chain expects; a lock never stays |
| ExecutionEngine (`packages/execution-engine/src/index.ts`, `execution.job.ts`) | rows `executions` and `transactions`, deduplication key with 10 s TTL, the transactions on the chain | `processExecutionJob`, `execute` (simulate, buy, wait, sell, wait, settle), `markFailed` | throws at any await, stalls and retries of the job, crash between broadcast and write, lost receipts | each leg at most once; sell only what was bought; LANDED and the failure codes are true; a verdict is final; rows and jobs end |
| DEX adapters and one trade's route (`packages/dex-adapters/src/`, `RouteSimulator`) | cached pool addresses and token data, approvals, the wallet | `getPools`, `getQuote`, `buildSwapCalldata` of four kinds of venue; quotes, approvals and swaps of one trade | a pool is looked up anew for listing, quote and swap; failed calls are answered by defaults | the pool that was quoted is the one swapped in; a loss stays within the minimum amounts |
| FlashArb contract and executor (`contracts/src/FlashArb.sol`, `flash-arb-executor.ts`) | balances and allowances, the job's row | loan, two swaps, repayment; `executeFlashArb`, `withdraw` | reverts halfway, balances kept from before, receipts that come too late | repays or reverts; the row tells what the chain did |
| RiskEngine (`packages/risk-engine/src/index.ts`) | failure counter with TTL for each chain, kill switches, configuration | `evaluate`, `recordFailedTx`, `activateKillSwitch`, `deactivateKillSwitch`, `updateConfig` | several processes between INCR, EXPIRE and the test; TTL as a window; operators in between | a chain at its limit is rejected; reaching it sets the global switch; counters decay |
| Opportunity pipeline (worker `index.ts`, `opportunity.job.ts`) | rows `opportunities`, score and execution queues | detect, `processOpportunityJob`, cleanup timer | five jobs at once, read-then-create without an index, cleanup against a slow job, crash between two writes | queued once; no approval under a kill switch; expired stays expired; detected rows resolve |
| Liquidity map (`liquidity-scan.job.ts`, `liquidity-scanner.ts`) | one row of `liquidity_maps` for each pool | full and quick scans over three paths | chain moves during a scan, failed chunks, windows that overlap or do not meet, change of path | positions are what the chain says |
| Liquidity scheduler (worker `index.ts` 542-608) | last seen kill state, `refreshedAt`, the scan queue | 30 s tick | transition lost on a failed add, scans pile up | an activation leads to a full scan; no row grows old for good |
| V3 pool reader and LP event watcher (`v3-pool-reader.ts`, `watchers/lp-event-watcher.ts`) | `v3PoolCache`, `lastBlock` | first reads, poll each 4 s | reads that mix blocks or outlive their half minute, overlapping polls, swallowed errors | an overtaken entry is evicted by the next poll that works |
| RegimeClassifier (`risk-engine/src/regime-classifier.ts`) | snapshot kept for 30 s, tracked tokens | `classify`, called by two jobs | order of the tests against severity; two jobs compute at once and the last one wins | the regime has the highest priority of those that apply; failing systems do not convert |
| DexScreener feed (`dex-adapters/src/dexscreener-feed.ts`) | answers cached for each token, a chain of promises for each token | `getTokenPairs`, `refreshAll`, retries | refreshes, reads and failures of several callers of one token; cached answers against forced refreshes | one request of a token at a time; who refreshed sees what is listed |
| Opportunity engine, scan (`opportunity-engine/src/index.ts`) | pools as last read, DexScreener pairs ever seen | `scanForOpportunities`: refresh of both, `killDeadPools`, pairing, scoring, quotes | pools are stored before DexScreener has answered; scans overlap after a timeout; prices are old when quotes are asked | dead pools are not paired; a quoted candidate gains; sizes fit the pools |
| V3 simulation and sizing (`v3-math.ts`, `v3-simulator.ts`, `optimal-sizer.ts`, `lp-band-builder.ts`) | - | tick walk, size search, LP bands | fixed-point arithmetic, gaps of liquidity, steps that end on a tick | a simulated trade is never better than the pool pays; sizes are what they say |
| Conversion and accumulation engines (`conversion-engine/src/`, `accumulation-engine/src/`) | cached market answers, time of the last conversion, the inventory row | `fetchMarketSignals`, `evaluate`, `getState`, `buildExplanation` | requests that fail for hours, defaults that stand for data, a direction that comes from scores alone, an explanation worked out a second time | nothing is converted without data, against a failing system, or out of a rising market; the page tells why |
| Prices (`market.module.ts`, `fair-value.module.ts`, `fetchNativeTokenPriceUsd`) | several caches with ages | `tokenPrices`, `getEstimate`, the worker's price of AVAX | requests raced with timers, late answers, batches stamped as a whole | no price is older than its caches allow, where they set a limit |
| Pool and liquidity desks (`pools.module.ts`, `lp.module.ts`, `pools/create`, `lp/v2` pages, wallet) | forms, tables of tokens and pools, the pair's reserves | discover, register; add and remove liquidity | answers that come to an edited form; reserves that move before a removal | a row names the factory's pool; a removal pays its share less the tolerance |
| Operator console (`trading`, `risk`, `settings`, `tokens` pages and their API) | switches, parameters, flags, wallet key, what pages and the worker last read | dialogs, form saves, polls, loads | several operators act on what they saw; stored values that no longer parse | releases are meant; what was saved takes effect |
| Login limiter (`api/auth/login/route.ts`) | attempts of each caller | login, sweep | the sweep deletes what is counted | no more than five attempts in a window |
| Other API, other pages, configuration, schema | - | reads, rendering, ABI encoding | - | - |

Interactions: jobs go from queue to queue as above; Redis keys (nonce, lock,
deduplication, failure counter, kill switches, the price of AVAX) are shared by
every process; rows are shared by the pipeline, the execution engine, the cleanup
timer and the API; a failed execution reports to `recordFailedTx`, whose kill
switch the next `evaluate` and the scheduler read; the console writes switches and
parameters that the worker polls or loads at its start.

## 2. Modules

Every component's module holds its state, one action for each handler step, its
fairness, its properties and, each beside the definition it alters, the mutants
that its properties must notice. `MC*` modules give constants their values and
`*Proofs` modules hold the theorems. A step is what happens between two awaits:
an awaited Redis command, database write, RPC call or transaction is one action,
and whatever may come in between does.

Several modules carry a frozen variable (`setting`, `faults`, `lending`, `route`),
chosen in `Init` from a constant (`Settings` and its like): what may go wrong or be
done by operators in this behaviour. It lets one run look at many environments, and
properties say in which environments they hold. The theorems are for every value
of that constant.

Components that share no state are checked side by side: `MCTrade` (NonceManager,
V3Sizing, FlashArb, TradeRoute), `MCWorkerProcess` (RiskEngine, WorkerProcess),
`MCOpportunities` (OpportunityScan, OpportunityPipeline) and
`MCConsole` (the conversion job, PriceService, PoolDesk, LiquidityDesk,
OperatorConsole, LoginLimiter) extend their modules and add a variable `part`,
chosen once, which says whose behaviour this is: that part takes its steps, the
others rest in one initial state (`PartsInit`, `PartsNext`, `PartsSpec`). Nothing is
claimed of their interplay, which the code does not have. The theorems are about
each module's own specification.

### Execution

**NonceManager.** `lock` and `cache` are the Redis keys; `pc`, `kind`, `phase`
and `nonce` are each caller's. `TryLock`, `SpinTimeout`, `ReadCache` and
`CountTransactions` are `acquireNonce`; `SetCache`, `CheckLock` and `DelLock`
are `release`, which runs in the try block, in the catch block, or late: the
catch of an approval whose receipt wait threw calls it again. `Send` belongs to
the callers in the execution engine. The environment expires keys, throws at
Redis commands (executed or not), and crashes callers. `lost` remembers the
nonces whose submission failed. `syncNonce` and `resetNonce` have no callers.
`NonceFresh` has two halves. While submissions succeed, a nonce handed out is the one
the chain expects. Once they fail too, it is only sure not to be a used one: the
releases in the catch blocks advance the counter past a nonce that was never sent.
The comment in `release` says otherwise, and `CounterFollowsSubmissions` is that
comment, which `nonce_gap` refutes.

**ExecutionEngine.** `Take`, `Stall` and the retries are BullMQ's: a job whose
lock is lost is given out again, also when its worker still lives. `at[w]` walks
through `processExecutionJob` and `execute`; each `updateState` and each chain
call is an action, and `Throws` fails any of them and goes where the enclosing
catch block is (`CaughtAt`). Amounts are left out: simulation and profit gate
are choices. `tx` is what the chain knows, `row` and `code` what the database
says, `sends` counts broadcasts. `TradeInOrder` is its promise about broadcasts
(no leg twice, sell after buy, LANDED is true), `VerdictFinal` that nothing is sent
or rewritten after a verdict, `ExecutionsSettle` that rows and jobs end.

**TwoLegTrade** is what an execution promises its wallet: buy once, sell what
was bought, once, decide once, and `LANDED` only for a closed position.
`ExecutionEngine` implements it under the mapping at its end (`ImplementsTrade`):
`stage` is read off `tx`, `verdict` off `row`. Settings with mock execution or
failing database writes map to no trade at all, since a failing write may turn a
landed trade into a FAILED row (hazard at `index.ts:552`).

**DexAdapters** and **TradeRoute** look at one trade with its amounts. The first
has, for each kind of venue, what `getPools` lists and keeps, which pool a quote
and a swap go through and what it says, with failing calls answered as the code
does (`"???"` and 18 decimals, a cached address, no pool). The second is the trade:
`Refresh`, `Quote`, then the job (`Build` and `Ensure` for each leg, `SimulateLegs`,
`Buy`, `Sell`, `Book`), each with the balances, approvals and minimum amounts of that
moment, while a pool may be deployed (`NewPool`) and prices drift. A quote of one unit gives a minimum of
zero (`index.ts:297`), which `LossBounded` excepts. `TradeAsScored` is `RouteHolds` (the
pool quoted is the pool swapped in) and `LossBounded`. As in the code, live trades
presuppose a wallet that holds and has approved token y already: the simulation
estimates the sell before the buy was made.

**FlashArb.** The job (`stands`, `outcome`) and the contract (`call`, `chain`) run side
by side: `JobStep` takes one await of `executeFlashArb`, `ChainStep` mines, starts
or goes on with a call of `executeArb`, whose steps (loan, approvals, two swaps,
repayment) a revert undoes to `call.before`. Balances kept from earlier calls stay
in the contract until `withdraw`, and count into the profit of its event. A receipt
that does not come makes the row FAILED while the transaction may still land. A write
of FAILED that throws is tried once more by the outer catch block, as
TX_SUBMISSION_FAILED; if that throws too, the job does (`Fail`).

### What stops and what starts trading

**RiskEngine.** `counted[c]` is the set of failures in chain c's counter, whose
Redis value is its cardinality, and `ttl` its time to live. `Incr`, `Expire` and
`Check` are the three steps of `recordFailedTx`; `Tick` moves the clock, `Hour`
ticks make an hour. `RateExceeded` and `Killed` are the rules of `evaluate`.
`age` is a history variable: ticks since a failure, against which the counter is
measured.

**OpportunityPipeline.** `job` is the score queue by fingerprint (the job id
contains it), `holder` and `stalls` its locks; `at`, `cand` and `opp` are the
slots of the score worker. `Find` ... `Enqueue` are `processOpportunityJob` with
the kill-switch reads of `evaluate` as two steps and its other rules as a
choice; `GrowOld` and `Cleanup` are the timer that expires rows. `exec` is the
execution queue. `steady` is a history variable: the switches that have been set
ever since the slot's evaluation began.

**DexScreenerFeed** and **OpportunityScan.** The first holds `cache` (tokenCache),
and the chain of promises of each token as `tail` (its last call) and
`calls[<<c, t>>].after` (whom a call waits for). `Ask` is `runForToken`, `Settle` the
end of a promise, `Load`, `Retry`, `Respond` and `Throw` the request; a response
lists what was listed when the request was sent. The second extends it by the
scan: `AskRefresh` is a worker of `refreshAll` taking a token, `AskPairs` the loop
that reads the tokens again, `Answered` what the scan does with the answer,
`AdapterAnswers` one adapter's `getPools` with the store of its pools,
`FindPairs` the stretch without await from `killDeadPools` to the pairing, and
`Score`, `BuyQuote`, `SellQuote` and `QuoteFails` are `scoreCandidate` between its
awaits. The scans of one behaviour share both caches, as those of the worker do
when one outlives its timeout. All pools hold the same pair of tokens, so the
grouping by pair is left out. Prices are integers around `Unit`, money is in
cents, fractions are in basis points and quotients are rounded down, which moves
the thresholds of scoring by less than a basis point and which no property
depends on. An adapter's read of the chain and its store are one step; the quotes
ask the pools as they then are, so the prices a scan compared may be old. The V3
adapters pass over the pool they are asked about and take the first tier their factory
knows, so `Quoted` is any V3 pool of that venue.
`ListedLiquidity` is `FreshLiquidity` and `NoDeadPool`, `CandidatesSound` is
`QuotedGains` and `TradeWithinTvl`.

### Liquidity

**LiquidityMap.** The chain (`head`, `held`) grows while a scan runs. `Start`
reads the row and the block number and fixes the window; with an NFT manager
`Collect` reads the logs, `Fetch` reads one token each at the then latest block
and `SaveTokens` merges; without one, or after `FallBack`, `SaveKeys` sums the
window's mints and burns (V3) or replays its transfers (V2) over the existing
entries. One block of the model is one getLogs chunk, and `Delta` its net effect
on a position. `reads` is a history variable: how often the events of a block
have entered the row. Two positions never share a tick range and owner.
`MapExact` is `NftExact` (the first path) and `DirectExact` (the other two).

**LiquidityScheduler**, **V3PoolCache** and **WorkerProcess**, each extending the one
before, are the worker process: the 30-second timer whose ticks may overlap
(`tick`), with `lastKnown` overwritten before the job is added, the queue that
outlives crashes and the scan that refreshes one row after another; the cache of
V3 pools, each entry the set of blocks its calls were made at, and the watcher's
polls with the windows they wait for; and the order in which `main` starts them,
with the half minute that the first reads may outlive, crashes and restarts. An
entry that an event evicts is not read again, since `refreshV3PoolStates` runs at the
start only (the watcher's header says it "triggers a re-read").

**V3Math** and **V3Sizing.** The fixed-point functions, with every width scaled by
K bits for 32 and ticks of base 2; `Run` walks the ticks as `simulateV3Trade` does,
by a recursive function, `findOptimalTradeSize` searches, `buildLPBandProfile` sums
bands. Each state asks one question about one pool (`Simulate`, `Profile`, `Size`), so
that one run looks at all its pools, of up to two positions. The code inverts the
price of a positive tick twice; properties that depend on it are restricted to
pools below par. `ProfileTrue` is `BandsExact`, `EnvelopeSafe` and `TicksTrue`, the
last over `BuildTickMap`, by which the scanner turns positions into the ticks a swap
crosses. `RoundTripLoses` sells what a trade brought, at the price it left behind,
whether it was filled, broken off or out of steps.

### Conversions

**ConversionRules** and **ConversionEngine.** The first is the arithmetic, as
operators over what is known: `determineRegime` and its configurations, the
market signals, scores, states, triggers, sizing, unit test and approval. Its
units make every threshold of the code an integer. The second is the two jobs
that share a classifier: `tracked`, `snap` and `fresh` are the classifier,
`computing[j]` what a job's `classify` has read and not yet turned into a
snapshot, `btc`, `wrp` and `avax` the cached answers, `since` the cooldown. A
request that fails leaves the cached answer however old; `Restart` loses all of
it, the cooldown too. The inventory `inv` never changes: nothing in the
repository writes its units, so in a deployment whose row was not written by
hand it is zero and no conversion is ever approved; the run has a filled one. A pool
refresh abandoned at its 120-second timeout is modelled up to that point.

**ConversionExplanation** is the decision's costs and reasons and `buildExplanation`,
which works direction, triggers and scores out again with thresholds of its own.
`ExplanationAgrees` leaves out the state section, which shows state D as failed for
every approved sale, and the cost section, which gates nothing.

### The console

**PriceService.** A price is its age. `service` says who asks: the market page, the
fair-value page, the worker's scans and executions, or the balance job. `PriceTick`
ages everything; each request (`ask`) races with its timer (`Race`). An estimate asks
its sources at once, and each answers in a step of its own (`CoinGecko`,
`DexScreener`, `DbSnapshot`), in which it is judged stale or not; the last one makes the
estimate. CoinGecko's answers are one `batch` for all tokens, and what a batch leaves out
keeps its old price under a new time. The page of all tokens races each estimate
(`FairTimeout`): when the timer runs out it is given the last estimate, however old, and
the request goes on for nobody (`late`) and still fills the cache. The page of one token
has no such timer, and the body of CoinGecko's answer has none either: `Slow` is how long
it may take. `told` is the answer the last step gave.
`PricesRecent` leaves out what the code sets no limit to: the page that timed out, tokens
that a batch left out, and a price of AVAX when every source failed.

**PoolDesk.** `form` is what an operator has typed, `finds` the discoveries under
way; `job` walks through `createPool` or `registerV2Pool`, and the worker registers
what its refresh found (`autoRegisterPool`). `tokens` and `rows` are the tables,
`known` the worker's `dbPoolIdCache`. A token is a spelling of an address, `Address`
says which spellings are one.

**LiquidityDesk.** The pair by sides, queues of transactions in the order of their
nonces, the API's removal with the reserves it read (`expected` travels with the
transaction), the browser wallet's removal with minima of zero, and swaps of
others in between. `firstIsZero` says whether token A is the pair's token 0; only
then do the API's minima, computed by side and passed by letter, protect.

**OperatorConsole.** `dialog` and `request` are what each operator's confirmation was
opened for and sends, `shown` what the pages last polled, `draft` the forms as they
were opened; `stored` and `key` are the parameters and the wallet key in the database,
`acked` and `keyAcked` what an operator was told is saved; `live` and `worker` are
what the worker runs with, `signer` is the key an execution signs with. Parameters are typed
loosely by the API (`Value`) and strictly by every reader (`Fits`): a stored value
outside makes every later read throw, and the worker go on with its defaults. A
configured wallet does not disturb it: its key is stored as JSON, which parses, and the
schema drops the entry. `SavedTakesEffect` says of parameters that the worker runs with
them once it has loaded them and every stored value parses, of tokens' flags that the next read sees them, and of
the wallet key that the next execution signs with it. It claims nothing of a venue's
switch: the worker reads venues at its start, not within the 15 seconds that
`settings/page.tsx:326` promises.

**LoginLimiter.** `attempts` is the map the route keeps and the sweep shortens,
`passed` the attempts of the last window that were let through.

## 3. Runs

| Run | Question | Result |
|---|---|---|
| `nonce_safety` (`MCTrade`) | callers, failing sends, RPC and Redis, crashes, holders that outlive their lock's TTL: one holder at a time, nonces follow the chain while submissions succeed and repeat none while they fail, every lock is freed; simulated trades, sizes and bands of small V3 pools are true; two flash arbitrages under each fault repay, tell what the chain did, and end; a trade over every kind of venue trades as it was scored | holds, `LockFreed` and `FlashEnds` under fairness |
| `nonce_late_release` | nonces are sequential, as the header of `nonce-manager.ts` says | violated: a second `release` after a receipt timeout sets the counter back |
| `nonce_gap` | the counter is incremented "after successful submission", as the comment in `release` says | violated: the release in the catch blocks increments it after a failed one |
| `exec_safety` | two workers, retries, stalls, crashes, every throw: legs at most once and in order, truthful rows and codes, final verdicts, refinement of `TwoLegTrade`; recorded executions settle and jobs end | holds, the last under fairness |
| `exec_counted` | a failed transaction reaches the failure counter, as the rule list promises | violated: `execute` swallows the failure and the job reports success |
| `risk_safety` (`MCWorkerProcess`) | reports of three failures on two chains interleave with operators and limits: hot chains are rejected, the switch is set, counters decay; a worker from boot to crash: overtaken entries are evicted, an activation scans in full, rows stay fresh | holds, the last two and the decay under fairness |
| `pipeline_kill` | the kill switch halts execution at once, as the dashboard says | violated: nothing reads it after the approval |
| `map_safety` | three scans of any modes over a growing chain, with failed chunks, fetches and metadata: exact where read, windows join | holds |
| `map_merge` | a quick scan merges into the cached map | violated: overlapping blocks are summed again |
| `conv_safety` (`MCConsole`) | signals on both sides of every threshold, failing requests, stale snapshots, restarts: conversions only on data, in a working system, sales only in weakness, regimes by priority, explanations that agree; prices under late answers and shared caches; pools registered from edited forms and by the worker; removals through a moving pair; two operators at switches, parameters, flags and keys; logins against the sweep | holds |
| `scan_safety` (`MCOpportunities`) | overlapping scans and a reader share the feed while listings change, requests are retried or fail, adapters and quotes fail: one request of a token at a time, fresh data after a refresh, no dead pool paired, quoted candidates gain, sizes fit, scans end; two slots with redelivery, slow jobs, crashes and operators: a candidate is queued once, killed means not approved, expired rows stay expired, rows resolve | holds, scans and rows ending under fairness |
| `scan_price` | `price0Per1` is the price of token1 in token0, so a candidate buys where token1 is cheaper | violated: V3 adapters give the inverse |

**Bounds.** Two callers show every hand-over of the nonce lock; `MaxStarts` 4 gives
them later turns, so a late release meets a later holder. Two workers are enough for
a job that is held twice, `MaxTries` 2 is the queue's `attempts`, `MaxStalls` 1 is
BullMQ's `maxStalledCount`; two opportunities of one fingerprint exercise the
deduplication key. An hour of two ticks has failures of the same hour, of the
previous one and older; three failures and limits 1 and 2 reach, exceed and miss
the limit. One candidate suffices for its duplicates; two rows are the row and its
twin. One position suffices for a map, since positions meet only in
`HasDirectKeys`, where nothing is claimed; the chain of five chunks is longer
than both windows (`QuickRange` 1 and `FullRange` 2 before the current one), so
windows overlap, meet and leave a gap, and three scans make a first, a repeated and
a late one.

For the worker, two pools are one in work and one to come, two ticks and two polls
are two that overlap, `Interval` 2 lets rows age while a scan runs, a queue of two
holds the running scan and one behind it, two changes of the kill switch are an
activation and its end or two of the former; three blocks leave room for an event
before, in and after a window. In V3 pools, K 2 keeps the proportions of all widths,
`Pips` 10 makes fees of nothing and a tenth; two positions on a grid of four ticks
overlap, touch and nest, two more have a gap between them, with liquidities of 20
and 200 so that one is a cliff beside the other; amounts up to 300 end within the
first step, on a tick and beyond all liquidity, and a search up to 160 has work for
the ten iterations. For flash loans, a premium of one on a loan of ten, quotes that
repay it or do not, and swaps that give one more or less make calls succeed, miss a
minimum, or fail at the repayment; two candidates share the contract's balance. The
routes have every kind of venue on each side, prices that drop by nothing, by less
than the tolerance, and by more.

The conversion job has one sum of the last hour for each regime (the failing share,
spreads and liquidity below, between and above their limits), BTC and WRP answers
around the limits of triggers and no-trade conditions, a filled inventory, and a
cooldown of one tick; purchases and sales are both approved in it, purchases without
BTC data and under HIGH_VOL too. At the console two of each (operators, desks,
requests, tokens, hands, callers) are one and the other one who interferes;
`MaxSaves` 2 saves overwrite each other; limits of ages are small and keep their
order (`PriceAssumption`; a batch of age 0 is renewed, a source of age 1 not yet in doubt,
and a body may come `Slow` 1 after the race); three ticks are a login window in which attempts
come together, apart, and after it, and a third attempt exceeds `MaxAttempts` 2.

For the scan, two pools on two venues make one pair in either direction, one V2 and
one V3 (both V3 in `scan_price`); two scans overlap because the timeout of one tick is
shorter than the run's two; an entry lives one tick, so it is hit, expired and
deleted; each venue has one pool here, which the theorems do not need; four levels of
liquidity lie below the dead-pool limit, at the minimum size, and above it, and one move of the market or the listing comes at any moment. The sets
of settings combine what interferes with each other and keep apart what does not
(the feed under concurrency, the scoring under failures of its own; the worker's
scheduler without blocks, its cache without ticks). Bounds that stop counters are
constants (`MaxTime`, `MaxMoves`, `MaxStarts`, `MaxOpp`, `MaxScans`, `MaxBlock`,
`MaxLiquidity`, `MaxQueue`, `MaxToggles`, `MaxCrashes`, `MaxFinds`, `MaxSaves`, `Swaps`,
`Login`), and the theorems hold for all their values.

Deadlock checking is off where a behaviour ends: all calls made, all jobs done,
the chain at `MaxBlock`, the question answered.

**Fairness.** A process that lives takes its next step (an awaited call returns
or throws: viem, prisma and ioredis have timeouts), Redis drops expired keys,
BullMQ's stalled checker notices lost locks, workers take waiting jobs, timers
fire, requests to DexScreener are answered or given up (a promise that waits for
one is run then). A worker that went down is started again, as `restart: always` in
`docker-compose` has it (`Boot`). A flash job goes on whether or not its transaction
is ever mined, since its wait has a timeout. Nothing is assumed of mining, of
operators, of new blocks, or of callers starting. `CounterDecays` also needs time to
pass. Faults are never fair.

## 4. Proofs

All theorems are proved for every value of the constants, under the named
assumptions of the modules (`NonceAssumption`, `ExecutionAssumption` and so on). Most
only type the constants; those that say more are `FlashAssumption` (a loan is no
larger than the reserve), `PriceAssumption` (the order of the time limits in the
code), `AdapterAssumption` (reserves are positive), `MaxAttempts` and windows above
zero, in LiquidityMap ranges that are naturals, and for V3 pools `TickAssumption` (the
ratios are those of ticks: prices at ticks lie between MIN_SQRT_RATIO and
MAX_SQRT_RATIO, and a pool's tick is the last one whose price it has reached, as
the chain keeps it) and `SizingAssumption` (pools are what the chain may hold: a
finite set of positions with liquidity, ticks in range, a price strictly inside,
a fee below one). TLC evaluates all of them. The properties were checked on the
runs before they were proved.

- **TradeProofs**, the nonce manager: `LockExcludes`, from `LockOwned`: a caller in
  the critical part, or about to delete the lock, owns it, as long as no holder
  outlives its TTL. `NoncesAreFresh` has a half for each of its hypotheses on the
  frozen variable: `NoncesAreSequential`, from `InTurn`, where submissions succeed, and
  `HoldsLock` and `Consumed` (the nonces given out and consumed are those below the
  counter that Redis holds) where they may fail.
  Flash loans: `LoansAreRepaid` rests on `Books`, the contract's accounts at
  every stage of a call (`UnderWay`: what is borrowed, swapped and owed), so that a
  call that went through leaves the reserve one premium larger and one that reverted
  leaves what it found. `RowsTellTheChain` rests on `RowOf`, what each stage of the
  job knows of its transaction; neither needs finitely many opportunities.
  Two legs: `TradesAsScored` rests on `Money` (what the wallet holds at each stage, by
  minimum amounts) and `Ways` (a pool asked again answers the same while nothing was
  deployed and no call failed), for all four kinds of venue.
- **ExecutionEngineProofs.** The invariant has four parts: types (`TypeInv`), a
  job's lock names the worker that runs it (`OneOwner`), what a worker at each
  place knows about its opportunity (`WorkerInv`), and what row, code and
  transactions say of each other (`OppInv`). From it follow `TradesInOrder` (with
  `EachLegOnce`, `SellsWhatWasBought`, `LandedIsTrue`), `VerdictsAreFinal` (with
  `NothingAfterVerdict`, `VerdictIsFinal`), `CodesTellTheTruth`, and the refinement
  `EngineTrades`: every step maps to a step of `TwoLegTrade` or to a stutter. The crux
  is that the unique index of `executions` lets one run alone pass `CreateRecord`,
  which keeps a redelivered job from broadcasting again. For the codes, each place
  in front of the first broadcast knows that nothing was sent, and a code stands on a
  FAILED row only, after which nothing is sent.
- **WorkerProofs.** `HotChainsAreRejected`: all recent failures of a chain
  are in its counter (`Covered`), because the TTL is at least what the youngest
  has left. `HotChainsKill` adds `Armed`: the last report of a counter that
  reached the limit has it still to see or has set the switch.
  `StaleEntriesAreBrief` rests on `NothingSkipped`: every block between the one the
  watcher opened at and `lastBlock` was delivered or is in the window of a poll that
  waits, however polls overlap; a poll that ends evicts what its window overtook.
- **OpportunityPipelineProofs.** `CandidatesAreQueuedOnce` needs that at most
  one slot works on a candidate (`Single`) and that a live row keeps later jobs
  of its fingerprint out (`RowInv`, `SlotInv`); `KillsBlockApprovals` that
  `steady` is within `kill` and tested (`Steady`); `ExpiredRowsStay` that a row
  in a slot is young.
- **LiquidityProofs.** `NftMapIsExact`: a position that no log showed did not
  change in the chunks read, so it is still what it was (`Constant`, an
  invariant rather than an induction over blocks); what was fetched is at least
  as new as the window's end (`ScanInv`); and no block beyond `scanToBlock` ever
  counts as read (`Unread`). `NoRecentGap`: a window begins a full range back or
  no later than the block after the last one (`WindowInv`).
  `DirectMapIsExact` is about sums over sets of blocks (`MapThenSumSet`) and about a
  recursive replay, whose values the provers cannot find by unfolding. They are
  reached without an induction theorem over operators: `WFMin` of
  WellFoundedInduction, with the strict-subset order of FiniteSetTheorems, gives
  that every nonempty family of finite sets has a minimal member (`MinimalMember`)
  and every nonempty set of naturals a least one (`LeastNumber`); a set of blocks,
  or a number, for which a claim were wrong would have a least one, and one step
  before it the claim holds. In this way sums exist, are unique and split
  (`SumExists`, `SumUnique`, `SumWithout`), telescope to the difference of what
  the chain held (`TotalIsSum`, `Telescope`), and the replay over transfers comes
  to the same (`TransfersExact`). In the step, a window of which every block was
  read once can only begin right behind the entry (`Adjoining`, from `SavedOnce`).
  `MapsAreExact` joins both paths.
  `SearchesAreHonest` is about V3Sizing. A step, whatever it rounds, takes in at
  least and gives out at most what the price it starts from says, before fees
  (`StepDown`, `StepUp`, from `PaidDown`, `PaidUp`, `NextDown`, `NextUp`: each bounds a
  quotient of the code by the products it came from, fee and exact end included).
  The walk keeps (`WalkInv`) that what it spent and what it got are `Fair` at the
  price it started from, and that the liquidity it carries is that of the positions
  around its tick, so never negative; crossing a tick
  keeps the second, since between two initialized ticks no position begins or ends
  (`LiquidityCrossed`, `LiquidityBetween`). `SimulationIsFair` follows at every number of
  steps by `LeastNumber`. A purchase at the lower price and a sale at
  the higher then give back no more than was spent (`NoProfit`), and the search only
  ever keeps a size together with its own profit (`SearchInv`).
  `RoundTripsLose` cannot follow from prices alone: a walk there and a walk back round
  in every step. It pairs them. A step takes exactly what stands between two prices,
  rounded up, gives what stands there, rounded down, and stops short of its target
  where that is worth the amount (`IsStepDown`, `IsStepUp`). The walk back meets the same
  ticks, so each of its steps lies within one step of the walk there, at the same
  liquidity (`MovesOver`, `SameTicks`), and gives no more than that step cost
  (`Token0Within`, `Token1Within`); at its end it cannot have passed the price at which
  its partner began with what its partner brought (`Returns`). `Back` adds that up: where
  the way back stands, it has got no more than the way there spent from there on.
  `ProfilesAreTrue` has three parts. Ticks sorted by rank are sorted (`RanksAll`,
  `OrderedInOrder`), and the nets up to one add up to the liquidity above it
  (`CumulativeIsLiquidity`), so the bands are exact (`ProfileIsExact`). A fold of
  `AddPosition` over positions, in any order, gives each tick its net and no tick
  besides (`Gathers`, `TickMapIsTrue`). For the envelope (`EnvelopeIsSafe`), `Within` says
  that a purchase which has come to the tick j of the safe range has spent at least
  what the bands below j are worth; so it ends before the range does, and until then
  it crosses only into bands with liquidity and without a cliff (`RangeStep`). A
  purchase that needs more steps than the walk has ends with "steps", which the property
  says.
- **ConversionEngineProofs.** `RegimeIsFirst` turns the CHOOSE of
  `DetermineRegime` into "the first whose condition holds", and `RegimeExcludes`
  says what each place in the order excludes. With the invariant `SnapshotsTrue`
  (a snapshot's regime is that of its own signals, whoever wrote it last) follow
  `PrioritiesRespected` and `FailureStopsConversions`. `NoTradeWithoutData` and
  `SalesNeedWeakness` follow from what an approval takes: a trend of zero is a
  no-trade condition, and of the five conditions for a sale two cannot hold (the
  z-score is always 0, the relative volume at most 1.25), so that the three
  required ones are the others, which the defaults do not meet.
  `ConversionsNeedEvidence` joins the three. `ExplanationsAgree`: no reason is
  listed just when every gate passed; a hurdle passed is at least 15 points in every
  regime, and the direction of the decision is that of the explanation.
- **OpportunityScanProofs.** `OneRequest` rests on `Chained`: no two calls of a
  token wait for the same call or for none, each waits for one that has not
  settled, and nobody waits for the last. Asking, settling and sending keep it
  (one lemma each), and every step of the system is one of the three or leaves
  the chains alone. `SeesWhatIsListed` adds times: an answer cached, on the way or
  handed on was asked for no earlier than the refresh of the scan that waits behind
  it. `SoundCandidates` carries the size from `OptimalSize` (`SizeWithinCap`) and the
  fee arithmetic of the quotes to the candidate (`TradeInv`), over typed pool data
  (`DataInv`); it includes `WithinTvl`.
- **ConsoleProofs.** `SavedTakesEffectAlways`: whoever wrote a parameter, switch or
  key last wrote what is stored (`Parameters`, `Switches`, `Signing`), and a request
  on its way carries what its dialog was opened for (`Requests`), from which
  `ReleasesAreAsked` follows too. `PricesAreRecent`: what is cached is no older than
  the time since it was kept and what it may have been then (`MarketCaches`,
  `FairCaches`, `Batches`, `Natives`), and what a request has read no older than its own
  age and what that source lets pass (`Proper`, `InTime`); one lemma for each service, and
  `SettledStep` for the source that comes last. `PoolsAreAsFound`: form, request, row and
  cache entry each fit the pool of their key, and another spelling of a token names the same pool (`SpelledAlike`).
  `RemovalsPay`: the minima travel with the transaction through the queue
  (`Protected`). `LoginsAreLimited`: the attempts let through in the last window are
  among those kept, whatever the sweep deleted.

Only model-checked:

- everything under fairness (`LockFreed`, `FlashEnds`, `ExecutionsSettle`,
  `CounterDecays`, `ActivationScans`, `RowsStayFresh`, `RowsResolve`, `ScanEnds`), since
  the prover has no ENABLED. All other properties of the passing runs are proved;
- pools above par, and what a search finds beyond being honest (that it is the best
  size is not claimed: the profit need not have a single peak);
- in each module, what one spec needs of another: no theorem composes two modules.

## 5. Findings

Each violated run quotes what the code, a comment or the dashboard says and shows
the code doing something else; `PROJECT.json` has the lines.

1. `nonce_late_release`: an approval's second `release` rewinds the nonce counter.
2. `nonce_gap`: the nonce counter advances past a nonce whose submission failed, so the
   next transaction lies above a gap until the counter expires.
3. `exec_counted`: failures that `execute` handles never reach the failure rate.
4. `pipeline_kill`: approved opportunities execute under a global kill switch.
5. `map_merge`: outside the NFT path every refresh adds the last 500,000 blocks
   again.
6. `scan_price`: adapters of V3 pools give `price0Per1` the other way round than
   the type says and the V2 adapters do. A scan of V3 pools picks the wrong
   direction; its quotes then reject the candidate (`QuotedGains`), unless one fails.

Noticed on the way, and held as hazards or as hypotheses of the properties:

- Execution: the failure counter's hour starts anew with each failure ("rolling 1h
  window", `risk-engine/src/index.ts:272`), so slow drips add up; a stalled score job
  may be scored twice; an approved row whose add to the queue failed stays. `index.ts:313`
  says approvals come before the simulation, but only the buy leg is approved by
  then. A V3 venue of an unknown factory has its router for a quoter, so its
  quotes fail and candidates go on unquoted; TraderJoe's tier 2500 is listed and never
  asked for. The write of the profit after LANDED turns a landed trade into FAILED
  if it throws. `isFlashArb` is set by no code.
- Liquidity: a full scan after a pause of more than 1,000,000 blocks starts beyond
  `scanToBlock` and leaves a gap (`WindowsJoin` states exactly how far back blocks are
  sure to be read); once the fallback has written an entry, the NFT path fails on
  its key for good. A failed `getLogs` of the watcher counts as no logs. Prices of
  positive ticks are inverted twice; the safe envelope counts the whole current
  band, and upwards only. A step that crosses no tick recomputes the tick from its price
  (`v3-simulator.ts:130`), also when the price did not move: after a crossing downwards
  that tick is the one just crossed again, while the liquidity is that below it. The
  walk ends there, so only a caller that took tick and liquidity as the pool left
  behind would be wrong; `RoundTripLoses` starts from the price.
- Conversions: a thin pool's regime (LP_THIN, which still scans) hides INV_STRESS,
  which halts, and HIGH_VOL hides GAP_RISK: `PriorityRespected` names both. `evaluate`
  never asks the state's `rotation`, so a purchase may be approved in state D, "rotate
  to AVAX". The page shows state D as failed for every approved sale.
- Console: a value that the API's DTO takes and the schema refuses locks parameters,
  status and their repair out, while the worker goes on with all its defaults. A
  fair-value page whose timer runs out shows the last estimate of any age
  (`fair-value.module.ts:103-107`), and a token that a CoinGecko batch leaves out keeps its
  old price as new (`:186`). The venue switch sends the opposite of what the page shows
  by then, and `settings/page.tsx:326` promises an effect within 15 seconds that comes with the
  next start of the worker. An answer of `discover` that comes late is taken by the edited
  form and shown as verified. Removals from the browser have minima of zero; those
  of the API are swapped where token A is the pair's token 1. Several endpoints need
  a role that no login issues.

## 6. Not modelled, and the plan

Left out on purpose: HTTP, ABI encoding, rendering, logging and audit rows (no
modelled decision reads them), listings and statistics, the API's own logins and
guards, token and pool rules of `evaluate` (one choice), reorganisations of the
chain, the mathematics inside a venue's own quoter. Configuration, schema and shared
types appear as the constants and records of the other modules.

Next:

1. A composition of `NonceManager` under `ExecutionEngine`, replacing its
   one-step `AcquireNonce`.
2. Pools above par, once the code's second inversion of their prices is settled.
