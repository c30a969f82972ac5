----------------------------- MODULE PriceService -----------------------------
(***************************************************************************)
(* The prices the console shows and the worker reckons with, and how old   *)
(* they may be:                                                            *)
(*   apps/api/src/market/market.module.ts          tokenPrices             *)
(*   apps/api/src/fair-value/fair-value.module.ts  getEstimate             *)
(*   apps/worker/src/index.ts                      fetchNativeTokenPriceUsd*)
(*   apps/worker/src/jobs/execution.job.ts         fetchNativeTokenPriceUsd*)
(*   apps/worker/src/jobs/balance-sync.job.ts      processBalanceSyncJob   *)
(* A price is its age, in ticks; everything kept ages with the clock.      *)
(* Timers are timely: a caller waits no longer than the limit it races with*)
(* -- what was begun for it may go on.                                     *)
(***************************************************************************)
EXTENDS Integers

CONSTANTS
  Ask,         \* requests of an operator's pages
  Token,       \* the tokens priced
  Listed,      \* those CoinGecko lists, which DexScreener is not asked for
  Null,        \* no price
  Race,        \* ticks a request waits for its sources
  Slow,        \* ticks the body of CoinGecko's answer may take beyond: no timer
  Fresh,       \* CACHE_TTL_MS and CACHE_TTL
  Stale,       \* STALE_TTL_MS, and the age a snapshot is refused at
  Batch,       \* the age a CoinGecko batch is renewed at
  Doubtful,    \* the age a source is called stale at
  Feed,        \* the age of the pairs DexScreenerFeed keeps
  Minute,      \* ticks the worker keeps the price of AVAX, half those of Redis
  PriceSettings

ASSUME PriceAssumption ==
  /\ {Race, Slow, Fresh, Stale, Batch, Doubtful, Feed, Minute} \subseteq Nat
  /\ Minute > 0
  /\ Race < Fresh /\ Fresh < Stale /\ Batch < Doubtful /\ Doubtful < Stale
  /\ Token # {} /\ Listed \subseteq Token /\ Null \notin Nat
  /\ PriceSettings \subseteq [of : {"market", "fair", "native", "balance"}, asks : SUBSET Ask, about : SUBSET Token]

VARIABLES
  service,   \* which of the two services is asked, and by whom
  ask,       \* each request: what it awaits, for how long, what it has read
  cache,     \* _priceCache with _priceCacheAt, or each token's estimate
  batch,     \* cgPriceCache with cgCacheAt
  native,    \* cachedNativePrice, or the job's: when it was got, how old, whose
  published, \* arbitex:price:avax_usd: the ticks it has left, its age
  told       \* the answer the last step gave, if it gave one

priceVars == <<service, ask, cache, batch, native, published, told>>

\* Ages above are not told apart: no answer may be so old.
Oldest == 2 * Race + Slow + IF Stale < Fresh + Doubtful THEN Fresh + Doubtful ELSE Stale
Older(age) == IF age = Null THEN Null ELSE IF age < Oldest THEN age + 1 ELSE age
OlderAll(ages) == [x \in DOMAIN ages |-> Older(ages[x])]

NoPrices == [t \in Token |-> Null]
Nothing == [at |-> Oldest, prices |-> NoPrices]
Idle == [step |-> "idle", token |-> Null, age |-> 0, got |-> NoPrices, left |-> {}]

Unanswered == [how |-> "none", prices |-> NoPrices]

PriceInit ==
  /\ service \in PriceSettings
  /\ ask = [q \in Ask |-> Idle]
  /\ cache = [t \in Token |-> Nothing]
  /\ batch = [at |-> Doubtful + 1, prices |-> NoPrices, omitted |-> {}]
  /\ native = [at |-> Oldest, age |-> Null, whose |-> Null]
  /\ published = [left |-> 0, age |-> Null]
  /\ told = Unanswered

\* The market's cache is one for all tokens: any of them stands for it.
Shared == CHOOSE t \in Token : TRUE

Answer(q, how, prices) ==
  /\ ask' = [ask EXCEPT ![q] = Idle]
  /\ told' = [how |-> how, prices |-> prices]

-----------------------------------------------------------------------------
(* tokenPrices.                                                            *)

MarketAsk(q) ==
  /\ service.of = "market" /\ q \in service.asks
  /\ ask[q].step = "idle"
  /\ IF cache[Shared].at < Fresh
       THEN Answer(q, "cached", cache[Shared].prices)
       ELSE /\ ask' = [ask EXCEPT ![q] = [Idle EXCEPT !.step = "apis"]]
            /\ told' = Unanswered
  /\ UNCHANGED <<service, cache, batch, native, published>>

\* CoinGecko and DexScreener have settled: the latter prices WRP, and AVAX too
\* when its best pair is against WAVAX.
Apis(q, listed, unlisted) ==
  /\ ask[q].step = "apis"
  /\ listed \subseteq Listed
  /\ unlisted \cap Listed # {} => unlisted \ Listed # {}
  /\ ask' = [ask EXCEPT
       ![q].step = "chain",
       ![q].got = [t \in Token |-> IF t \in listed \cup unlisted THEN 0 ELSE Null]]
  /\ told' = Unanswered
  /\ UNCHANGED <<service, cache, batch, native, published>>

\* The reserves of known pairs, for what is still missing, and the answer: a
\* fetch that found nothing is an answer, too, and is kept.
OnChain(q, found) ==
  /\ ask[q].step = "chain"
  /\ LET missing == {t \in Token : ask[q].got[t] = Null}
         prices  == [t \in Token |-> IF t \in missing \cap found THEN 0 ELSE ask[q].got[t]]
     IN  /\ cache' = [cache EXCEPT ![Shared] = [at |-> 0, prices |-> prices]]
         /\ Answer(q, "fetched", prices)
  /\ UNCHANGED <<service, batch, native, published>>

\* Mutant: the cache that is served for want of a new one passes for new.
MarketTimeoutRenews(q) ==
  /\ ask[q].step \in {"apis", "chain"}
  /\ ask[q].age = Race
  /\ LET held == cache[Shared]
     IN  /\ Answer(q, "kept", IF held.at < Stale + Race THEN held.prices ELSE NoPrices)
         /\ cache' = [cache EXCEPT ![Shared].at = 0]
  /\ UNCHANGED <<service, batch, native, published>>

\* Eight seconds without an answer.  The age of the cache is that of when the
\* request began; a cache written since is younger still.
MarketTimeout(q) ==
  /\ ask[q].step \in {"apis", "chain"}
  /\ ask[q].age = Race
  /\ LET held == cache[Shared]
     IN  Answer(q, "kept", IF held.at < Stale + Race THEN held.prices ELSE NoPrices)
  /\ UNCHANGED <<service, cache, batch, native, published>>

-----------------------------------------------------------------------------
(* getEstimate, for a page of one token, and for the page of all of them,  *)
(* which getAllEstimates races token by token.  An estimate is the ages of *)
(* the sources it was made of: the oldest of them stands for it.           *)

Estimating == {"token", "page", "late"}   \* who waits for it: "late" is nobody

\* The page of a token is answered; that of all waits for the others.
Made(q, page, how, prices) ==
  IF page
    THEN /\ ask' = [ask EXCEPT ![q] = [Idle EXCEPT !.step = how, !.age = ask[q].age, !.got = prices]]
         /\ told' = Unanswered
    ELSE Answer(q, how, prices)

\* fetchSources asks for all at once.  CoinGecko is for the tokens it lists, and
\* answers at once from a batch that is new enough.
FairAsk(q, t, page) ==
  /\ service.of = "fair" /\ q \in service.asks /\ t \in service.about
  /\ ask[q].step = "idle"
  /\ LET kept == t \in Listed /\ batch.at <= Batch
     IN  IF cache[t].at < Fresh
           THEN Made(q, page, "cached", cache[t].prices)
           ELSE /\ ask' = [ask EXCEPT ![q] =
                     [step  |-> IF page THEN "page" ELSE "token",
                      token |-> t,
                      age   |-> 0,
                      got   |-> IF kept THEN [NoPrices EXCEPT ![t] = batch.prices[t]] ELSE NoPrices,
                      left  |-> {"db"} \cup (IF t \notin Listed THEN {"dex"}
                                             ELSE IF kept THEN {} ELSE {"cg"})]]
                /\ told' = Unanswered
  /\ UNCHANGED <<service, cache, batch, native, published>>

\* A source has settled, with a price that counts or without one; the last of
\* them makes the estimate, which is kept as new even if nobody waits any more.
Settled(q, source, age) ==
  /\ ask[q].step \in Estimating /\ source \in ask[q].left
  /\ LET t      == ask[q].token
         ages   == {ask[q].got[t], age} \ {Null}
         oldest == IF ages = {} THEN Null ELSE CHOOSE a \in ages : \A b \in ages : b <= a
         got    == [NoPrices EXCEPT ![t] = oldest]
     IN  IF ask[q].left # {source}
           THEN /\ ask' = [ask EXCEPT ![q].left = @ \ {source}, ![q].got = got]
                /\ told' = Unanswered /\ UNCHANGED cache
           ELSE /\ cache' = [cache EXCEPT ![t] = [at |-> 0, prices |-> got]]
                /\ IF ask[q].step = "late"
                     THEN ask' = [ask EXCEPT ![q] = Idle] /\ told' = Unanswered
                     ELSE Made(q, ask[q].step = "page", "fetched", got)

\* fetchCoinGecko, when the last batch was too old: one batch for all tokens.
\* A token it leaves out keeps its price, of whatever age, and the batch is new
\* all the same.  Without an answer the price is that of the last batch, unless
\* that is in doubt by now.
CoinGecko(q, priced, ok) ==
  /\ batch' = IF ~ok THEN batch
              ELSE [at |-> 0,
                    prices |-> [t \in Token |->
                      IF t \in priced THEN 0 ELSE IF batch.prices[t] = Null THEN Null ELSE Oldest],
                    omitted |-> batch.omitted \cup (Listed \ priced)]
  /\ Settled(q, "cg", IF batch'.at <= Doubtful THEN batch'.prices[ask[q].token] ELSE Null)
  /\ UNCHANGED <<service, native, published>>

DexScreener(q, found) ==
  /\ Settled(q, "dex", IF found THEN 0 ELSE Null)
  /\ UNCHANGED <<service, batch, native, published>>

\* The newest snapshot of a pool, whenever the worker took it; it is refused
\* or in doubt if it is old when it is read.
DbSnapshot(q, age) ==
  /\ Settled(q, "db", IF age <= Doubtful THEN age ELSE Null)
  /\ UNCHANGED <<service, batch, native, published>>

\* Six seconds without an estimate: the last one, however old, and the sources
\* are not called off.
FairTimeout(q) ==
  /\ ask[q].step = "page" /\ ask[q].age = Race
  /\ ask' = [ask EXCEPT ![q].step = "late"]
  /\ told' = [how |-> "kept", prices |-> cache[ask[q].token].prices]
  /\ UNCHANGED <<service, cache, batch, native, published>>

\* The other tokens of the page are done.
PageAnswered(q) ==
  /\ ask[q].step \in {"cached", "fetched"}
  /\ Answer(q, ask[q].step, ask[q].got)
  /\ UNCHANGED <<service, cache, batch, native, published>>

-----------------------------------------------------------------------------
(* The price of AVAX in the worker.  A refresh asks for it and executions  *)
(* read what was published; a sync of balances asks for its own.           *)

\* A price got within a minute will do -- the sync's for any wrapped token.
NativeWanted(q, t) ==
  /\ q \in service.asks /\ t \in service.about
  /\ ask[q].step = "idle"
  /\ IF native.at < Minute
       THEN Answer(q, IF native.whose = t THEN "cached" ELSE "mixed", [NoPrices EXCEPT ![t] = native.age])
       ELSE /\ ask' = [ask EXCEPT ![q] = [Idle EXCEPT !.step = "native", !.token = t]]
            /\ told' = Unanswered
  /\ UNCHANGED <<service, cache, batch, native, published>>

\* A refresh asks once; a sync for each wrapped token whose balance it reads.
NativeAsk(q, t) == service.of = "native" /\ NativeWanted(q, t)
BalanceAsk(q, t) == service.of = "balance" /\ NativeWanted(q, t)

\* DexScreener's feed, of which the sync knows nothing, or CoinGecko, whose
\* price is new: it is kept, and published if Redis can be reached.
NativeAnswered(q, age, reached) ==
  /\ ask[q].step = "native"
  /\ service.of = "balance" => age = 0 /\ ~reached
  /\ native' = [at |-> 0, age |-> age, whose |-> ask[q].token]
  /\ published' = IF reached THEN [left |-> 2 * Minute, age |-> age] ELSE published
  /\ Answer(q, "fetched", [NoPrices EXCEPT ![ask[q].token] = age])
  /\ UNCHANGED <<service, cache, batch>>

\* Neither answers: what is kept, however old, or ten dollars.
NativeFails(q) ==
  /\ ask[q].step = "native"
  /\ Answer(q, "mixed", [NoPrices EXCEPT ![ask[q].token] = native.age])
  /\ UNCHANGED <<service, cache, batch, native, published>>

\* An execution's: what is published, or AVAX_PRICE_FALLBACK_USD.
ReadPublished(t) ==
  /\ service.of = "native" /\ t \in service.about
  /\ told' = [how |-> "published", prices |-> [NoPrices EXCEPT ![t] = published.age]]
  /\ UNCHANGED <<service, ask, cache, batch, native, published>>

-----------------------------------------------------------------------------

\* No time passes for a request that its timer ends; none ends the body of
\* CoinGecko's answer, unless it is for the page of all tokens.
PriceTick ==
  /\ \A q \in Ask : ask[q].step # "idle" =>
       ask[q].age < IF ask[q].step \in {"token", "late"} /\ ask[q].left = {"cg"} THEN Race + Slow ELSE Race
  /\ ask' = [q \in Ask |->
       IF ask[q].step = "idle" THEN ask[q]
       ELSE [ask[q] EXCEPT !.age = @ + 1, !.got = OlderAll(@)]]
  /\ cache' = [t \in Token |-> [at |-> Older(cache[t].at), prices |-> OlderAll(cache[t].prices)]]
  /\ batch' = IF batch.at > Doubtful THEN batch   \* of no use, however old
              ELSE [batch EXCEPT !.at = @ + 1, !.prices = OlderAll(@)]
  /\ native' = [native EXCEPT !.at = Older(@), !.age = Older(@)]
  /\ published' = IF published.left <= 1 THEN [left |-> 0, age |-> Null]
                  ELSE [left |-> published.left - 1, age |-> Older(published.age)]
  /\ told' = Unanswered
  /\ UNCHANGED service

PriceNext ==
  \/ \E q \in Ask :
       \/ MarketAsk(q)
       \/ \E listed \in SUBSET Listed, unlisted \in SUBSET Token : Apis(q, listed, unlisted)
       \/ \E found \in SUBSET Token : OnChain(q, found)
       \/ MarketTimeout(q)
       \/ \E t \in Token, page \in BOOLEAN : FairAsk(q, t, page)
       \/ \E t \in Token : NativeAsk(q, t) \/ BalanceAsk(q, t)
       \/ \E age \in 0..Feed, reached \in BOOLEAN : NativeAnswered(q, age, reached)
       \/ NativeFails(q)
       \/ \E priced \in SUBSET Listed, ok \in BOOLEAN : CoinGecko(q, priced, ok)
       \/ \E found \in BOOLEAN : DexScreener(q, found)
       \/ \E age \in 0..(Doubtful + 1) : DbSnapshot(q, age)
       \/ FairTimeout(q)
       \/ PageAnswered(q)
  \/ \E t \in Token : ReadPublished(t)
  \/ PriceTick

PriceSpec == PriceInit /\ [][PriceNext]_priceVars

-----------------------------------------------------------------------------
(* Properties.                                                             *)

\* Nobody is told an older price than how it came allows.  The market's are at
\* most as old as a race and the time a cache is fresh, or served for when the
\* sources are late.  The sources of an estimate were not in doubt when each was
\* read: it is older by the wait for the slowest of them, by the time it is kept
\* and by the wait of the page for other tokens -- unless a batch left the token
\* out, or the page's timer ran out: its answer is then the last estimate, to
\* whose age the code sets no limit.  The worker's price of AVAX is at most as
\* old as the feed's pairs and the time it is kept, or published for -- unless
\* all sources failed, or a sync of balances took one token's price for another's.
PricesRecent ==
  \A t \in Token :
    LET age == told.prices[t]
        own == CASE told.how = "cached" -> (IF service.of \in {"native", "balance"} THEN Minute ELSE Fresh) - 1
                 [] told.how = "kept"      -> Stale + Race - 1
                 [] told.how = "published" -> 2 * Minute - 1
                 [] OTHER                  -> 0
    IN  age # Null /\ told.how # "mixed" =>
          CASE service.of = "market" -> age <= own + Race
            [] service.of = "fair"   ->
                 told.how # "kept" /\ t \notin batch.omitted =>
                   age <= own + Doubtful + Race + Slow + (IF told.how = "cached" THEN Race ELSE 0)
            [] OTHER                 -> age <= own + Feed

=============================================================================
