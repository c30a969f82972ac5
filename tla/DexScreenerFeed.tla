-------------------------- MODULE DexScreenerFeed --------------------------
(***************************************************************************)
(* The process-wide feed of DexScreener data:                              *)
(*   packages/dex-adapters/src/dexscreener-feed.ts   DexScreenerFeed       *)
(* Every call runs in a chain of promises of its token: it starts when the *)
(* call before it has settled.  A response is the liquidity of the pools   *)
(* of a token as listed when the request was sent.  The actions leave to   *)
(* the callers' module what a caller does with an answer; in JavaScript    *)
(* that happens before anything else does, hence in the same step.         *)
(***************************************************************************)
EXTENDS Integers, FiniteSets

CONSTANTS
  Token, Pool,
  Caller,      \* whoever calls the feed, one call for each token at a time
  None,        \* no caller
  Level,       \* liquidity in USD; level 0 is a pool that is not listed
  Ttl,         \* cacheTtlMs in ticks of the clock
  MaxRetries,
  MaxTime      \* bound: the clock stops here

ASSUME FeedAssumption ==
  /\ {Ttl, MaxRetries, MaxTime} \subseteq Nat
  /\ 0 \in Level /\ Level \subseteq Nat
  /\ None \notin Caller

VARIABLES
  clock,
  listing,  \* what DexScreener lists for each pool
  cache,    \* tokenCache
  tail,     \* tokenChain: the last call of each token's chain
  calls     \* the calls that have not settled

feedVars == <<cache, tail, calls>>

Pairs == [Pool -> Level]
Unlisted == [p \in Pool |-> 0]
NoEntry == [expires |-> 0, pairs |-> Unlisted]
NoCall == [op |-> "none", after |-> None, at |-> "idle", tries |-> 0, pairs |-> Unlisted]

FeedTypeOK ==
  /\ clock \in 0 .. MaxTime
  /\ listing \in Pairs
  /\ cache \in [Token -> [expires : 0 .. MaxTime + Ttl, pairs : Pairs]]
  /\ tail \in [Token -> Caller \cup {None}]
  /\ calls \in [Caller \X Token ->
                 [op : {"none", "get", "refresh"}, after : Caller \cup {None},
                  at : {"idle", "waiting", "loading"}, tries : 0 .. MaxRetries,
                  pairs : Pairs]]

FeedInit ==
  /\ clock = 0
  /\ cache = [t \in Token |-> NoEntry]
  /\ tail = [t \in Token |-> None]
  /\ calls = [k \in Caller \X Token |-> NoCall]

At(c, t) == calls[<<c, t>>].at

Waiting(op, after) ==
  [op |-> op, after |-> after, at |-> "waiting", tries |-> 0, pairs |-> Unlisted]

\* Mutant: a call that does not wait for the one before it.
AskUnchained(c, t, op) ==
  /\ At(c, t) = "idle"
  /\ calls' = [calls EXCEPT ![<<c, t>>] = Waiting(op, None)]
  /\ tail' = [tail EXCEPT ![t] = c]

\* runForToken: the call goes to the end of the token's chain.
Ask(c, t, op) ==
  /\ At(c, t) = "idle"
  /\ calls' = [calls EXCEPT ![<<c, t>>] = Waiting(op, tail[t])]
  /\ tail' = [tail EXCEPT ![t] = c]

\* The promise of a call settles, well or badly: the next of the chain may start.
Settle(c, t) ==
  /\ calls' = [k \in Caller \X Token |->
                 IF k = <<c, t>> THEN NoCall
                 ELSE IF k[2] = t /\ calls[k].after = c THEN [calls[k] EXCEPT !.after = None]
                 ELSE calls[k]]
  /\ tail' = [tail EXCEPT ![t] = IF @ = c THEN None ELSE @]

Turn(c, t) == At(c, t) = "waiting" /\ calls[<<c, t>>].after = None

\* Mutant: a refresh is answered from the cache.
CachedForAll(c, t) == Turn(c, t) /\ clock < cache[t].expires

Cached(c, t) ==
  /\ Turn(c, t)
  /\ calls[<<c, t>>].op = "get"
  /\ clock < cache[t].expires

Hit(c, t) ==
  /\ Cached(c, t)
  /\ Settle(c, t)
  /\ UNCHANGED cache

\* A request of fetchJson.
Request(c, t, tries) ==
  calls' = [calls EXCEPT ![<<c, t>>] =
              [op |-> @.op, after |-> @.after, at |-> "loading", tries |-> tries, pairs |-> listing]]

\* A refresh deletes the entry, a get finds none or deletes the expired one.
Load(c, t) ==
  /\ Turn(c, t) /\ ~ Cached(c, t)
  /\ cache' = [cache EXCEPT ![t] = NoEntry]
  /\ Request(c, t, 0)
  /\ UNCHANGED tail

Respond(c, t) ==
  /\ At(c, t) = "loading"
  /\ cache' = [cache EXCEPT ![t] = [expires |-> clock + Ttl, pairs |-> calls[<<c, t>>].pairs]]
  /\ Settle(c, t)

\* Mutant: the attempts of a request are counted anew once they are used up.
RetryForever(c, t) ==
  /\ At(c, t) = "loading"
  /\ Request(c, t, (calls[<<c, t>>].tries + 1) % (MaxRetries + 1))
  /\ UNCHANGED <<cache, tail>>

\* 429 or a server error: the request is sent again after a pause.
Retry(c, t) ==
  /\ At(c, t) = "loading"
  /\ calls[<<c, t>>].tries < MaxRetries
  /\ Request(c, t, calls[<<c, t>>].tries + 1)
  /\ UNCHANGED <<cache, tail>>

\* Another error, or the attempts are used up.
Throw(c, t) ==
  /\ At(c, t) = "loading"
  /\ Settle(c, t)
  /\ UNCHANGED cache

-----------------------------------------------------------------------------
(* dexscreener-feed.ts:173: work on a token is serialized "to avoid races   *)
(* between refresh and reads".  However many callers ask, and whichever of  *)
(* their requests fail, a token has one request at a time.                  *)
OneRequestPerToken ==
  \A t \in Token : Cardinality({c \in Caller : At(c, t) = "loading"}) <= 1
=============================================================================
