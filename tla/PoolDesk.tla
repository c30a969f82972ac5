------------------------------ MODULE PoolDesk ------------------------------
(***************************************************************************)
(* How a pool gets into the registry:                                      *)
(*   apps/web/src/app/pools/create/page.tsx   the form and its discovery   *)
(*   apps/api/src/pools/pools.module.ts       discoverPool, createPool     *)
(*   apps/api/src/lp/lp.module.ts             registerV2Pool               *)
(*   packages/opportunity-engine/src/index.ts autoRegisterPool, which the  *)
(*                          worker calls for every pool a refresh found    *)
(* A key is what identifies a pool: venue, two tokens, fee.  A token is an *)
(* address as it is spelled; Address tells which spellings are one.        *)
(***************************************************************************)
EXTENDS Integers, FiniteSets

CONSTANTS
  Desk,       \* operators at the form
  Key,        \* [venue, t0, t1, fee]: what a form can hold
  Address,    \* spelling of a token -> the token
  Tiered,     \* the venues with fee tiers, v3
  Pair,       \* [venue, tokens, fee] -> the pool deployed, or NoPool
  Typed,      \* pool addresses an operator may type
  NoPool,
  MaxFinds,   \* discoveries of one form under way
  DeskSettings

\* A form always holds something.
ASSUME DeskAssumption ==
  /\ DeskSettings \subseteq [at : SUBSET Desk, keys : (SUBSET Key) \ {{}}, typed : SUBSET Typed,
                        by : SUBSET {"form", "v2", "worker"}]
  /\ \A k \in Key : DOMAIN k = {"venue", "t0", "t1", "fee"}
  /\ MaxFinds \in Nat

VARIABLES
  desk,    \* who is at work, on which page, about what
  form,    \* each form: its key, its pool address, where that came from
  finds,   \* the keys each form's discoveries under way ask about
  job,     \* each operator's request to register a pool
  tokens,  \* the Token table
  rows,    \* the Pool table: <<venue, t0, t1, fee>> -> address, by unique key
  known    \* dbPoolIdCache: the row each pool's snapshots are written for

deskVars == <<desk, form, finds, job, tokens, rows, known>>

\* The factory's answer: V2 factories know no fee, and no order of tokens.
PoolOf(k) ==
  Pair[[venue |-> k.venue, tokens |-> {Address[k.t0], Address[k.t1]},
        fee |-> IF k.venue \in Tiered THEN k.fee ELSE 0]]

Pools == {Pair[k] : k \in DOMAIN Pair} \ {NoPool}
NoRow == [is |-> "unknown", key |-> NoPool, from |-> "none"]
TheRow(r) == [is |-> "row", key |-> r.key, from |-> r.from]

Done == [step |-> "none", key |-> NoPool, pool |-> NoPool, from |-> "none", found |-> {}]

DeskInit ==
  /\ desk \in DeskSettings
  /\ form = [d \in Desk |-> [key |-> CHOOSE k \in desk.keys : TRUE, pool |-> NoPool, from |-> "none", seek |-> "idle"]]
  /\ finds = [d \in Desk |-> {}]
  /\ job = [d \in Desk |-> Done]
  /\ tokens = {}
  /\ rows = {}
  /\ known = [p \in Pools |-> NoRow]

-----------------------------------------------------------------------------
(* The form.                                                               *)

\* Mutant: an edit of the form keeps the address it shows.
EditKeeps(d, k) ==
  /\ "form" \in desk.by /\ d \in desk.at /\ k # form[d].key
  /\ form' = [form EXCEPT ![d].key = k, ![d].seek = "idle"]
  /\ UNCHANGED <<desk, finds, job, tokens, rows, known>>

\* An edit of venue, tier or token forgets the address.  That of a V2 fee
\* leaves the banner of the last discovery.
Edit(d, k) ==
  /\ "form" \in desk.by /\ d \in desk.at /\ k # form[d].key
  /\ LET old == form[d].key
         onlyFee == [old EXCEPT !.fee = k.fee] = k /\ k.venue \notin Tiered
     IN  form' = [form EXCEPT ![d] =
           [key |-> k, pool |-> NoPool, from |-> "none",
            seek |-> IF onlyFee THEN form[d].seek ELSE "idle"]]
  /\ UNCHANGED <<desk, finds, job, tokens, rows, known>>

Type(d, a) ==
  /\ "form" \in desk.by /\ d \in desk.at
  /\ form' = [form EXCEPT ![d].pool = a, ![d].from = "typed"]
  /\ UNCHANGED <<desk, finds, job, tokens, rows, known>>

\* canDiscover and the button: one discovery, but an edit enables it again.
Discover(d) ==
  /\ "form" \in desk.by /\ d \in desk.at
  /\ Address[form[d].key.t0] # Address[form[d].key.t1]
  /\ form[d].seek # "loading"
  /\ Cardinality(finds[d]) < MaxFinds
  /\ finds' = [finds EXCEPT ![d] = @ \cup {form[d].key}]
  /\ form' = [form EXCEPT ![d].seek = "loading"]
  /\ UNCHANGED <<desk, job, tokens, rows, known>>

\* discoverPool answers, and the form takes the answer whatever it now holds.
Discovered(d, k) ==
  /\ k \in finds[d]
  /\ finds' = [finds EXCEPT ![d] = @ \ {k}]
  /\ form' = [form EXCEPT ![d] =
       IF PoolOf(k) = NoPool THEN [@ EXCEPT !.seek = "not-found"]
       ELSE [@ EXCEPT !.seek = "found", !.pool = PoolOf(k),
                      !.from = IF k = form[d].key THEN "found" ELSE "late"]]
  /\ UNCHANGED <<desk, job, tokens, rows, known>>

DiscoverFails(d, k) ==
  /\ k \in finds[d]
  /\ finds' = [finds EXCEPT ![d] = @ \ {k}]
  /\ form' = [form EXCEPT ![d].seek = "error"]
  /\ UNCHANGED <<desk, job, tokens, rows, known>>

\* canSubmit: what the form holds now is sent.
Submit(d) ==
  /\ "form" \in desk.by /\ d \in desk.at /\ job[d].step = "none"
  /\ form[d].pool # NoPool
  /\ job' = [job EXCEPT ![d] =
       [step |-> "find", key |-> form[d].key, pool |-> form[d].pool,
        from |-> form[d].from, found |-> {}]]
  /\ UNCHANGED <<desk, form, finds, tokens, rows, known>>

\* The V2 page registers a pair by its factory: registerV2Pool.
RegisterV2(d, k) ==
  /\ "v2" \in desk.by /\ d \in desk.at /\ job[d].step = "none"
  /\ k.venue \notin Tiered
  /\ PoolOf(k) # NoPool
  /\ job' = [job EXCEPT ![d] =
       [step |-> "find", key |-> k, pool |-> PoolOf(k), from |-> "factory", found |-> {}]]
  /\ UNCHANGED <<desk, form, finds, tokens, rows, known>>

-----------------------------------------------------------------------------
(* The worker: refreshPools resolves each pool that it found and waits for *)
(* none of them.                                                           *)

\* resolveDbPoolId: a pool asked about before is not asked about again, be it
\* that nothing came of it.
Refresh(d, k) ==
  /\ "worker" \in desk.by /\ d \in desk.at /\ job[d].step = "none"
  /\ PoolOf(k) # NoPool /\ known[PoolOf(k)].is = "unknown"
  /\ job' = [job EXCEPT ![d] =
       [step |-> "resolve", key |-> k, pool |-> PoolOf(k), from |-> "worker", found |-> {}]]
  /\ UNCHANGED <<desk, form, finds, tokens, rows, known>>

\* Any row of the pool's address will do; else the pool is registered.
Resolve(d) ==
  /\ job[d].step = "resolve"
  /\ LET same == {r \in rows : r.pool = job[d].pool}
     IN  \/ /\ same # {}
            /\ \E r \in same : known' = [known EXCEPT ![job[d].pool] = TheRow(r)]
            /\ job' = [job EXCEPT ![d] = Done]
         \/ /\ same = {}
            /\ job' = [job EXCEPT ![d].step = "find"]
            /\ UNCHANGED known
  /\ UNCHANGED <<desk, form, finds, tokens, rows>>

\* A worker that starts anew has forgotten which rows it knew.
WorkerRestarts ==
  /\ "worker" \in desk.by
  /\ \E p \in Pools : known[p].is # "unknown"
  /\ known' = [p \in Pools |-> NoRow]
  /\ job' = [d \in Desk |-> IF job[d].from = "worker" THEN Done ELSE job[d]]
  /\ UNCHANGED <<desk, form, finds, tokens, rows>>

-----------------------------------------------------------------------------
(* createPool, registerV2Pool and autoRegisterPool.                        *)

Spelled(j) == {j.key.t0, j.key.t1}
Alike(t) == {s \in tokens : Address[s] = Address[t]}

\* A request that fails is answered so; a registration of the worker's has the
\* answer null, which is kept.
Fails(d) ==
  /\ job' = [job EXCEPT ![d] = Done]
  /\ known' = IF job[d].from = "worker" THEN [known EXCEPT ![job[d].pool].is = "null"] ELSE known

\* upsertToken, ensureToken and resolveOrCreateToken, for both tokens at once:
\* what is there, in whatever spelling, is taken.
FindTokens(d) ==
  /\ job[d].step = "find"
  /\ \E taken \in [Spelled(job[d]) -> tokens \cup {NoPool}] :
       /\ \A t \in Spelled(job[d]) :
            taken[t] \in IF Alike(t) = {} THEN {NoPool} ELSE Alike(t)
       /\ job' = [job EXCEPT ![d].step = "create", ![d].found = taken]
  /\ UNCHANGED <<desk, form, finds, tokens, rows, known>>

Missing(j) == {t \in Spelled(j) : j.found[t] = NoPool}
AllFound(d) ==
  job' = [job EXCEPT
    ![d].step = "save",
    ![d].found = [t \in Spelled(job[d]) |-> IF t \in Missing(job[d]) THEN t ELSE @[t]]]

\* The API creates the others, those whose metadata could be read; a spelling
\* that has been created since is refused, and so is the request.
CreateTokens(d, readable) ==
  /\ job[d].step = "create" /\ job[d].from # "worker"
  /\ LET made  == {t \in Missing(job[d]) : t \in readable /\ t \notin tokens}
         twice == job[d].key.t0 = job[d].key.t1 /\ Missing(job[d]) # {}
     IN  /\ readable \subseteq Missing(job[d])
         /\ tokens' = tokens \cup made
         /\ IF made # Missing(job[d]) \/ twice THEN Fails(d) ELSE AllFound(d) /\ UNCHANGED known
  /\ UNCHANGED <<desk, form, finds, rows>>

\* resolveOrCreateToken creates them under any name.
CreateTargets(d) ==
  /\ job[d].step = "create" /\ job[d].from = "worker"
  /\ tokens' = tokens \cup Missing(job[d])
  /\ IF Missing(job[d]) \cap tokens # {} THEN Fails(d) ELSE AllFound(d) /\ UNCHANGED known
  /\ UNCHANGED <<desk, form, finds, rows>>

RowKey(j) == [j.key EXCEPT !.t0 = j.found[j.key.t0], !.t1 = j.found[j.key.t1]]

\* pool.upsert: a row of the same key is given the new address.
Upserted(j) ==
  LET row == [key |-> RowKey(j), pool |-> j.pool, from |-> j.from]
  IN  {r \in rows : r.key # row.key} \cup {row}

SavePool(d) ==
  /\ job[d].step = "save" /\ job[d].from \notin {"factory", "worker"}
  /\ rows' = Upserted(job[d])
  /\ job' = [job EXCEPT ![d].step = "audit"]
  /\ UNCHANGED <<desk, form, finds, tokens, known>>

\* autoRegisterPool's, of a pool whose tokens both have a row.
AutoRegister(d) ==
  /\ job[d].step = "save" /\ job[d].from = "worker"
  /\ rows' = Upserted(job[d])
  /\ known' = [known EXCEPT ![job[d].pool] = [is |-> "row", key |-> RowKey(job[d]), from |-> "worker"]]
  /\ job' = [job EXCEPT ![d] = Done]
  /\ UNCHANGED <<desk, form, finds, tokens>>

\* registerV2Pool creates a row, or takes one that has the pair at the venue.
SavePair(d) ==
  /\ job[d].step = "save" /\ job[d].from = "factory"
  /\ LET j     == job[d]
         taken == \E r \in rows : r.key = RowKey(j)
         same  == \E r \in rows : r.key.venue = j.key.venue /\ r.pool = j.pool
     IN  /\ rows' = IF taken THEN rows
                    ELSE rows \cup {[key |-> RowKey(j), pool |-> j.pool, from |-> j.from]}
         /\ job' = [job EXCEPT ![d] = IF taken /\ ~same THEN Done ELSE [@ EXCEPT !.step = "audit"]]
  /\ UNCHANGED <<desk, form, finds, tokens, known>>

\* The audit row, written or not, and the answer.
Audited(d) ==
  /\ job[d].step = "audit"
  /\ job' = [job EXCEPT ![d] = Done]
  /\ UNCHANGED <<desk, form, finds, tokens, rows, known>>

\* The API dies between two steps, and the page is told so; or a query of the
\* worker's fails: the first one is asked again at the next refresh.
RequestDies(d) ==
  /\ job[d].step # "none"
  /\ IF job[d].step = "resolve" THEN job' = [job EXCEPT ![d] = Done] /\ UNCHANGED known
     ELSE Fails(d)
  /\ UNCHANGED <<desk, form, finds, tokens, rows>>

DeskNext ==
  \/ WorkerRestarts
  \/ \E d \in Desk :
      \/ \E k \in desk.keys : Edit(d, k) \/ Discovered(d, k) \/ DiscoverFails(d, k) \/ RegisterV2(d, k) \/ Refresh(d, k)
      \/ \E a \in desk.typed : Type(d, a)
      \/ Discover(d) \/ Submit(d)
      \/ FindTokens(d) \/ \E readable \in SUBSET DOMAIN Address : CreateTokens(d, readable)
      \/ Resolve(d) \/ CreateTargets(d) \/ AutoRegister(d) \/ SavePool(d) \/ SavePair(d) \/ Audited(d) \/ RequestDies(d)

DeskSpec == DeskInit /\ [][DeskNext]_deskVars

-----------------------------------------------------------------------------
(* Properties.                                                             *)

\* The registry names the pool of its venue, tokens and fee: a row whose
\* address was not typed by hand has the factory's, unless the form was edited
\* while the discovery was under way; and the row that the worker takes a
\* pool's snapshots for is one of that pool, whatever was registered since.
PoolsAsFound ==
  /\ \A r \in rows : r.from \in {"found", "factory", "worker"} => r.pool = PoolOf(r.key)
  /\ \A p \in Pools : known[p].is = "row" /\ known[p].from \notin {"typed", "late"} =>
       \E r \in rows : r.key = known[p].key /\ (r.pool = p \/ r.from \in {"typed", "late"})

=============================================================================
