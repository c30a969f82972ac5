----------------------------- MODULE RiskEngine -----------------------------
(***************************************************************************)
(* The circuit breaker of the risk engine                                  *)
(*   packages/risk-engine/src/index.ts                                     *)
(* kept in Redis and shared by every process: a counter of failed          *)
(* transactions for each chain, which expires an hour after the last one,  *)
(* and kill switches, which recordFailedTx and operators set and only      *)
(* operators clear.  Every Redis command is a step.                        *)
(***************************************************************************)
EXTENDS Integers, FiniteSets

CONSTANTS
  Chain,    \* chain ids
  Failure,  \* executions that fail, each reported once to recordFailedTx
  ChainOf,  \* the chain each of them failed on
  Hour,     \* ticks of the clock in an hour
  Limits,   \* values of maxFailedTxPerHour
  Settings  \* the settings a behaviour may run in

Happenings ==
  { "crash",     \* the reporting process dies between two commands
    "redis",     \* EXPIRE throws
    "slow",      \* a tick passes between two commands of one report
    "operator",  \* an operator sets and clears kill switches
    "config" }   \* maxFailedTxPerHour is changed

ASSUME RiskAssumption ==
  /\ IsFiniteSet(Failure)
  /\ ChainOf \in [Failure -> Chain]
  /\ "GLOBAL" \notin Chain
  /\ Hour \in Nat \ {0}
  /\ Limits \subseteq Nat \ {0}
  /\ Settings \subseteq SUBSET Happenings

Scope == {"GLOBAL"} \cup Chain

\* The time to live of a key that has none.
Forever == Hour + 1

VARIABLES
  setting,  \* what may happen, one of Settings
  kill,     \* the kill switches that are set
  limit,    \* config.maxFailedTxPerHour
  counted,  \* the failures in each chain's counter, whose value is their number
  ttl,      \* ticks the counter's key has to live, 0 without a key
  pc,       \* where each report stands
  seen,     \* newCount of each report
  age       \* ticks since each failure was counted, Hour once it is older

vars == <<setting, kill, limit, counted, ttl, pc, seen, age>>

Init ==
  /\ setting \in Settings
  /\ kill = {}
  /\ limit \in Limits
  /\ counted = [c \in Chain |-> {}]
  /\ ttl = [c \in Chain |-> 0]
  /\ pc = [f \in Failure |-> "todo"]
  /\ seen = [f \in Failure |-> 0]
  /\ age = [f \in Failure |-> Hour]

Goto(f, from, to) ==
  /\ pc[f] = from
  /\ pc' = [pc EXCEPT ![f] = to]

InFlight == {f \in Failure : pc[f] \in {"expire", "check"}}

-----------------------------------------------------------------------------
(* recordFailedTx                                                          *)

\* INCR makes a key that is not there without a time to live, and leaves that
\* of an existing key as it is.
Incr(f) ==
  LET c == ChainOf[f] IN
  /\ Goto(f, "todo", "expire")
  /\ counted' = [counted EXCEPT ![c] = @ \cup {f}]
  /\ seen' = [seen EXCEPT ![f] = Cardinality(counted[c]) + 1]
  /\ ttl' = [ttl EXCEPT ![c] = IF @ = 0 THEN Forever ELSE @]
  /\ age' = [age EXCEPT ![f] = 0]
  /\ UNCHANGED <<setting, kill, limit>>

\* Mutants: the time to live is set for the first failure only; never.
ExpireFirstOnly(f) ==
  LET c == ChainOf[f] IN
  /\ Goto(f, "expire", "check")
  /\ ttl' = [ttl EXCEPT ![c] = IF @ = Forever THEN Hour ELSE @]
  /\ UNCHANGED <<setting, kill, limit, counted, seen, age>>

ExpireNever(f) ==
  /\ Goto(f, "expire", "check")
  /\ UNCHANGED <<setting, kill, limit, counted, ttl, seen, age>>

\* EXPIRE of a key that is gone does nothing.
Expire(f) ==
  LET c == ChainOf[f] IN
  /\ Goto(f, "expire", "check")
  /\ ttl' = [ttl EXCEPT ![c] = IF @ = 0 THEN 0 ELSE Hour]
  /\ UNCHANGED <<setting, kill, limit, counted, seen, age>>

\* Mutant: one failure too late.
CheckExceeded(f) ==
  /\ Goto(f, "check", "done")
  /\ kill' = IF seen[f] > limit THEN kill \cup {"GLOBAL"} ELSE kill
  /\ UNCHANGED <<setting, limit, counted, ttl, seen, age>>

\* activateKillSwitch sets the key first; the event and the audit row that it
\* writes then are read by nothing here.
Check(f) ==
  /\ Goto(f, "check", "done")
  /\ kill' = IF seen[f] >= limit THEN kill \cup {"GLOBAL"} ELSE kill
  /\ UNCHANGED <<setting, limit, counted, ttl, seen, age>>

\* The report ends between two commands.
Lose(f) ==
  /\ \/ "crash" \in setting /\ (Goto(f, "expire", "done") \/ Goto(f, "check", "done"))
     \/ "redis" \in setting /\ Goto(f, "expire", "done")
  /\ UNCHANGED <<setting, kill, limit, counted, ttl, seen, age>>

-----------------------------------------------------------------------------
(* The other operations                                                    *)

\* Mutant: a success takes one failure back, as the comment in the code warns.
DecrementOnSuccess(c) ==
  /\ \E f \in counted[c] : counted' = [counted EXCEPT ![c] = @ \ {f}]
  /\ UNCHANGED <<setting, kill, limit, ttl, pc, seen, age>>

\* recordSuccessfulTx is deliberately a no-op.
RecordSuccessfulTx(c) == UNCHANGED vars

ActivateKillSwitch(s) ==
  /\ "operator" \in setting
  /\ kill' = kill \cup {s}
  /\ UNCHANGED <<setting, limit, counted, ttl, pc, seen, age>>

DeactivateKillSwitch(s) ==
  /\ "operator" \in setting
  /\ kill' = kill \ {s}
  /\ UNCHANGED <<setting, limit, counted, ttl, pc, seen, age>>

\* Every pool refresh gives the engine the limits that the database holds.
UpdateConfig(l) ==
  /\ "config" \in setting
  /\ limit' = l
  /\ UNCHANGED <<setting, kill, counted, ttl, pc, seen, age>>

\* Time passes; a key whose time is up is gone.
Tick ==
  /\ "slow" \in setting \/ InFlight = {}
  /\ age' = [f \in Failure |-> IF age[f] < Hour THEN age[f] + 1 ELSE Hour]
  /\ ttl' = [c \in Chain |-> IF ttl[c] \in 1 .. Hour THEN ttl[c] - 1 ELSE ttl[c]]
  /\ counted' = [c \in Chain |-> IF ttl[c] = 1 THEN {} ELSE counted[c]]
  /\ UNCHANGED <<setting, kill, limit, pc, seen>>

Report(f) == Incr(f) \/ Expire(f) \/ Check(f)

Next ==
  \/ \E f \in Failure : Report(f) \/ Lose(f)
  \/ \E c \in Chain : RecordSuccessfulTx(c)
  \/ \E s \in Scope : ActivateKillSwitch(s) \/ DeactivateKillSwitch(s)
  \/ \E l \in Limits : UpdateConfig(l)
  \/ Tick

Spec == Init /\ [][Next]_vars

\* A report that has begun goes on unless its process dies, and time passes.
Fairness ==
  /\ \A f \in Failure : WF_vars(Expire(f) \/ Check(f) \/ Lose(f))
  /\ WF_vars(Tick)

FairSpec == Spec /\ Fairness

-----------------------------------------------------------------------------
(* evaluate                                                                *)

\* The FAILED_TX_RATE rule rejects.
RateExceeded(c) == Cardinality(counted[c]) >= limit

\* The KILL_SWITCH rule rejects.
Killed(c) == "GLOBAL" \in kill \/ c \in kill

Rejected(c) == RateExceeded(c) \/ Killed(c)

-----------------------------------------------------------------------------
(* Properties                                                              *)

\* The failures of a chain in the last hour.
Recent(c) == {f \in Failure : ChainOf[f] = c /\ age[f] < Hour}

\* maxFailedTxPerHour is reached.
Hot(c) == Cardinality(Recent(c)) >= limit

\* Every variable has its type, and no report saw more failures than its chain has.
TypeOK ==
  /\ setting \in Settings
  /\ kill \subseteq Scope
  /\ limit \in Limits
  /\ counted \in [Chain -> SUBSET Failure]
  /\ ttl \in [Chain -> 0 .. Forever]
  /\ pc \in [Failure -> {"todo", "expire", "check", "done"}]
  /\ seen \in [Failure -> Nat]
  /\ \A f \in Failure : seen[f] <= Cardinality({g \in Failure : ChainOf[g] = ChainOf[f]})
  /\ age \in [Failure -> 0 .. Hour]

\* Every report reached Redis whole and in time.
Reliable == setting \cap {"crash", "redis", "slow"} = {}

\* While the failures of the last hour reach the limit, every opportunity of
\* their chain is rejected, whatever operators, successes and changes of the
\* limit do in between (recordFailedTx, checkFailedTxRate).
HotIsRejected == Reliable => \A c \in Chain : Hot(c) => Rejected(c)

\* Unless an operator cleared it or the limit was changed, the global kill
\* switch is set once all reports of a hot chain are through (recordFailedTx).
AutoKill ==
  Reliable /\ setting \cap {"operator", "config"} = {} =>
    \A c \in Chain : Hot(c) /\ InFlight = {} => "GLOBAL" \in kill

\* The counter decays: unless a report is cut short between INCR and EXPIRE, a
\* counter is back at zero an hour after its last failure (recordSuccessfulTx:
\* "a 1-hour TTL that handles natural decay").
CounterDecays ==
  setting \cap {"crash", "redis"} = {} => \A c \in Chain : []<>(counted[c] = {})
=============================================================================
