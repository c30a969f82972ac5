-------------------------- MODULE MCExecutionEngine --------------------------
(* Small instances of ExecutionEngine: one opportunity among all the faults, *)
(* and two of one fingerprint, executed by two worker processes.             *)
EXTENDS ExecutionEngine

CONSTANTS o1, o2, f1

OneFingerprint == [o \in Opp |-> f1]

\* Everything may go wrong; everything but database writes; living processes and
\* a working database, with and without mock mode; two opportunities of one
\* fingerprint.
AllSettings ==
  { [queued |-> {o1}, mock |-> FALSE, faults |-> AllFaults],
    [queued |-> {o1}, mock |-> TRUE, faults |-> AllFaults],
    [queued |-> {o1}, mock |-> FALSE, faults |-> AllFaults \ {"db"}],
    [queued |-> {o1}, mock |-> FALSE, faults |-> AllFaults \ {"crash", "db"}],
    [queued |-> {o1}, mock |-> TRUE, faults |-> AllFaults \ {"crash", "db"}],
    [queued |-> {o1, o2}, mock |-> FALSE, faults |-> {"revert"}] }

CountedSettings ==
  { [queued |-> {o1}, mock |-> FALSE, faults |-> {"revert"}] }
=============================================================================
