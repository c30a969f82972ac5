--------------------------- MODULE MCWorkerProcess ---------------------------
(* A small instance of WorkerProcess beside the one of RiskEngine: a behaviour *)
(* is about one of them, which share no state, and the other rests.         *)
EXTENDS MCRiskEngine, WorkerProcess

VARIABLE part

SomeWorkerSettings ==
  { {"ticks"}, {"ticks", "add"}, {"ticks", "scan"},
    {"blocks", "slow", "read"}, {"blocks", "logs"} }

PartsInit ==
  /\ part \in {"risk", "worker"}
  /\ Init /\ (part # "risk" => setting = {} /\ limit = 1)
  /\ WorkerInit /\ (part # "worker" => faults = {"blocks", "logs"} /\ killed)

PartsNext ==
  /\ UNCHANGED part
  /\ \/ part = "risk" /\ Next /\ UNCHANGED workerVars
     \/ part = "worker" /\ WorkerNext /\ UNCHANGED vars

PartsSpec ==
  /\ PartsInit /\ [][PartsNext]_<<part, vars, workerVars>>
  /\ Fairness /\ WorkerFairness /\ WF_workerVars(part = "worker" /\ Boot)
=============================================================================
