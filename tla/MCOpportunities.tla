--------------------------- MODULE MCOpportunities ---------------------------
(* Small instances of OpportunityScan and OpportunityPipeline, which share no  *)
(* state: a behaviour either scans pools for candidates, or queues, scores and *)
(* executes one candidate; the other part rests.                               *)
EXTENDS MCOpportunityScan, MCOpportunityPipeline

VARIABLE part

PartsInit ==
  /\ part \in {"scan", "candidate"}
  /\ Init
  /\ part # "scan" => /\ setting = CHOOSE x \in Settings : TRUE
                      /\ listing = CHOOSE x \in setting.listings : TRUE
                      /\ market = CHOOSE x \in setting.markets : TRUE
  /\ PipelineInit
  /\ part # "candidate" => happens = {}

PartsNext ==
  /\ UNCHANGED part
  /\ \/ part = "scan" /\ Next /\ UNCHANGED pipelineVars
     \/ part = "candidate" /\ PipelineNext /\ UNCHANGED vars

PartsSpec ==
  /\ PartsInit /\ [][PartsNext]_<<part, vars, pipelineVars>>
  /\ Fairness /\ PipelineFairness
=============================================================================
