----------------------- MODULE MCOpportunityPipeline -----------------------
(* Small instances of OpportunityPipeline: one candidate that two slots may  *)
(* come to score, and up to two rows.                                        *)
EXTENDS OpportunityPipeline

PipelineSafetySettings ==
  { {"operator", "evict"}, {"evict", "slow", "db", "stall"},
    {"crash", "evict", "db", "redis"}, {"stall", "slow"}, {} }

OperatorSettings == {{"operator"}}
=============================================================================
