-------------------------- MODULE MCLLMQueueMetrics --------------------------
(* TLC instance of the LLM queue read by /v1/metrics: three requests. *)
EXTENDS LLMQueueMetrics
CONSTANTS r1, r2, r3
MCRequests == {r1, r2, r3}
=============================================================================
