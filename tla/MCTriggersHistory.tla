-------------------------- MODULE MCTriggersHistory --------------------------
(* A small instance: an account with a pipeline, and two public events, of  *)
(* which the URI of one also matches the other.                             *)
EXTENDS TriggersHistory, TLC

CONSTANTS a1, hourly, daily, p1, r1, r2

MCEventAccount == [e \in Events |-> Public]
MCPipelineAccount == [p \in Pipelines |-> a1]

\* "cron:codefresh:0 0 * * * *:tick:.." matches "cron:codefresh:0 0 0 * * *:tick:.." too.
MCGlobs == [e \in Events |-> IF e = hourly THEN Events ELSE {e}]
=============================================================================
