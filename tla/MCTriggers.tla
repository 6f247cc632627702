----------------------------- MODULE MCTriggers -----------------------------
(* A small instance: two accounts with a private event each, a public event, *)
(* and a pipeline of the first account.                                      *)
EXTENDS Triggers, TLC

CONSTANTS a1, a2, own, other, pub, p1, r1, r2

MCEventAccount ==
  [e \in Events |-> IF e = own THEN a1 ELSE IF e = other THEN a2 ELSE Public]
MCPipelineAccount == [p \in Pipelines |-> a1]

\* URIs without special characters.
MCGlobs == [e \in Events |-> {e}]

RequestsAlike == Permutations(TriggerRequests)
=============================================================================
