--------------------------- MODULE MCEventsHistory ------------------------------
(* An account with a private event and a pipeline, another account, and a *)
(* public event.                                                          *)
EXTENDS EventsHistory, TLC

CONSTANTS a1, a2, own, pub, p1, r1, r2, s1, s2

MCEventAccount == [e \in Events |-> IF e = own THEN a1 ELSE Public]
MCPipelineAccount == [p \in Pipelines |-> a1]

EventRequestsAlike == Permutations(EventRequests)
=============================================================================
