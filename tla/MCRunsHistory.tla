---------------------------- MODULE MCRunsHistory ---------------------------
(* An account with a private event and its pipelines.                      *)
EXTENDS RunsHistory, TLC

CONSTANTS a1, a2, own, pub, p1, p2, s1, s2, t1, t2, v1, v2, u1, u2

MCEventAccount == [e \in Events |-> IF e = own THEN a1 ELSE Public]
MCPipelineAccount == [p \in Pipelines |-> a1]

\* URIs without special characters.
MCGlobs == [e \in Events |-> {e}]

\* "push" matches the one expression, and must match it to run.
MCExpressions == {[skip |-> FALSE, valid |-> TRUE, matches |-> {"push"}]}
MCAllExpressions ==
  {[skip |-> s, valid |-> v, matches |-> {"push"}] : s, v \in BOOLEAN}
=============================================================================
