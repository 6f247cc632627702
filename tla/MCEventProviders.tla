--------------------------- MODULE MCEventProviders ---------------------------
(* Two providers, one that takes subscriptions and one that does not, and *)
(* configurations that move an event from one to the other.               *)
EXTENDS EventProvidersHistory

CONSTANTS a1, own, p1, r1, r2, s1, s2, git, cron, push, tick

MCEventAccount == [e \in Events |-> a1]
MCPipelineAccount == [p \in Pipelines |-> a1]

Type(kind, s, constructs, matches) ==
  [kind |-> kind, service |-> s, constructs |-> constructs, matches |-> matches]

\* In the second one the event has the URI of one type and is matched by another.
MCConfigs ==
  { << Type(push, git, {own}, {own}) >>,
    << Type(tick, cron, {}, {own}), Type(push, git, {own}, {own}) >>,
    << Type(push, cron, {own}, {own}) >> }

MCNoTypes == << >>

EventRequestsAlike == Permutations(EventRequests)
=============================================================================
