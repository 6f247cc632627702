-------------------------- MODULE MCBuildVariables --------------------------
(* Two words in every spelling, two variables besides the payload, and *)
(* filters on a variable as it comes and as builds have it.            *)
EXTENDS BuildVariables, TLC

CONSTANTS p1, p2

MustMatch == [skip |-> FALSE, valid |-> TRUE, matches |-> {"main"}]
MustNotMatch == [skip |-> TRUE, valid |-> TRUE, matches |-> {"main"}]

branch == [word |-> "branch", upper |-> FALSE, prefixed |-> FALSE]

MCTriggerFilters ==
  {NoFields, branch :> MustMatch, Named("branch") :> MustNotMatch,
   branch :> MustMatch @@ PayloadName :> MustNotMatch}
=============================================================================
