------------------------------ MODULE Filters ------------------------------
(***************************************************************************)
(* The filters of a trigger (the loop over filters in GetTriggerPipelines, *)
(* pkg/backend/redis.go).  A filter is a regular expression on one of the  *)
(* variables of an event, optionally negated with the prefix "SKIP:"; here *)
(* an expression is the set of values it matches.                          *)
(***************************************************************************)
CONSTANTS
  Values,  \* non-empty values of the variables of an event
  NoValue  \* a variable that is missing or empty

ASSUME NoValueAssumption == NoValue \notin Values

Expression == [skip: BOOLEAN, valid: BOOLEAN, matches: SUBSET Values]

\* One condition keeps the pipeline from running: the value is there, the
\* expression compiles, and MatchString(value) == skipMatch.
Rejects(exp, value) ==
  /\ value # NoValue
  /\ exp.valid
  /\ (value \in exp.matches) = exp.skip

\* Any condition of the trigger that rejects the event is enough.
Rejected(filterMap, vars) ==
  \E name \in DOMAIN filterMap : Rejects(filterMap[name], vars[name])
=============================================================================
