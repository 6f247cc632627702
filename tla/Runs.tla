-------------------------------- MODULE Runs --------------------------------
(***************************************************************************)
(* The handler of normalized events: RunTrigger of                         *)
(* pkg/controller/runner.go with GetEvent and GetTriggerPipelines of       *)
(* pkg/backend/redis.go, SecretChecker.Validate, EventPublisher.Publish    *)
(* and PipelineRunner.Run of pkg/backend.                                  *)
(*                                                                         *)
(* A request of RunRequests goes through the handler one remote call at a  *)
(* time, as in Triggers.  It skips the account check (account "-"): the    *)
(* event URI is used as it is in every key.                                *)
(***************************************************************************)
EXTENDS RedisStore, Filters

CONSTANTS
  RunRequests,  \* goroutines serving normalized events
  RunFaults     \* the services that may fail: "redis", "cfapi", "crash"

ASSUME ExpressionsAssumption == Expressions \subseteq Expression
ASSUME RunFaultsAssumption == RunFaults \subseteq {"redis", "cfapi", "crash"}

VARIABLES
  rpc,       \* the next call of the request's handler
  rreq,      \* the normalized event
  unread,    \* linked pipelines whose filters are still to be read
  selected,  \* pipelines to run
  ran,       \* pipelines the handler has called RunPipeline for
  rreply     \* how the last handler of the goroutine ended

runLocals == <<rpc, rreq, unread, selected, ran, rreply>>
runVars == <<redis, runLocals>>

NoRunRequest == [event |-> AnyEvent]

\* Variables a filter is set on; the others do not matter.
Variables == [FilterNames -> Values \cup {NoValue}]

\* The secret stands for a plain secret or for the key of an HMAC signature.
NormalizedEvent == [event: Events, secret: Secrets, vars: Variables]

\* What the handler found.  An event that is not found and a secret that is
\* invalid are both answered with 500, as other errors are.
RunReply == {"none", "ok", "not found", "invalid secret", "error", "reset"}

RunPC == {"idle", "event exists", "event get", "publish", "trigger exists", "range",
          "filters", "run"}

RunsTypeOK ==
  /\ rpc \in [RunRequests -> RunPC]
  /\ rreq \in [RunRequests -> NormalizedEvent \cup {NoRunRequest}]
  /\ \A r \in RunRequests :
       IF rpc[r] = "idle" THEN rreq[r] = NoRunRequest ELSE rreq[r] \in NormalizedEvent
  /\ unread \in [RunRequests -> SUBSET Pipelines]
  /\ selected \in [RunRequests -> SUBSET Pipelines]
  /\ ran \in [RunRequests -> SUBSET Pipelines]
  /\ \A r \in RunRequests : unread[r] \subseteq selected[r] /\ ran[r] \cap selected[r] = {}
  /\ rreply \in [RunRequests -> RunReply]

RunLocalsInit ==
  /\ rpc = [r \in RunRequests |-> "idle"]
  /\ rreq = [r \in RunRequests |-> NoRunRequest]
  /\ unread = [r \in RunRequests |-> {}]
  /\ selected = [r \in RunRequests |-> {}]
  /\ ran = [r \in RunRequests |-> {}]
  /\ rreply = [r \in RunRequests |-> "none"]

-----------------------------------------------------------------------------
(* Control of one request *)

RunGoto(r, next) ==
  /\ rpc' = [rpc EXCEPT ![r] = next]
  /\ UNCHANGED <<rreq, unread, selected, ran, rreply>>

RunReturn(r, result) ==
  /\ rpc' = [rpc EXCEPT ![r] = "idle"]
  /\ rreq' = [rreq EXCEPT ![r] = NoRunRequest]
  /\ unread' = [unread EXCEPT ![r] = {}]
  /\ selected' = [selected EXCEPT ![r] = {}]
  /\ ran' = [ran EXCEPT ![r] = {}]
  /\ rreply' = [rreply EXCEPT ![r] = result]

-----------------------------------------------------------------------------
(* RunTrigger *)

RunTrigger(r) ==
  /\ rpc[r] = "idle"
  /\ \E event \in NormalizedEvent :
       /\ rreq' = [rreq EXCEPT ![r] = event]
       /\ rpc' = [rpc EXCEPT ![r] = "event exists"]
       /\ rreply' = [rreply EXCEPT ![r] = "none"]
  /\ UNCHANGED <<redis, unread, selected, ran>>

RunGetEventExists(r) ==
  /\ rpc[r] = "event exists"
  /\ IF EventExists(rreq[r].event) THEN RunGoto(r, "event get")
                                   ELSE RunReturn(r, "not found")
  /\ UNCHANGED redis

\* As RunGetEvent, with the validation of the secret left out.
RunGetEventUnchecked(r) ==
  /\ rpc[r] = "event get"
  /\ IF EventExists(rreq[r].event) THEN RunGoto(r, "publish") ELSE RunReturn(r, "not found")
  /\ UNCHANGED redis

\* HGETALL of the event, and Validate with the secret just read.
RunGetEvent(r) ==
  /\ rpc[r] = "event get"
  /\ IF ~EventExists(rreq[r].event) THEN RunReturn(r, "not found")
     ELSE IF events[rreq[r].event] # rreq[r].secret THEN RunReturn(r, "invalid secret")
     ELSE RunGoto(r, "publish")
  /\ UNCHANGED redis

\* The event is published in Codefresh; an error is logged and dropped.
RunPublish(r) ==
  /\ rpc[r] = "publish"
  /\ RunGoto(r, "trigger exists")
  /\ UNCHANGED redis

\* GetTriggerPipelines: without a trigger key there is nothing to run, and the
\* answer is 200 as well.
RunTriggerExists(r) ==
  /\ rpc[r] = "trigger exists"
  /\ IF triggers[rreq[r].event] # {} THEN RunGoto(r, "range") ELSE RunReturn(r, "ok")
  /\ UNCHANGED redis

RunRange(r) ==
  /\ rpc[r] = "range"
  /\ selected' = [selected EXCEPT ![r] = triggers[rreq[r].event]]
  /\ unread' = [unread EXCEPT ![r] = triggers[rreq[r].event]]
  /\ rpc' = [rpc EXCEPT ![r] = "filters"]
  /\ UNCHANGED <<redis, rreq, ran, rreply>>

\* HGETALL of the filters of the next pipeline.  The payload is always among
\* the variables, so filters are always applied.
RunFilters(r) ==
  /\ rpc[r] = "filters"
  /\ \E p \in unread[r] :
       /\ unread' = [unread EXCEPT ![r] = @ \ {p}]
       /\ selected' = [selected EXCEPT ![r] =
                         IF Rejected(filters[<<rreq[r].event, p>>], rreq[r].vars) THEN @ \ {p} ELSE @]
  /\ UNCHANGED <<redis, rpc, rreq, ran, rreply>>

\* As RunFiltersDone, with the pipelines whose filters are unread taken as they are.
RunFiltersEarly(r) ==
  /\ rpc[r] = "filters"
  /\ RunGoto(r, "run")
  /\ UNCHANGED redis

RunFiltersDone(r) ==
  /\ rpc[r] = "filters"
  /\ unread[r] = {}
  /\ RunGoto(r, "run")
  /\ UNCHANGED redis

\* As RunPipeline, with the same pipeline run again and again.
RunPipelineAgain(r) ==
  /\ rpc[r] = "run"
  /\ \E p \in selected[r] : ran' = [ran EXCEPT ![r] = @ \cup {p}]
  /\ UNCHANGED <<redis, rpc, rreq, unread, selected, rreply>>

\* As RunPipeline, with the loop ended by the first error.
RunPipelineOrStop(r) ==
  /\ rpc[r] = "run"
  /\ \E p \in selected[r] :
       \/ /\ selected' = [selected EXCEPT ![r] = @ \ {p}]
          /\ ran' = [ran EXCEPT ![r] = @ \cup {p}]
          /\ UNCHANGED <<redis, rpc, rreq, unread, rreply>>
       \/ /\ "cfapi" \in RunFaults
          /\ RunReturn(r, "ok")
          /\ UNCHANGED redis

\* PipelineRunner.Run calls cfapi for every pipeline in turn; an error becomes
\* the result of that run and the loop goes on.
RunPipeline(r) ==
  /\ rpc[r] = "run"
  /\ \E p \in selected[r] :
       /\ selected' = [selected EXCEPT ![r] = @ \ {p}]
       /\ ran' = [ran EXCEPT ![r] = @ \cup {p}]
  /\ UNCHANGED <<redis, rpc, rreq, unread, rreply>>

RunDone(r) ==
  /\ rpc[r] = "run"
  /\ selected[r] = {}
  /\ RunReturn(r, "ok")
  /\ UNCHANGED redis

-----------------------------------------------------------------------------
(* Failures *)

RunRedisError(r) ==
  /\ "redis" \in RunFaults
  /\ \/ rpc[r] \in {"event exists", "event get", "trigger exists", "range"}
     \/ rpc[r] = "filters" /\ unread[r] # {}
  /\ RunReturn(r, "error")
  /\ UNCHANGED redis

RunsReset ==
  /\ rpc' = [r \in RunRequests |-> "idle"]
  /\ rreq' = [r \in RunRequests |-> NoRunRequest]
  /\ unread' = [r \in RunRequests |-> {}]
  /\ selected' = [r \in RunRequests |-> {}]
  /\ ran' = [r \in RunRequests |-> {}]
  /\ rreply' = [r \in RunRequests |-> IF rpc[r] = "idle" THEN rreply[r] ELSE "reset"]

RunStep(r) ==
  \/ RunGetEventExists(r)
  \/ RunGetEvent(r)
  \/ RunPublish(r)
  \/ RunTriggerExists(r)
  \/ RunRange(r)
  \/ RunFilters(r)
  \/ RunFiltersDone(r)
  \/ RunPipeline(r)
  \/ RunDone(r)
  \/ RunRedisError(r)

RunsNext == \E r \in RunRequests : RunTrigger(r) \/ RunStep(r)
=============================================================================
