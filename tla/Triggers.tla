------------------------------ MODULE Triggers ------------------------------
(***************************************************************************)
(* The handlers that link events to pipelines, unlink them and list the    *)
(* links of a pipeline or of events (RedisStore.CreateTrigger,             *)
(* DeleteTrigger, DeleteAllTriggersByPipeline, GetPipelineTriggers and     *)
(* GetEventTriggers of pkg/backend/redis.go, behind the handlers of        *)
(* pkg/controller/trigger.go).                                             *)
(*                                                                         *)
(* Every REST request is served by a goroutine of its own.  A request of   *)
(* TriggerRequests goes through its handler one remote call at a time: one *)
(* action per Redis command that reads, per Redis transaction and per call *)
(* of the Codefresh API, so that requests interleave between these.        *)
(* A call may fail when its service is in Faults; an EXEC that fails may   *)
(* or may not have been executed.                                          *)
(***************************************************************************)
EXTENDS RedisStore

CONSTANTS
  TriggerRequests,  \* goroutines serving requests about triggers
  TriggerFaults,    \* the services that may fail: "redis", "cfapi", "crash"
  Globs             \* Globs[e]: the events whose URI the URI of e matches in KEYS,
                    \* where *, ?, [..] and \ are special (external)

\* A URI ends with the hash of its account, which is hexadecimal: what it
\* matches ends with the same hash.  A "[" that is not closed is excluded.
ASSUME GlobsAssumption ==
  /\ Globs \in [Events -> SUBSET Events]
  /\ \A e \in Events : \A f \in Globs[e] : EventAccount[f] = EventAccount[e]
ASSUME TriggerFaultsAssumption == TriggerFaults \subseteq {"redis", "cfapi", "crash"}

VARIABLES
  cfapi,    \* pipelines that exist in Codefresh (external)
  pc,       \* the next call of the request's handler
  req,      \* the arguments of the request
  todo,     \* events the handler's loop has still to visit
  listing,  \* the triggers a listing has collected
  reply     \* how the last handler of the goroutine ended

triggerLocals == <<pc, req, todo, listing, reply>>
triggerVars == <<redis, cfapi, triggerLocals>>

NoRequest == [op |-> "none"]

\* event is also the loop variable of GetPipelineTriggers and of
\* DeleteAllTriggersByPipeline.
RequestRecord ==
  [op: {"CreateTrigger", "DeleteTrigger", "DeleteAllTriggersByPipeline",
        "GetPipelineTriggers", "GetEventTriggers", "GetTriggers"},
   account: Accounts, event: Events, pipeline: Pipelines,
   filters: FilterMaps, withEvent: BOOLEAN]

Reply == {"none", "ok", "not found", "error", "reset"}

TriggerPC ==
  {"idle", "create check", "create exec", "delete check", "delete exec",
   "list exists", "list range", "list next", "list event exists",
   "list event get", "delete next", "keys", "public keys", "list key"}

TriggerLocalsTypeOK ==
  /\ pc \in [TriggerRequests -> TriggerPC]
  /\ req \in [TriggerRequests -> RequestRecord \cup {NoRequest}]
  /\ \A r \in TriggerRequests : pc[r] # "idle" => req[r] \in RequestRecord
  /\ todo \in [TriggerRequests -> SUBSET Events]
  /\ listing \in [TriggerRequests -> SUBSET (Events \X Pipelines)]
  /\ reply \in [TriggerRequests -> Reply]

TriggersTypeOK ==
  /\ RedisTypeOK
  /\ cfapi \subseteq Pipelines
  /\ TriggerLocalsTypeOK

TriggerLocalsInit ==
  /\ pc = [r \in TriggerRequests |-> "idle"]
  /\ req = [r \in TriggerRequests |-> NoRequest]
  /\ todo = [r \in TriggerRequests |-> {}]
  /\ listing = [r \in TriggerRequests |-> {}]
  /\ reply = [r \in TriggerRequests |-> "none"]

\* Redis may hold any events; triggers are made by the handlers.
TriggersInit ==
  /\ events \in [Events -> Secrets \cup {NoEvent}]
  /\ triggers = [e \in Events |-> {}]
  /\ pipelines = [p \in Pipelines |-> {}]
  /\ filters = [link \in Events \X Pipelines |-> NoFilters]
  /\ cfapi = Pipelines
  /\ TriggerLocalsInit

-----------------------------------------------------------------------------
(* Control of one request *)

\* As Begin, with the arguments not taken over.
BeginStale(r, q, next) ==
  /\ pc' = [pc EXCEPT ![r] = next]
  /\ reply' = [reply EXCEPT ![r] = "none"]
  /\ UNCHANGED <<req, todo, listing>>

\* The handler starts with request q and continues at next.
Begin(r, q, next) ==
  /\ pc' = [pc EXCEPT ![r] = next]
  /\ req' = [req EXCEPT ![r] = q]
  /\ reply' = [reply EXCEPT ![r] = "none"]
  /\ UNCHANGED <<todo, listing>>

Goto(r, next) ==
  /\ pc' = [pc EXCEPT ![r] = next]
  /\ UNCHANGED <<req, todo, listing, reply>>

\* The handler returns.
Return(r, result) ==
  /\ pc' = [pc EXCEPT ![r] = "idle"]
  /\ req' = [req EXCEPT ![r] = NoRequest]
  /\ todo' = [todo EXCEPT ![r] = {}]
  /\ listing' = [listing EXCEPT ![r] = {}]
  /\ reply' = [reply EXCEPT ![r] = result]

\* What GetPipeline can answer: a pipeline of another account comes back as
\* ErrPipelineNoMatch, or as an error of cfapi when the account is part of the
\* path (internal API); an unknown pipeline or a failed call is an error.
GetPipelineResults(account, p) ==
  (IF p \notin cfapi THEN {"error"}
   ELSE IF PipelineAccount[p] = account THEN {"found"}
   ELSE {"no match", "error"})
  \cup (IF "cfapi" \in TriggerFaults THEN {"error"} ELSE {})

\* What an EXEC that was executed answers: the answer may be lost.
ExecResults == {"ok"} \cup (IF "redis" \in TriggerFaults THEN {"error"} ELSE {})

-----------------------------------------------------------------------------
(* CreateTrigger *)

CreateTrigger(r) ==
  /\ pc[r] = "idle"
  /\ \E account \in Accounts, e \in Events, p \in Pipelines, f \in FilterMaps :
       IF MatchesAccount(account, e)
         THEN Begin(r, [op |-> "CreateTrigger", account |-> account, event |-> e,
                        pipeline |-> p, filters |-> f, withEvent |-> FALSE],
                    "create check")
         ELSE Return(r, "not found")
  /\ UNCHANGED <<redis, cfapi>>

\* As CreateTriggerGetPipeline, with errors other than "no match" ignored, as
\* DeleteTrigger ignores them.
CreateTriggerIgnoreErrors(r) ==
  /\ pc[r] = "create check"
  /\ \E result \in GetPipelineResults(req[r].account, req[r].pipeline) :
       IF result # "no match" THEN Goto(r, "create exec") ELSE Return(r, "error")
  /\ UNCHANGED <<redis, cfapi>>

\* As CreateTriggerGetPipeline, with the call repeated until the pipeline is found.
CreateTriggerRetry(r) ==
  /\ pc[r] = "create check"
  /\ "found" \in GetPipelineResults(req[r].account, req[r].pipeline)
  /\ Goto(r, "create exec")
  /\ UNCHANGED <<redis, cfapi>>

\* Every error of GetPipeline ends the request.
CreateTriggerGetPipeline(r) ==
  /\ pc[r] = "create check"
  /\ \E result \in GetPipelineResults(req[r].account, req[r].pipeline) :
       IF result = "found" THEN Goto(r, "create exec") ELSE Return(r, "error")
  /\ UNCHANGED <<redis, cfapi>>

CreateTriggerExec(r) ==
  /\ pc[r] = "create exec"
  /\ StoreTrigger(req[r].event, req[r].pipeline, req[r].filters)
  /\ \E result \in ExecResults : Return(r, result)
  /\ UNCHANGED cfapi

-----------------------------------------------------------------------------
(* DeleteTrigger, called by its handler and by DeleteAllTriggersByPipeline *)

DeleteTrigger(r) ==
  /\ pc[r] = "idle"
  /\ \E account \in Accounts, e \in Events, p \in Pipelines :
       IF MatchesAccount(account, e)
         THEN Begin(r, [op |-> "DeleteTrigger", account |-> account, event |-> e,
                        pipeline |-> p, filters |-> NoFilters, withEvent |-> FALSE],
                    "delete check")
         ELSE Return(r, "not found")
  /\ UNCHANGED <<redis, cfapi>>

\* As DeleteTriggerReturn, with the loop of DeleteAll left after one trigger.
DeleteTriggerReturnAlways(r, result) == Return(r, result)

\* DeleteTrigger returns to its handler, which replies, or to the loop of
\* DeleteAllTriggersByPipeline, which ignores the result.
DeleteTriggerReturn(r, result) ==
  IF req[r].op = "DeleteTrigger" THEN Return(r, result) ELSE Goto(r, "delete next")

\* Only a pipeline known to be another account's stops the deletion.
DeleteTriggerGetPipeline(r) ==
  /\ pc[r] = "delete check"
  /\ \E result \in GetPipelineResults(req[r].account, req[r].pipeline) :
       IF result = "no match" THEN DeleteTriggerReturn(r, "error")
                              ELSE Goto(r, "delete exec")
  /\ UNCHANGED <<redis, cfapi>>

DeleteTriggerExec(r) ==
  /\ pc[r] = "delete exec"
  /\ RemoveTrigger(req[r].event, req[r].pipeline)
  /\ \E result \in ExecResults : DeleteTriggerReturn(r, result)
  /\ UNCHANGED cfapi

-----------------------------------------------------------------------------
(* GetPipelineTriggers, called by its handler and by                       *)
(* DeleteAllTriggersByPipeline                                             *)

GetPipelineTriggers(r) ==
  /\ pc[r] = "idle"
  /\ \E account \in Accounts, p \in Pipelines, withEvent \in BOOLEAN :
       Begin(r, [op |-> "GetPipelineTriggers", account |-> account,
                 event |-> AnyEvent, pipeline |-> p, filters |-> NoFilters,
                 withEvent |-> withEvent], "list exists")
  /\ UNCHANGED <<redis, cfapi>>

DeleteAllTriggersByPipeline(r) ==
  /\ pc[r] = "idle"
  /\ \E account \in Accounts, p \in Pipelines :
       Begin(r, [op |-> "DeleteAllTriggersByPipeline", account |-> account,
                 event |-> AnyEvent, pipeline |-> p, filters |-> NoFilters,
                 withEvent |-> TRUE], "list exists")
  /\ UNCHANGED <<redis, cfapi>>

\* Without the pipeline key both callers are done: no triggers, no error.
ListPipelineExists(r) ==
  /\ pc[r] = "list exists"
  /\ IF PipelineExists(req[r].pipeline) THEN Goto(r, "list range") ELSE Return(r, "ok")
  /\ UNCHANGED <<redis, cfapi>>

\* As ListPipelineEvents, with the public events left out.
ListPrivateEvents(r) ==
  /\ pc[r] = "list range"
  /\ todo' = [todo EXCEPT ![r] =
                {e \in pipelines[req[r].pipeline] : EventAccount[e] = req[r].account}]
  /\ pc' = [pc EXCEPT ![r] = "list next"]
  /\ UNCHANGED <<redis, cfapi, req, listing, reply>>

\* Of the events of the pipeline the loop looks at the account's and the public ones.
ListPipelineEvents(r) ==
  /\ pc[r] = "list range"
  /\ todo' = [todo EXCEPT ![r] =
                {e \in pipelines[req[r].pipeline] : MatchesAccount(req[r].account, e)}]
  /\ pc' = [pc EXCEPT ![r] = "list next"]
  /\ UNCHANGED <<redis, cfapi, req, listing, reply>>

\* HGETALL of the filters of the next trigger.
ListFilters(r) ==
  /\ pc[r] = "list next"
  /\ \E e \in todo[r] :
       /\ todo' = [todo EXCEPT ![r] = @ \ {e}]
       /\ IF req[r].withEvent
            THEN /\ pc' = [pc EXCEPT ![r] = "list event exists"]
                 /\ req' = [req EXCEPT ![r].event = e]
                 /\ UNCHANGED listing
            ELSE /\ listing' = [listing EXCEPT ![r] = @ \cup {<<e, req[r].pipeline>>}]
                 /\ UNCHANGED <<pc, req>>
  /\ UNCHANGED <<redis, cfapi, reply>>

\* GetEvent of the trigger's event: an event that is missing fails the listing.
ListEventExists(r) ==
  /\ pc[r] = "list event exists"
  /\ IF EventExists(req[r].event) THEN Goto(r, "list event get") ELSE Return(r, "error")
  /\ UNCHANGED <<redis, cfapi>>

ListEventGet(r) ==
  /\ pc[r] = "list event get"
  /\ IF EventExists(req[r].event)
       THEN /\ pc' = [pc EXCEPT ![r] = "list next"]
            /\ listing' = [listing EXCEPT ![r] =
                             @ \cup {<<req[r].event, req[r].pipeline>>}]
            /\ UNCHANGED <<req, todo, reply>>
       ELSE Return(r, "error")
  /\ UNCHANGED <<redis, cfapi>>

\* The listing is complete: it is the reply, or what DeleteAll goes through.
ListDone(r) ==
  /\ pc[r] = "list next"
  /\ todo[r] = {}
  /\ IF req[r].op = "GetPipelineTriggers"
       THEN Return(r, "ok")
       ELSE /\ pc' = [pc EXCEPT ![r] = "delete next"]
            /\ todo' = [todo EXCEPT ![r] = {trigger[1] : trigger \in listing[r]}]
            /\ listing' = [listing EXCEPT ![r] = {}]
            /\ UNCHANGED <<req, reply>>
  /\ UNCHANGED <<redis, cfapi>>

\* The loop of DeleteAllTriggersByPipeline calls DeleteTrigger (the account
\* matches every listed event), and replies 200 whatever the calls returned.
DeleteNext(r) ==
  /\ pc[r] = "delete next"
  /\ \E e \in todo[r] :
       /\ pc' = [pc EXCEPT ![r] = "delete check"]
       /\ req' = [req EXCEPT ![r].event = e]
       /\ todo' = [todo EXCEPT ![r] = @ \ {e}]
       /\ UNCHANGED <<redis, cfapi, listing, reply>>

DeleteAllDone(r) ==
  /\ pc[r] = "delete next"
  /\ todo[r] = {}
  /\ Return(r, "ok")
  /\ UNCHANGED <<redis, cfapi>>

-----------------------------------------------------------------------------
(* GetEventTriggers, called with the URI of an event, or with "*" for      *)
(* GetTriggers: no errors for events that are missing                      *)

GetEventTriggers(r) ==
  /\ pc[r] = "idle"
  /\ \E account \in Accounts, e \in Events, op \in {"GetEventTriggers", "GetTriggers"} :
       /\ op = "GetTriggers" => e = AnyEvent
       /\ Begin(r, [op |-> op, account |-> account, event |-> e, pipeline |-> AnyPipeline,
                    filters |-> NoFilters, withEvent |-> FALSE], "keys")
  /\ UNCHANGED <<redis, cfapi>>

\* The trigger keys KEYS finds: getTriggerKey adds the hash of the account to
\* "*", and to a URI that ends neither with it nor with the public one.  KEYS
\* takes the URI as a pattern, so the keys of other events may be among them.
TriggerKeys(r, account) ==
  {e \in Events :
     /\ triggers[e] # {}
     /\ \/ req[r].op = "GetTriggers" /\ EventAccount[e] = account
        \/ /\ req[r].op = "GetEventTriggers"
           /\ MatchesAccount(account, req[r].event)
           /\ e \in Globs[req[r].event]}

GetAccountTriggerKeys(r) ==
  /\ pc[r] = "keys"
  /\ todo' = [todo EXCEPT ![r] = TriggerKeys(r, req[r].account)]
  /\ pc' = [pc EXCEPT ![r] = "public keys"]
  /\ UNCHANGED <<redis, cfapi, req, listing, reply>>

\* As GetPublicTriggerKeys, with the public keys not merged in.
GetPublicTriggerKeysUnmerged(r) ==
  /\ pc[r] = "public keys"
  /\ Goto(r, "list key")
  /\ UNCHANGED <<redis, cfapi>>

\* MergeStrings of the keys found before and of the public ones.
GetPublicTriggerKeys(r) ==
  /\ pc[r] = "public keys"
  /\ todo' = [todo EXCEPT ![r] = @ \cup TriggerKeys(r, Public)]
  /\ pc' = [pc EXCEPT ![r] = "list key"]
  /\ UNCHANGED <<redis, cfapi, req, listing, reply>>

\* ZRANGE of the next key: nothing when the key is gone by now.  The HGETALL of
\* the filters of every pipeline only adds them to the answer.
ListKeyPipelines(r) ==
  /\ pc[r] = "list key"
  /\ \E e \in todo[r] :
       /\ todo' = [todo EXCEPT ![r] = @ \ {e}]
       /\ listing' = [listing EXCEPT ![r] = @ \cup ({e} \X triggers[e])]
  /\ UNCHANGED <<redis, cfapi, pc, req, reply>>

ListKeysDone(r) ==
  /\ pc[r] = "list key"
  /\ todo[r] = {}
  /\ Return(r, "ok")
  /\ UNCHANGED <<redis, cfapi>>

-----------------------------------------------------------------------------
(* Failures *)

\* A command that reads, or one before EXEC in a transaction, fails.
RedisError(r) ==
  /\ "redis" \in TriggerFaults
  /\ \/ /\ pc[r] \in {"create exec", "list exists", "list range", "list event exists",
                      "list event get", "keys", "public keys"}
        /\ Return(r, "error")
     \/ /\ pc[r] = "list next" /\ todo[r] # {}
        /\ Return(r, "error")
     \/ /\ pc[r] = "list key" /\ (todo[r] # {} \/ listing[r] # {})
        /\ Return(r, "error")
     \/ /\ pc[r] = "delete exec"
        /\ DeleteTriggerReturn(r, "error")
  /\ UNCHANGED <<redis, cfapi>>

\* The process ends (a pod restart, or log.Fatal when a connection to Redis
\* cannot be dialled) and every request in flight with it; Redis keeps its keys.
TriggersReset ==
  /\ pc' = [r \in TriggerRequests |-> "idle"]
  /\ req' = [r \in TriggerRequests |-> NoRequest]
  /\ todo' = [r \in TriggerRequests |-> {}]
  /\ listing' = [r \in TriggerRequests |-> {}]
  /\ reply' = [r \in TriggerRequests |-> IF pc[r] = "idle" THEN reply[r] ELSE "reset"]

TriggersCrash ==
  /\ "crash" \in TriggerFaults
  /\ TriggersReset
  /\ UNCHANGED <<redis, cfapi>>

\* The pipeline is deleted in Codefresh.  UIDs are not used again.
PipelineDeleted(p) ==
  /\ p \in cfapi
  /\ cfapi' = cfapi \ {p}
  /\ UNCHANGED <<redis, triggerLocals>>

-----------------------------------------------------------------------------
TriggerArrives(r) ==
  \/ CreateTrigger(r)
  \/ DeleteTrigger(r)
  \/ DeleteAllTriggersByPipeline(r)
  \/ GetPipelineTriggers(r)
  \/ GetEventTriggers(r)

TriggerStep(r) ==
  \/ CreateTriggerGetPipeline(r)
  \/ CreateTriggerExec(r)
  \/ DeleteTriggerGetPipeline(r)
  \/ DeleteTriggerExec(r)
  \/ ListPipelineExists(r)
  \/ ListPipelineEvents(r)
  \/ ListFilters(r)
  \/ ListEventExists(r)
  \/ ListEventGet(r)
  \/ ListDone(r)
  \/ DeleteNext(r)
  \/ DeleteAllDone(r)
  \/ GetAccountTriggerKeys(r)
  \/ GetPublicTriggerKeys(r)
  \/ ListKeyPipelines(r)
  \/ ListKeysDone(r)
  \/ RedisError(r)

TriggersNext ==
  \/ \E r \in TriggerRequests : TriggerArrives(r) \/ TriggerStep(r)
  \/ \E p \in Pipelines : PipelineDeleted(p)
  \/ TriggersCrash

TriggersSpec == TriggersInit /\ [][TriggersNext]_triggerVars

-----------------------------------------------------------------------------
(* Properties *)

\* A request that is about to link has passed both checks of CreateTrigger.
CreatePermitted ==
  \A r \in TriggerRequests :
    /\ pc[r] \in {"create check", "create exec"} =>
         MatchesAccount(req[r].account, req[r].event)
    /\ pc[r] = "create exec" => PipelineAccount[req[r].pipeline] = req[r].account

\* Without DeleteEvent the two sets of keys say the same: MULTI .. EXEC of
\* CreateTrigger and DeleteTrigger write them together.
IndexesAgree ==
  \A e \in Events, p \in Pipelines : p \in triggers[e] <=> e \in pipelines[p]

\* What the handlers do to the keys of pipelines and filters is what
\* TriggerLinks promises of links: no interleaving shows half a link, leaves
\* filters without one, or links across accounts.
Abstract == INSTANCE TriggerLinks WITH links <- Links, linkFilters <- filters

ImplementsTriggerLinks == Abstract!LinksSpec

\* Every request is answered: DeleteAll's two loops end although links come
\* and go while they run.
RequestsAnswered ==
  \A r \in TriggerRequests : pc[r] # "idle" ~> pc[r] = "idle"
=============================================================================
