--------------------------- MODULE TriggersProofs ---------------------------
(***************************************************************************)
(* The handlers of Triggers keep Redis consistent and accounts apart, and  *)
(* implement TriggerLinks.                                                 *)
(***************************************************************************)
EXTENDS Triggers, TLAPS

\* What is known of the locals of the handlers.
LocalsInv == TriggerLocalsTypeOK /\ CreatePermitted

-----------------------------------------------------------------------------
(* Hashes of filters *)

\* The empty hash is a hash of filters.
LEMMA NoFiltersType == NoFilters \in FilterMaps
<1>1. NoFilters \in [{} -> Expressions]
  BY DEF NoFilters, NoFields
<1>2. {} \in SUBSET FilterNames
  OBVIOUS
<1> QED
  BY <1>1, <1>2 DEF FilterMaps

\* HSET of the filters of a request over those that are stored.
LEMMA FilterMapsClosed ==
  ASSUME NEW new \in FilterMaps, NEW old \in FilterMaps
  PROVE  HSet(old, new) \in FilterMaps
<1>1. PICK names1 \in SUBSET FilterNames : new \in [names1 -> Expressions]
  BY DEF FilterMaps
<1>2. PICK names2 \in SUBSET FilterNames : old \in [names2 -> Expressions]
  BY DEF FilterMaps
<1>3. HSet(old, new) \in [names2 \cup names1 -> Expressions]
  BY <1>1, <1>2 DEF HSet
<1>4. names2 \cup names1 \in SUBSET FilterNames
  OBVIOUS
<1> QED
  BY <1>3, <1>4 DEF FilterMaps

-----------------------------------------------------------------------------
(* Control of one request *)

LEMMA AnyEventType == AnyEvent \in Events
  BY EventsNonEmpty DEF AnyEvent

LEMMA BeginLocals ==
  ASSUME LocalsInv, NEW r \in TriggerRequests, NEW q \in RequestRecord,
         NEW next \in TriggerPC \ {"idle", "create exec"},
         next = "create check" => MatchesAccount(q.account, q.event),
         Begin(r, q, next)
  PROVE  LocalsInv'
<1>1. TriggerLocalsTypeOK'
  BY DEF LocalsInv, TriggerLocalsTypeOK, Begin, Reply
<1>2. CreatePermitted'
  BY DEF LocalsInv, TriggerLocalsTypeOK, CreatePermitted, Begin, MatchesAccount
<1> QED
  BY <1>1, <1>2 DEF LocalsInv

LEMMA GotoLocals ==
  ASSUME LocalsInv, NEW r \in TriggerRequests, pc[r] # "idle",
         NEW next \in TriggerPC \ {"create check"},
         next = "create exec" =>
           /\ pc[r] = "create check"
           /\ PipelineAccount[req[r].pipeline] = req[r].account,
         Goto(r, next)
  PROVE  LocalsInv'
<1>1. TriggerLocalsTypeOK'
  BY DEF LocalsInv, TriggerLocalsTypeOK, Goto
<1>2. CreatePermitted'
  BY DEF LocalsInv, TriggerLocalsTypeOK, CreatePermitted, Goto, MatchesAccount
<1> QED
  BY <1>1, <1>2 DEF LocalsInv

LEMMA ReturnLocals ==
  ASSUME LocalsInv, NEW r \in TriggerRequests, NEW result \in Reply, Return(r, result)
  PROVE  LocalsInv'
<1>1. TriggerLocalsTypeOK'
  BY DEF LocalsInv, TriggerLocalsTypeOK, Return, TriggerPC
<1>2. CreatePermitted'
  BY DEF LocalsInv, TriggerLocalsTypeOK, CreatePermitted, Return, MatchesAccount
<1> QED
  BY <1>1, <1>2 DEF LocalsInv

-----------------------------------------------------------------------------
(* The transactions on links, and the keys they keep consistent *)

LEMMA StoreTriggerType ==
  ASSUME RedisTypeOK, NEW e \in Events, NEW p \in Pipelines, NEW f \in FilterMaps,
         StoreTrigger(e, p, f)
  PROVE  RedisTypeOK'
<1>1. HSet(filters[<<e, p>>], f) \in FilterMaps
  BY FilterMapsClosed DEF RedisTypeOK
<1> QED
  BY <1>1 DEF RedisTypeOK, StoreTrigger

LEMMA RemoveTriggerType ==
  ASSUME RedisTypeOK, NEW e \in Events, NEW p \in Pipelines, RemoveTrigger(e, p)
  PROVE  RedisTypeOK'
  BY NoFiltersType DEF RedisTypeOK, RemoveTrigger

Consistent == TriggersMirrored /\ FiltersBelongToLinks

LEMMA StoreTriggerConsistent ==
  ASSUME RedisTypeOK, Consistent, NEW e \in Events, NEW p \in Pipelines, NEW f,
         StoreTrigger(e, p, f)
  PROVE  Consistent'
  BY DEF RedisTypeOK, StoreTrigger, Consistent, TriggersMirrored, FiltersBelongToLinks

LEMMA RemoveTriggerConsistent ==
  ASSUME RedisTypeOK, Consistent, NEW e \in Events, NEW p \in Pipelines, RemoveTrigger(e, p)
  PROVE  Consistent'
  BY DEF RedisTypeOK, RemoveTrigger, Consistent, TriggersMirrored, FiltersBelongToLinks

-----------------------------------------------------------------------------
(* What the handlers write: links that are permitted, and nothing else *)

StoreInv == RedisTypeOK /\ Consistent /\ AccountIsolation

\* A transaction of CreateTrigger between an event and a pipeline that may be
\* linked, or one of DeleteTrigger.
LinkStep ==
  \E e \in Events, p \in Pipelines :
    \/ RemoveTrigger(e, p)
    \/ /\ EventAccount[e] \in {PipelineAccount[p], Public}
       /\ \E f \in FilterMaps : StoreTrigger(e, p, f)

LEMMA StoreUnchanged ==
  ASSUME StoreInv, UNCHANGED redis
  PROVE  StoreInv'
  BY DEF StoreInv, redis, RedisTypeOK, Consistent, TriggersMirrored, FiltersBelongToLinks,
         AccountIsolation

LEMMA LinkStepInv ==
  ASSUME StoreInv, LinkStep
  PROVE  StoreInv'
<1>1. PICK e \in Events, p \in Pipelines :
        \/ RemoveTrigger(e, p)
        \/ /\ EventAccount[e] \in {PipelineAccount[p], Public}
           /\ \E f \in FilterMaps : StoreTrigger(e, p, f)
  BY DEF LinkStep
<1>2. CASE RemoveTrigger(e, p)
  <2>1. RedisTypeOK' /\ Consistent'
    BY <1>2, RemoveTriggerType, RemoveTriggerConsistent DEF StoreInv
  <2>2. AccountIsolation'
    BY <1>2 DEF StoreInv, RedisTypeOK, AccountIsolation, RemoveTrigger
  <2> QED
    BY <2>1, <2>2 DEF StoreInv
<1>3. ASSUME EventAccount[e] \in {PipelineAccount[p], Public},
             NEW f \in FilterMaps, StoreTrigger(e, p, f)
      PROVE  StoreInv'
  <2>1. RedisTypeOK' /\ Consistent'
    BY <1>3, StoreTriggerType, StoreTriggerConsistent DEF StoreInv
  <2>2. AccountIsolation'
    BY <1>3 DEF StoreInv, RedisTypeOK, AccountIsolation, StoreTrigger
  <2> QED
    BY <2>1, <2>2 DEF StoreInv
<1> QED
  BY <1>1, <1>2, <1>3

-----------------------------------------------------------------------------
(* One lemma per group of actions *)

\* The handlers start, or refuse an event of another account.
LEMMA ArrivesLocals ==
  ASSUME LocalsInv, NEW r \in TriggerRequests, TriggerArrives(r)
  PROVE  LocalsInv' /\ UNCHANGED <<redis, cfapi>>
<1>1. ASSUME CreateTrigger(r) PROVE LocalsInv'
  <2>1. PICK account \in Accounts, e \in Events, p \in Pipelines, f \in FilterMaps :
          IF MatchesAccount(account, e)
            THEN Begin(r, [op |-> "CreateTrigger", account |-> account, event |-> e,
                           pipeline |-> p, filters |-> f, withEvent |-> FALSE],
                       "create check")
            ELSE Return(r, "not found")
    BY <1>1 DEF CreateTrigger
  <2>2. CASE MatchesAccount(account, e)
    <3> DEFINE q == [op |-> "CreateTrigger", account |-> account, event |-> e,
                     pipeline |-> p, filters |-> f, withEvent |-> FALSE]
    <3>1. q \in RequestRecord /\ MatchesAccount(q.account, q.event)
      BY <2>2 DEF RequestRecord
    <3>2. Begin(r, q, "create check")
      BY <2>1, <2>2
    <3> HIDE DEF q
    <3> QED
      BY <3>1, <3>2, BeginLocals DEF TriggerPC
  <2>3. CASE ~MatchesAccount(account, e)
    BY <2>1, <2>3, ReturnLocals DEF Reply
  <2> QED
    BY <2>2, <2>3
<1>2. ASSUME DeleteTrigger(r) PROVE LocalsInv'
  <2>1. PICK account \in Accounts, e \in Events, p \in Pipelines :
          IF MatchesAccount(account, e)
            THEN Begin(r, [op |-> "DeleteTrigger", account |-> account, event |-> e,
                           pipeline |-> p, filters |-> NoFilters, withEvent |-> FALSE],
                       "delete check")
            ELSE Return(r, "not found")
    BY <1>2 DEF DeleteTrigger
  <2>2. CASE MatchesAccount(account, e)
    <3> DEFINE q == [op |-> "DeleteTrigger", account |-> account, event |-> e,
                     pipeline |-> p, filters |-> NoFilters, withEvent |-> FALSE]
    <3>1. q \in RequestRecord
      BY NoFiltersType DEF RequestRecord
    <3>2. Begin(r, q, "delete check")
      BY <2>1, <2>2
    <3> HIDE DEF q
    <3> QED
      BY <3>1, <3>2, BeginLocals DEF TriggerPC
  <2>3. CASE ~MatchesAccount(account, e)
    BY <2>1, <2>3, ReturnLocals DEF Reply
  <2> QED
    BY <2>2, <2>3
<1>3. ASSUME DeleteAllTriggersByPipeline(r) PROVE LocalsInv'
  <2>1. PICK account \in Accounts, p \in Pipelines :
          Begin(r, [op |-> "DeleteAllTriggersByPipeline", account |-> account,
                    event |-> AnyEvent, pipeline |-> p, filters |-> NoFilters,
                    withEvent |-> TRUE], "list exists")
    BY <1>3 DEF DeleteAllTriggersByPipeline
  <2> DEFINE q == [op |-> "DeleteAllTriggersByPipeline", account |-> account,
                   event |-> AnyEvent, pipeline |-> p, filters |-> NoFilters,
                   withEvent |-> TRUE]
  <2>2. q \in RequestRecord
    BY NoFiltersType, AnyEventType DEF RequestRecord
  <2>3. Begin(r, q, "list exists")
    BY <2>1
  <2> HIDE DEF q
  <2> QED
    BY <2>2, <2>3, BeginLocals DEF TriggerPC
<1>4. ASSUME GetPipelineTriggers(r) PROVE LocalsInv'
  <2>1. PICK account \in Accounts, p \in Pipelines, withEvent \in BOOLEAN :
          Begin(r, [op |-> "GetPipelineTriggers", account |-> account,
                    event |-> AnyEvent, pipeline |-> p, filters |-> NoFilters,
                    withEvent |-> withEvent], "list exists")
    BY <1>4 DEF GetPipelineTriggers
  <2> DEFINE q == [op |-> "GetPipelineTriggers", account |-> account,
                   event |-> AnyEvent, pipeline |-> p, filters |-> NoFilters,
                   withEvent |-> withEvent]
  <2>2. q \in RequestRecord
    BY NoFiltersType, AnyEventType DEF RequestRecord
  <2>3. Begin(r, q, "list exists")
    BY <2>1
  <2> HIDE DEF q
  <2> QED
    BY <2>2, <2>3, BeginLocals DEF TriggerPC
<1>5. ASSUME GetEventTriggers(r) PROVE LocalsInv'
  <2>1. PICK account \in Accounts, e \in Events, op \in {"GetEventTriggers", "GetTriggers"} :
          Begin(r, [op |-> op, account |-> account, event |-> e, pipeline |-> AnyPipeline,
                    filters |-> NoFilters, withEvent |-> FALSE], "keys")
    BY <1>5 DEF GetEventTriggers
  <2> DEFINE q == [op |-> op, account |-> account, event |-> e, pipeline |-> AnyPipeline,
                   filters |-> NoFilters, withEvent |-> FALSE]
  <2>2. q \in RequestRecord
    BY NoFiltersType, PipelinesNonEmpty DEF RequestRecord, AnyPipeline
  <2>3. Begin(r, q, "keys")
    BY <2>1
  <2> HIDE DEF q
  <2> QED
    BY <2>2, <2>3, BeginLocals DEF TriggerPC
<1>6. UNCHANGED <<redis, cfapi>>
  BY DEF TriggerArrives, CreateTrigger, DeleteTrigger, DeleteAllTriggersByPipeline,
         GetPipelineTriggers, GetEventTriggers
<1> QED
  BY <1>1, <1>2, <1>3, <1>4, <1>5, <1>6 DEF TriggerArrives

\* The answers of GetPipeline: only the owner's pipeline is "found".
LEMMA GetPipelineFound ==
  ASSUME NEW account, NEW p,
         NEW result \in GetPipelineResults(account, p)
  PROVE  result = "found" => PipelineAccount[p] = account
  BY DEF GetPipelineResults

LEMMA DeleteReturnLocals ==
  ASSUME LocalsInv, NEW r \in TriggerRequests, pc[r] # "idle", NEW result \in Reply,
         DeleteTriggerReturn(r, result)
  PROVE  LocalsInv'
  BY ReturnLocals, GotoLocals DEF DeleteTriggerReturn, TriggerPC

\* The reads of CreateTrigger and DeleteTrigger.
LEMMA CheckLocals ==
  ASSUME LocalsInv, NEW r \in TriggerRequests,
         CreateTriggerGetPipeline(r) \/ DeleteTriggerGetPipeline(r)
  PROVE  LocalsInv' /\ UNCHANGED redis
<1>1. ASSUME CreateTriggerGetPipeline(r) PROVE LocalsInv'
  <2>1. PICK result \in GetPipelineResults(req[r].account, req[r].pipeline) :
          IF result = "found" THEN Goto(r, "create exec") ELSE Return(r, "error")
    BY <1>1 DEF CreateTriggerGetPipeline
  <2>2. CASE result = "found"
    <3>1. PipelineAccount[req[r].pipeline] = req[r].account
      BY <2>2, GetPipelineFound
    <3> QED
      BY <1>1, <2>1, <2>2, <3>1, GotoLocals DEF CreateTriggerGetPipeline, TriggerPC
  <2>3. CASE result # "found"
    BY <2>1, <2>3, ReturnLocals DEF Reply
  <2> QED
    BY <2>2, <2>3
<1>2. ASSUME DeleteTriggerGetPipeline(r) PROVE LocalsInv'
  <2>1. pc[r] = "delete check"
        /\ (DeleteTriggerReturn(r, "error") \/ Goto(r, "delete exec"))
    BY <1>2 DEF DeleteTriggerGetPipeline
  <2> QED
    BY <2>1, DeleteReturnLocals, GotoLocals DEF Reply, TriggerPC
<1> QED
  BY <1>1, <1>2 DEF CreateTriggerGetPipeline, DeleteTriggerGetPipeline, redis

\* The two transactions.
LEMMA ExecLinks ==
  ASSUME LocalsInv, NEW r \in TriggerRequests,
         CreateTriggerExec(r) \/ DeleteTriggerExec(r)
  PROVE  LocalsInv' /\ LinkStep
<1>1. ASSUME NEW result \in ExecResults PROVE result \in Reply
  BY DEF ExecResults, Reply
<1>2. ASSUME CreateTriggerExec(r) PROVE LocalsInv' /\ LinkStep
  <2>1. LocalsInv'
    BY <1>1, <1>2, ReturnLocals DEF CreateTriggerExec
  <2>2. req[r] \in RequestRecord
    BY <1>2 DEF CreateTriggerExec, LocalsInv, TriggerLocalsTypeOK
  <2>3. /\ req[r].event \in Events
        /\ req[r].pipeline \in Pipelines
        /\ req[r].filters \in FilterMaps
    BY <2>2 DEF RequestRecord
  <2>4. EventAccount[req[r].event] \in {PipelineAccount[req[r].pipeline], Public}
    BY <1>2 DEF CreateTriggerExec, LocalsInv, CreatePermitted, MatchesAccount
  <2>5. StoreTrigger(req[r].event, req[r].pipeline, req[r].filters)
    BY <1>2 DEF CreateTriggerExec
  <2> QED
    BY <2>1, <2>3, <2>4, <2>5 DEF LinkStep
<1>3. ASSUME DeleteTriggerExec(r) PROVE LocalsInv' /\ LinkStep
  <2>1. LocalsInv'
    BY <1>1, <1>3, DeleteReturnLocals DEF DeleteTriggerExec
  <2>2. req[r] \in RequestRecord
    BY <1>3 DEF DeleteTriggerExec, LocalsInv, TriggerLocalsTypeOK
  <2>3. req[r].event \in Events /\ req[r].pipeline \in Pipelines
    BY <2>2 DEF RequestRecord
  <2>4. RemoveTrigger(req[r].event, req[r].pipeline)
    BY <1>3 DEF DeleteTriggerExec
  <2> QED
    BY <2>1, <2>3, <2>4 DEF LinkStep
<1> QED
  BY <1>2, <1>3
-----------------------------------------------------------------------------
(* The loops *)

\* A step of a loop that goes to next, takes over an event or not, and changes
\* the sets the handler works on.
LEMMA LoopLocals ==
  ASSUME LocalsInv, NEW r \in TriggerRequests, pc[r] # "idle",
         NEW next \in TriggerPC \ {"create check", "create exec"},
         NEW visit \in SUBSET Events, NEW listed \in SUBSET (Events \X Pipelines),
         pc' = [pc EXCEPT ![r] = next],
         req' = req \/ (\E e \in Events : req' = [req EXCEPT ![r].event = e]),
         todo' = [todo EXCEPT ![r] = visit],
         listing' = [listing EXCEPT ![r] = listed],
         reply' = reply
  PROVE  LocalsInv'
<1>1. req' \in [TriggerRequests -> RequestRecord \cup {NoRequest}]
      /\ req'[r] \in RequestRecord
      /\ \A s \in TriggerRequests \ {r} : req'[s] = req[s]
  <2>1. CASE req' = req
    BY <2>1 DEF LocalsInv, TriggerLocalsTypeOK
  <2>2. ASSUME NEW e \in Events, req' = [req EXCEPT ![r].event = e]
        PROVE  <1>1!:
    <3>1. req[r] \in RequestRecord
      BY DEF LocalsInv, TriggerLocalsTypeOK
    <3>2. [req[r] EXCEPT !.event = e] \in RequestRecord
      BY <3>1 DEF RequestRecord
    <3> QED
      BY <2>2, <3>2 DEF LocalsInv, TriggerLocalsTypeOK
  <2> QED
    BY <2>1, <2>2
<1>2. TriggerLocalsTypeOK'
  BY <1>1 DEF LocalsInv, TriggerLocalsTypeOK
<1>3. CreatePermitted'
  BY <1>1 DEF LocalsInv, TriggerLocalsTypeOK, CreatePermitted, MatchesAccount
<1> QED
  BY <1>2, <1>3 DEF LocalsInv
LEMMA ListLocals ==
  ASSUME LocalsInv, RedisTypeOK, NEW r \in TriggerRequests,
         \/ ListPipelineExists(r) \/ ListPipelineEvents(r) \/ ListFilters(r)
         \/ ListEventExists(r) \/ ListEventGet(r) \/ ListDone(r)
  PROVE  LocalsInv' /\ UNCHANGED redis
<1>1. ASSUME Return(r, "ok") \/ Return(r, "error") PROVE LocalsInv'
  BY <1>1, ReturnLocals DEF Reply
<1>2. ASSUME pc[r] # "idle", NEW next \in {"list range", "list event get"}, Goto(r, next)
      PROVE  LocalsInv'
  BY <1>2, GotoLocals DEF TriggerPC
<1>3. todo[r] \in SUBSET Events /\ listing[r] \in SUBSET (Events \X Pipelines)
  BY DEF LocalsInv, TriggerLocalsTypeOK
<1>4. todo = [todo EXCEPT ![r] = todo[r]] /\ listing = [listing EXCEPT ![r] = listing[r]]
  BY DEF LocalsInv, TriggerLocalsTypeOK
<1>5. CASE ListPipelineExists(r)
  BY <1>1, <1>2, <1>5 DEF ListPipelineExists, redis
<1>6. CASE ListEventExists(r)
  BY <1>1, <1>2, <1>6 DEF ListEventExists, redis
<1>7. CASE ListPipelineEvents(r)
  <2> DEFINE visit == {e \in pipelines[req[r].pipeline] : MatchesAccount(req[r].account, e)}
  <2>1. visit \in SUBSET Events
    <3>1. req[r].pipeline \in Pipelines
      BY <1>7 DEF ListPipelineEvents, LocalsInv, TriggerLocalsTypeOK, RequestRecord
    <3> QED
      BY <3>1 DEF RedisTypeOK
  <2>2. /\ pc[r] # "idle" /\ pc' = [pc EXCEPT ![r] = "list next"]
        /\ todo' = [todo EXCEPT ![r] = visit]
        /\ UNCHANGED <<redis, req, listing, reply>>
    BY <1>7 DEF ListPipelineEvents
  <2> HIDE DEF visit
  <2> QED
    BY <1>3, <1>4, <2>1, <2>2, LoopLocals DEF TriggerPC
<1>8. CASE ListFilters(r)
  <2>1. PICK e \in todo[r] :
          /\ todo' = [todo EXCEPT ![r] = todo[r] \ {e}]
          /\ \/ /\ pc' = [pc EXCEPT ![r] = "list event exists"]
                /\ req' = [req EXCEPT ![r].event = e]
                /\ UNCHANGED listing
             \/ /\ listing' = [listing EXCEPT ![r] = listing[r] \cup {<<e, req[r].pipeline>>}]
                /\ UNCHANGED <<pc, req>>
    BY <1>8 DEF ListFilters
  <2>2. pc[r] = "list next" /\ reply' = reply /\ UNCHANGED redis
    BY <1>8 DEF ListFilters
  <2>3. e \in Events /\ req[r].pipeline \in Pipelines
    BY <1>3, <2>1, <2>2 DEF LocalsInv, TriggerLocalsTypeOK, RequestRecord
  <2>4. todo' = [todo EXCEPT ![r] = todo[r] \ {e}] /\ todo[r] \ {e} \in SUBSET Events
    BY <1>3, <2>1
  <2>5. CASE pc' = [pc EXCEPT ![r] = "list event exists"]
             /\ req' = [req EXCEPT ![r].event = e] /\ UNCHANGED listing
    BY <1>3, <1>4, <2>2, <2>3, <2>4, <2>5, LoopLocals DEF TriggerPC
  <2>6. CASE listing' = [listing EXCEPT ![r] = listing[r] \cup {<<e, req[r].pipeline>>}]
             /\ UNCHANGED <<pc, req>>
    <3>1. pc' = [pc EXCEPT ![r] = "list next"]
      BY <2>2, <2>6 DEF LocalsInv, TriggerLocalsTypeOK
    <3>2. listing' = [listing EXCEPT ![r] = listing[r] \cup {<<e, req[r].pipeline>>}]
          /\ listing[r] \cup {<<e, req[r].pipeline>>} \in SUBSET (Events \X Pipelines)
      BY <1>3, <2>3, <2>6
    <3> DEFINE visit == todo[r] \ {e}
               listed == listing[r] \cup {<<e, req[r].pipeline>>}
    <3>3. /\ pc[r] # "idle" /\ req' = req /\ reply' = reply
          /\ visit \in SUBSET Events /\ todo' = [todo EXCEPT ![r] = visit]
          /\ listed \in SUBSET (Events \X Pipelines)
          /\ listing' = [listing EXCEPT ![r] = listed]
      BY <2>2, <2>4, <2>6, <3>2
    <3> HIDE DEF visit, listed
    <3> QED
      BY <2>2, <3>1, <3>3, LoopLocals DEF TriggerPC
  <2> QED
    BY <2>1, <2>2, <2>5, <2>6
<1>9. CASE ListEventGet(r)
  <2>1. CASE EventExists(req[r].event)
    <3>1. /\ pc[r] # "idle" /\ pc' = [pc EXCEPT ![r] = "list next"]
          /\ listing' = [listing EXCEPT ![r] =
                           listing[r] \cup {<<req[r].event, req[r].pipeline>>}]
          /\ UNCHANGED <<redis, req, todo, reply>>
      BY <1>9, <2>1 DEF ListEventGet
    <3>2. req[r].event \in Events /\ req[r].pipeline \in Pipelines
      BY <3>1 DEF LocalsInv, TriggerLocalsTypeOK, RequestRecord
    <3>3. listing[r] \cup {<<req[r].event, req[r].pipeline>>} \in SUBSET (Events \X Pipelines)
      BY <1>3, <3>2
    <3> QED
      BY <1>3, <1>4, <3>1, <3>3, LoopLocals DEF TriggerPC
  <2>2. CASE ~EventExists(req[r].event)
    BY <1>1, <1>9, <2>2 DEF ListEventGet, redis
  <2> QED
    BY <2>1, <2>2
<1>10. CASE ListDone(r)
  <2>1. CASE req[r].op = "GetPipelineTriggers"
    BY <1>1, <1>10, <2>1 DEF ListDone, redis
  <2>2. CASE req[r].op # "GetPipelineTriggers"
    <3>1. /\ pc[r] # "idle" /\ pc' = [pc EXCEPT ![r] = "delete next"]
          /\ todo' = [todo EXCEPT ![r] = {trigger[1] : trigger \in listing[r]}]
          /\ listing' = [listing EXCEPT ![r] = {}]
          /\ UNCHANGED <<redis, req, reply>>
      BY <1>10, <2>2 DEF ListDone
    <3>2. {} \in SUBSET (Events \X Pipelines)
          /\ {trigger[1] : trigger \in listing[r]} \in SUBSET Events
      BY <1>3
    <3> QED
      BY <3>1, <3>2, LoopLocals DEF TriggerPC
  <2> QED
    BY <2>1, <2>2
<1> QED
  BY <1>5, <1>6, <1>7, <1>8, <1>9, <1>10

\* GetEventTriggers collects links of the keys it found.
LEMMA KeysLocals ==
  ASSUME LocalsInv, RedisTypeOK, NEW r \in TriggerRequests,
         \/ GetAccountTriggerKeys(r) \/ GetPublicTriggerKeys(r)
         \/ ListKeyPipelines(r) \/ ListKeysDone(r)
  PROVE  LocalsInv' /\ UNCHANGED redis
<1>1. /\ todo[r] \in SUBSET Events /\ listing[r] \in SUBSET (Events \X Pipelines)
      /\ listing = [listing EXCEPT ![r] = listing[r]]
      /\ pc = [pc EXCEPT ![r] = pc[r]]
  BY DEF LocalsInv, TriggerLocalsTypeOK
<1>2. CASE GetAccountTriggerKeys(r) \/ GetPublicTriggerKeys(r)
  <2>1. PICK visit \in SUBSET Events, next \in {"public keys", "list key"} :
          /\ pc[r] # "idle" /\ pc' = [pc EXCEPT ![r] = next]
          /\ todo' = [todo EXCEPT ![r] = visit]
          /\ UNCHANGED <<redis, req, listing, reply>>
    BY <1>1, <1>2 DEF GetAccountTriggerKeys, GetPublicTriggerKeys, TriggerKeys
  <2> QED
    BY <1>1, <2>1, LoopLocals DEF TriggerPC
<1>3. CASE ListKeyPipelines(r)
  <2>1. PICK e \in todo[r] :
          /\ todo' = [todo EXCEPT ![r] = todo[r] \ {e}]
          /\ listing' = [listing EXCEPT ![r] = listing[r] \cup ({e} \X triggers[e])]
          /\ pc[r] = "list key"
          /\ UNCHANGED <<redis, pc, req, reply>>
    BY <1>3 DEF ListKeyPipelines
  <2>2. /\ todo[r] \ {e} \in SUBSET Events
        /\ listing[r] \cup ({e} \X triggers[e]) \in SUBSET (Events \X Pipelines)
    BY <1>1 DEF RedisTypeOK
  <2>3. pc' = [pc EXCEPT ![r] = "list key"]
    BY <1>1, <2>1
  <2> QED
    BY <2>1, <2>2, <2>3, LoopLocals DEF TriggerPC
<1>4. CASE ListKeysDone(r)
  BY <1>4, ReturnLocals DEF ListKeysDone, Reply
<1> QED
  BY <1>2, <1>3, <1>4

\* The loop of DeleteAllTriggersByPipeline, and the calls that fail.
LEMMA DeleteLoopLocals ==
  ASSUME LocalsInv, NEW r \in TriggerRequests,
         DeleteNext(r) \/ DeleteAllDone(r) \/ RedisError(r)
  PROVE  LocalsInv' /\ UNCHANGED redis
<1>1. CASE DeleteNext(r)
  <2>1. PICK e \in todo[r] :
          /\ pc' = [pc EXCEPT ![r] = "delete check"]
          /\ req' = [req EXCEPT ![r].event = e]
          /\ todo' = [todo EXCEPT ![r] = todo[r] \ {e}]
          /\ UNCHANGED <<redis, cfapi, listing, reply>>
    BY <1>1 DEF DeleteNext
  <2>2. e \in Events /\ todo[r] \ {e} \in SUBSET Events
        /\ listing[r] \in SUBSET (Events \X Pipelines)
        /\ listing = [listing EXCEPT ![r] = listing[r]]
    BY DEF LocalsInv, TriggerLocalsTypeOK
  <2>3. pc[r] # "idle"
    BY <1>1 DEF DeleteNext
  <2> QED
    BY <2>1, <2>2, <2>3, LoopLocals DEF TriggerPC
<1>2. CASE DeleteAllDone(r)
  BY <1>2, ReturnLocals DEF DeleteAllDone, Reply, redis
<1>3. CASE RedisError(r)
  BY <1>3, ReturnLocals, DeleteReturnLocals DEF RedisError, Reply, redis
<1> QED
  BY <1>1, <1>2, <1>3

-----------------------------------------------------------------------------
(* The step of a request, and the environment *)

\* A step of a handler makes or removes one permitted link, or writes nothing.
LEMMA StepLinks ==
  ASSUME LocalsInv, RedisTypeOK, NEW r \in TriggerRequests,
         TriggerArrives(r) \/ TriggerStep(r)
  PROVE  LocalsInv' /\ (LinkStep \/ UNCHANGED redis)
  BY ArrivesLocals, CheckLocals, ExecLinks, ListLocals, KeysLocals,
     DeleteLoopLocals DEF TriggerStep

\* Steps of a handler are steps of a request that is being served.
LEMMA TriggerStepBusy ==
  ASSUME NEW r \in TriggerRequests, TriggerStep(r)
  PROVE  pc[r] # "idle"
  BY DEF TriggerStep, CreateTriggerGetPipeline, CreateTriggerExec,
     DeleteTriggerGetPipeline, DeleteTriggerExec, ListPipelineExists, ListPipelineEvents,
     ListFilters, ListEventExists, ListEventGet, ListDone, DeleteNext, DeleteAllDone,
     GetAccountTriggerKeys, GetPublicTriggerKeys, ListKeyPipelines, ListKeysDone, RedisError

LEMMA ResetLocals ==
  ASSUME LocalsInv, TriggersReset
  PROVE  LocalsInv'
  BY DEF LocalsInv, TriggerLocalsTypeOK, CreatePermitted, TriggersReset, TriggerPC, Reply

\* The cfapi pipelines only become fewer.
LEMMA CfapiType ==
  ASSUME cfapi \subseteq Pipelines, [TriggersNext]_triggerVars
  PROVE  (cfapi \subseteq Pipelines)'
<1>1. CASE UNCHANGED triggerVars
  BY <1>1 DEF triggerVars
<1>2. CASE TriggersCrash
  BY <1>2 DEF TriggersCrash
<1>3. CASE \E p \in Pipelines : PipelineDeleted(p)
  BY <1>3 DEF PipelineDeleted
<1>4. ASSUME NEW r \in TriggerRequests, TriggerArrives(r) PROVE UNCHANGED cfapi
  BY <1>4 DEF TriggerArrives, CreateTrigger, DeleteTrigger, DeleteAllTriggersByPipeline,
     GetPipelineTriggers, GetEventTriggers
<1>5. ASSUME NEW r \in TriggerRequests, TriggerStep(r) PROVE UNCHANGED cfapi
  BY <1>5 DEF TriggerStep, CreateTriggerGetPipeline, CreateTriggerExec,
     DeleteTriggerGetPipeline, DeleteTriggerExec, ListPipelineExists, ListPipelineEvents,
     ListFilters, ListEventExists, ListEventGet, ListDone, DeleteNext, DeleteAllDone,
     GetAccountTriggerKeys, GetPublicTriggerKeys, ListKeyPipelines, ListKeysDone, RedisError
<1> QED
  BY <1>1, <1>2, <1>3, <1>4, <1>5 DEF TriggersNext

LEMMA NextLinks ==
  ASSUME LocalsInv, RedisTypeOK, [TriggersNext]_triggerVars
  PROVE  LocalsInv' /\ (LinkStep \/ UNCHANGED redis)
<1>1. CASE UNCHANGED triggerVars
  BY <1>1 DEF triggerVars, triggerLocals, LocalsInv, TriggerLocalsTypeOK, CreatePermitted,
              MatchesAccount
<1>2. CASE TriggersCrash
  BY <1>2, ResetLocals DEF TriggersCrash
<1>3. CASE \E p \in Pipelines : PipelineDeleted(p)
  BY <1>3 DEF PipelineDeleted, triggerLocals, LocalsInv, TriggerLocalsTypeOK, CreatePermitted,
              MatchesAccount
<1>4. CASE \E r \in TriggerRequests : TriggerArrives(r) \/ TriggerStep(r)
  BY <1>4, StepLinks
<1> QED
  BY <1>1, <1>2, <1>3, <1>4 DEF TriggersNext
-----------------------------------------------------------------------------
(* The inductive invariant *)

TriggersInv == StoreInv /\ LocalsInv /\ cfapi \subseteq Pipelines /\ IndexesAgree

LEMMA LinkStepAgree ==
  ASSUME RedisTypeOK, IndexesAgree, LinkStep
  PROVE  IndexesAgree'
<1>1. ASSUME NEW e \in Events, NEW p \in Pipelines, RemoveTrigger(e, p)
      PROVE  IndexesAgree'
  BY <1>1 DEF RedisTypeOK, IndexesAgree, RemoveTrigger
<1>2. ASSUME NEW e \in Events, NEW p \in Pipelines, NEW f, StoreTrigger(e, p, f)
      PROVE  IndexesAgree'
  BY <1>2 DEF RedisTypeOK, IndexesAgree, StoreTrigger
<1> QED
  BY <1>1, <1>2 DEF LinkStep

LEMMA InitInv ==
  ASSUME TriggersInit
  PROVE  TriggersInv
<1>1. StoreInv
  BY NoFiltersType DEF TriggersInit, StoreInv, RedisTypeOK, Consistent, TriggersMirrored,
     FiltersBelongToLinks, AccountIsolation
<1>2. LocalsInv
  BY DEF TriggersInit, TriggerLocalsInit, LocalsInv, TriggerLocalsTypeOK, CreatePermitted,
         TriggerPC, Reply
<1>3. cfapi \subseteq Pipelines /\ IndexesAgree
  BY DEF TriggersInit, IndexesAgree
<1> QED
  BY <1>1, <1>2, <1>3 DEF TriggersInv

LEMMA NextInv ==
  ASSUME TriggersInv, [TriggersNext]_triggerVars
  PROVE  TriggersInv'
<1>1. LocalsInv' /\ (LinkStep \/ UNCHANGED redis)
  BY NextLinks DEF TriggersInv, StoreInv
<1>2. StoreInv'
  BY <1>1, LinkStepInv, StoreUnchanged DEF TriggersInv
<1>3. (cfapi \subseteq Pipelines)'
  BY CfapiType DEF TriggersInv
<1>4. IndexesAgree'
  <2>1. CASE LinkStep
    BY <2>1, LinkStepAgree DEF TriggersInv, StoreInv
  <2>2. CASE UNCHANGED redis
    BY <2>2 DEF TriggersInv, IndexesAgree, redis
  <2> QED
    BY <1>1, <2>1, <2>2
<1> QED
  BY <1>1, <1>2, <1>3, <1>4 DEF TriggersInv

LEMMA TriggersInvariant == TriggersSpec => []TriggersInv
  BY InitInv, NextInv, PTL DEF TriggersSpec

-----------------------------------------------------------------------------
(* Theorems *)

\* Redis and the locals of the handlers have their types.
THEOREM TriggersTyped == TriggersSpec => []TriggersTypeOK
<1>1. TriggersInv => TriggersTypeOK
  BY DEF TriggersInv, StoreInv, LocalsInv, TriggersTypeOK
<1> QED
  BY <1>1, TriggersInvariant, PTL

\* However CreateTrigger, DeleteTrigger and DeleteAllTriggersByPipeline
\* interleave, and whichever of their calls fail, trigger:{uri} and
\* pipeline:{uid} record the same links.
THEOREM TriggersIndexesAgree == TriggersSpec => []IndexesAgree
<1>1. TriggersInv => IndexesAgree
  BY DEF TriggersInv
<1> QED
  BY <1>1, TriggersInvariant, PTL

\* No filter outlives its link.
THEOREM TriggersFilters == TriggersSpec => []FiltersBelongToLinks
<1>1. TriggersInv => FiltersBelongToLinks
  BY DEF TriggersInv, StoreInv, Consistent
<1> QED
  BY <1>1, TriggersInvariant, PTL

\* No sequence of requests, of any accounts, links an event of one account to
\* a pipeline of another.
THEOREM TriggersIsolated == TriggersSpec => []AccountIsolation
<1>1. TriggersInv => AccountIsolation
  BY DEF TriggersInv, StoreInv
<1> QED
  BY <1>1, TriggersInvariant, PTL

\* A transaction on a permitted pair is a step of the abstract specification.
LEMMA LinkStepRefines ==
  ASSUME RedisTypeOK, LinkStep
  PROVE  Abstract!LinksNext
<1>1. ASSUME NEW e \in Events, NEW p \in Pipelines, RemoveTrigger(e, p)
      PROVE  Abstract!Unlink(e, p)
  <2>1. Links' = Links \ {<<e, p>>}
    BY <1>1 DEF RedisTypeOK, RemoveTrigger, Links
  <2> QED
    BY <1>1, <2>1 DEF RemoveTrigger, Abstract!Unlink, NoFilters, NoFields, Abstract!NoFields
<1>2. ASSUME NEW e \in Events, NEW p \in Pipelines, NEW f \in FilterMaps,
             EventAccount[e] \in {PipelineAccount[p], Public}, StoreTrigger(e, p, f)
      PROVE  Abstract!Link(e, p, f)
  <2>1. Links' = Links \cup {<<e, p>>}
    BY <1>2 DEF RedisTypeOK, StoreTrigger, Links
  <2> QED
    BY <1>2, <2>1 DEF StoreTrigger, Abstract!Link, HSet, Abstract!HSet
<1> QED
  BY <1>1, <1>2 DEF LinkStep, Abstract!LinksNext

\* The handlers implement the specification of links: every step is one link
\* made, one link removed, or none.
THEOREM TriggersImplementLinks == TriggersSpec => ImplementsTriggerLinks
<1>1. TriggersInit => Abstract!LinksInit
  BY DEF TriggersInit, Abstract!LinksInit, Links, NoFilters, NoFields, Abstract!NoFields
<1>2. TriggersInv /\ [TriggersNext]_triggerVars => [Abstract!LinksNext]_(Abstract!linkVars)
  <2> SUFFICES ASSUME TriggersInv, [TriggersNext]_triggerVars
               PROVE  [Abstract!LinksNext]_(Abstract!linkVars)
    OBVIOUS
  <2>1. CASE LinkStep
    BY <2>1, LinkStepRefines DEF TriggersInv, StoreInv
  <2>2. CASE UNCHANGED redis
    BY <2>2 DEF redis, Abstract!linkVars, Links
  <2> QED
    BY <2>1, <2>2, NextLinks DEF TriggersInv, StoreInv
<1> QED
  BY <1>1, <1>2, TriggersInvariant, PTL DEF TriggersSpec, ImplementsTriggerLinks, Abstract!LinksSpec
=============================================================================
