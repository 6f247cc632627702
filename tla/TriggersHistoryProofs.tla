------------------------ MODULE TriggersHistoryProofs ------------------------
(***************************************************************************)
(* What the listings of triggers return, and what DeleteAll leaves, while  *)
(* other requests link and unlink between the reads of the handlers.       *)
(***************************************************************************)
EXTENDS TriggersHistory, TriggersProofs

ListPC == {"list exists", "list range", "list next", "list event exists", "list event get"}
DeletePC == {"delete check", "delete exec"}
KeysPC == {"keys", "public keys", "list key"}

\* A request is at a place of its own operation, with its hands empty at rest.
Placed(r) ==
  /\ pc[r] = "idle" => todo[r] = {} /\ listing[r] = {}
  /\ pc[r] \in ListPC => req[r].op \in {"GetPipelineTriggers", "DeleteAllTriggersByPipeline"}
  /\ pc[r] \in DeletePC => req[r].op \in {"DeleteTrigger", "DeleteAllTriggersByPipeline"}
  /\ pc[r] = "delete next" => req[r].op = "DeleteAllTriggersByPipeline"
  /\ pc[r] \in KeysPC => req[r].op \in {"GetEventTriggers", "GetTriggers"}
  /\ pc[r] \in {"create check", "create exec"} => req[r].op = "CreateTrigger"

\* What was linked all along is linked, and what is linked was at some moment.
Tracked(r) ==
  pc[r] # "idle" => always[r] \subseteq Links /\ Links \subseteq ever[r]

\* The events whose keys a listing of events may find.
Visible(r) ==
  {e \in Events : /\ EventAccount[e] \in {req[r].account, Public}
                  /\ req[r].op = "GetEventTriggers" => e \in Globs[req[r].event]}

\* The triggers a listing of a pipeline has got, is getting, and has to get.
InHand(r) ==
  listing[r] \cup ((todo[r] \cup
    (IF pc[r] \in {"list event exists", "list event get"} THEN {req[r].event} ELSE {}))
      \X {req[r].pipeline})

\* In its loops a listing has in hand what was linked all along, and nothing
\* that never was; before them, it has got nothing.
Collected(r) ==
  /\ pc[r] \in {"list exists", "list range", "keys", "public keys"} => listing[r] = {}
  /\ pc[r] \in {"list next", "list event exists", "list event get"} =>
       /\ Asked(r, always[r]) \subseteq InHand(r)
       /\ InHand(r) \subseteq Asked(r, ever[r])
  /\ pc[r] = "public keys" =>
       /\ \A link \in Asked(r, always[r]) :
            EventAccount[link[1]] = req[r].account => link[1] \in todo[r]
       /\ todo[r] \subseteq Visible(r)
  /\ pc[r] = "list key" =>
       /\ \A link \in Asked(r, always[r]) : link[1] \in todo[r] \/ link \in listing[r]
       /\ todo[r] \subseteq Visible(r)
       /\ listing[r] \subseteq Asked(r, ever[r])

\* A request of the owner of a pipeline, whose transactions are executed.
Owned(r) ==
  /\ req[r].op = "DeleteAllTriggersByPipeline"
  /\ PipelineAccount[req[r].pipeline] = req[r].account
  /\ "redis" \notin TriggerFaults

\* What was linked all along is still to be deleted, by the loop or right now.
Deleted(r) ==
  Owned(r) =>
    /\ pc[r] = "delete next" => \A link \in Asked(r, always[r]) : link[1] \in todo[r]
    /\ pc[r] \in DeletePC =>
         \A link \in Asked(r, always[r]) : link[1] \in todo[r] \cup {req[r].event}

Kept(r) == Placed(r) /\ Collected(r) /\ Deleted(r)

ListingInv == \A r \in TriggerRequests : Tracked(r) /\ Kept(r)

-----------------------------------------------------------------------------
(* Steps of one request *)

\* Nothing but r changes.
Alone(r) ==
  \A s \in TriggerRequests \ {r} :
    pc'[s] = pc[s] /\ req'[s] = req[s] /\ todo'[s] = todo[s] /\ listing'[s] = listing[s]

LEMMA ControlHere ==
  ASSUME TriggerLocalsTypeOK, NEW r \in TriggerRequests
  PROVE  /\ \A q, next : Begin(r, q, next) =>
              /\ Alone(r) /\ pc'[r] = next /\ req'[r] = q
              /\ todo'[r] = todo[r] /\ listing'[r] = listing[r]
         /\ \A next : Goto(r, next) =>
              /\ Alone(r) /\ pc'[r] = next /\ req'[r] = req[r]
              /\ todo'[r] = todo[r] /\ listing'[r] = listing[r]
         /\ \A result : Return(r, result) =>
              /\ Alone(r) /\ pc'[r] = "idle" /\ todo'[r] = {} /\ listing'[r] = {}
              /\ result \in Reply => reply'[r] = result
  BY DEF TriggerLocalsTypeOK, Begin, Goto, Return, Alone

LEMMA StepAlone ==
  ASSUME TriggerLocalsTypeOK, NEW r \in TriggerRequests, TriggerArrives(r) \/ TriggerStep(r)
  PROVE  Alone(r)
<1>1. CASE TriggerArrives(r)
  BY <1>1, ControlHere DEF TriggerArrives, CreateTrigger, DeleteTrigger,
     DeleteAllTriggersByPipeline, GetPipelineTriggers, GetEventTriggers
<1>2. CASE \/ CreateTriggerGetPipeline(r) \/ CreateTriggerExec(r) \/ DeleteTriggerGetPipeline(r)
           \/ DeleteTriggerExec(r) \/ RedisError(r)
  BY <1>2, ControlHere DEF CreateTriggerGetPipeline, CreateTriggerExec,
     DeleteTriggerGetPipeline, DeleteTriggerExec, DeleteTriggerReturn, RedisError
<1>3. CASE \/ ListPipelineExists(r) \/ ListEventExists(r) \/ ListKeysDone(r) \/ DeleteAllDone(r)
  BY <1>3, ControlHere DEF ListPipelineExists, ListEventExists, ListKeysDone, DeleteAllDone
<1>4. CASE \/ ListPipelineEvents(r) \/ ListFilters(r) \/ ListEventGet(r) \/ ListDone(r)
  BY <1>4, ControlHere DEF ListPipelineEvents, ListFilters, ListEventGet, ListDone, Alone,
     TriggerLocalsTypeOK
<1>5. CASE \/ DeleteNext(r) \/ GetAccountTriggerKeys(r) \/ GetPublicTriggerKeys(r)
           \/ ListKeyPipelines(r)
  BY <1>5 DEF DeleteNext, GetAccountTriggerKeys, GetPublicTriggerKeys, ListKeyPipelines,
     Alone, TriggerLocalsTypeOK
<1> QED
  BY <1>1, <1>2, <1>3, <1>4, <1>5 DEF TriggerStep

LEMMA ArrivesIdle ==
  ASSUME LocalsInv, NEW r \in TriggerRequests, TriggerArrives(r)
  PROVE  pc[r] = "idle" /\ Links' = Links
<1>1. pc[r] = "idle"
  BY DEF TriggerArrives, CreateTrigger, DeleteTrigger, DeleteAllTriggersByPipeline,
     GetPipelineTriggers, GetEventTriggers
<1>2. UNCHANGED redis
  BY ArrivesLocals
<1> QED
  BY <1>1, <1>2 DEF redis, Links

-----------------------------------------------------------------------------
(* The history of a request *)

LEMMA HistoryGrows ==
  ASSUME Record, NEW r \in TriggerRequests, pc[r] # "idle", pc'[r] # "idle"
  PROVE  /\ always'[r] = always[r] \cap Links'
         /\ ever'[r] = ever[r] \cup Links'
  BY DEF Record

LEMMA TrackedStep ==
  ASSUME Record, NEW r \in TriggerRequests, Tracked(r),
         pc[r] = "idle" /\ pc'[r] # "idle" => Links' = Links
  PROVE  Tracked(r)'
<1>1. CASE pc[r] = "idle" /\ pc'[r] # "idle"
  <2>1. always'[r] = Links /\ ever'[r] = Links
    BY <1>1 DEF Record
  <2> QED
    BY <1>1, <2>1 DEF Tracked
<1>2. CASE pc[r] # "idle" /\ pc'[r] # "idle"
  BY <1>2, HistoryGrows DEF Tracked
<1> QED
  BY <1>1, <1>2 DEF Tracked

\* What a request asks for does not change while it is served; of it, ever less
\* was linked all along and ever more at some moment.
LEMMA AskedStep ==
  ASSUME Record, NEW r \in TriggerRequests, pc[r] # "idle", pc'[r] # "idle",
         req'[r].op = req[r].op, req'[r].account = req[r].account,
         req'[r].pipeline = req[r].pipeline,
         req[r].op = "GetEventTriggers" => req'[r].event = req[r].event
  PROVE  /\ Asked(r, always[r])' \subseteq Asked(r, always[r])
         /\ Asked(r, always[r])' \subseteq Links'
         /\ Asked(r, ever[r]) \subseteq Asked(r, ever[r])'
         /\ Visible(r)' = Visible(r) /\ Owned(r)' = Owned(r)
<1>1. /\ always'[r] = always[r] \cap Links'
      /\ ever'[r] = ever[r] \cup Links'
  BY HistoryGrows
<1> QED
  BY <1>1 DEF Asked, Visible, Owned

\* A request that does not move keeps what it has.
LEMMA WaitKept ==
  ASSUME Record, NEW r \in TriggerRequests, Kept(r),
         pc'[r] = pc[r], req'[r] = req[r], todo'[r] = todo[r], listing'[r] = listing[r]
  PROVE  Kept(r)'
<1>1. Placed(r)'
  BY DEF Kept, Placed
<1>2. CASE pc[r] = "idle"
  BY <1>1, <1>2 DEF Kept, Collected, Deleted, DeletePC
<1>3. CASE pc[r] # "idle"
  <2>1. /\ Asked(r, always[r])' \subseteq Asked(r, always[r])
        /\ Asked(r, ever[r]) \subseteq Asked(r, ever[r])'
        /\ Visible(r)' = Visible(r) /\ Owned(r)' = Owned(r)
    BY <1>3, AskedStep
  <2>2. InHand(r)' = InHand(r)
    BY DEF InHand
  <2>3. Collected(r)'
    BY <2>1, <2>2 DEF Kept, Collected
  <2>4. Deleted(r)'
    BY <2>1 DEF Kept, Deleted
  <2> QED
    BY <1>1, <2>3, <2>4 DEF Kept
<1> QED
  BY <1>2, <1>3

LEMMA ReturnKept ==
  ASSUME TriggerLocalsTypeOK, NEW r \in TriggerRequests, NEW result, Return(r, result)
  PROVE  Kept(r)'
  BY ControlHere DEF Kept, Placed, Collected, Deleted, ListPC, DeletePC, KeysPC

LEMMA BeginKept ==
  ASSUME TriggerLocalsTypeOK, NEW r \in TriggerRequests, pc[r] = "idle", Placed(r),
         NEW q, NEW next, Begin(r, q, next),
         \/ next = "create check" /\ q.op = "CreateTrigger"
         \/ next = "delete check" /\ q.op = "DeleteTrigger"
         \/ next = "list exists"
              /\ q.op \in {"GetPipelineTriggers", "DeleteAllTriggersByPipeline"}
         \/ next = "keys" /\ q.op \in {"GetEventTriggers", "GetTriggers"}
  PROVE  Kept(r)'
<1>1. pc'[r] = next /\ req'[r] = q /\ todo'[r] = {} /\ listing'[r] = {}
  BY ControlHere DEF Placed
<1> QED
  BY <1>1 DEF Kept, Placed, Collected, Deleted, Owned, ListPC, DeletePC, KeysPC

LEMMA ArrivesKept ==
  ASSUME LocalsInv, NEW r \in TriggerRequests, Kept(r), TriggerArrives(r)
  PROVE  Kept(r)'
<1>1. TriggerLocalsTypeOK /\ pc[r] = "idle" /\ Placed(r)
  BY ArrivesIdle DEF LocalsInv, Kept
<1>2. CASE CreateTrigger(r)
  <2>1. PICK account \in Accounts, e \in Events, p \in Pipelines, f \in FilterMaps :
          \/ Begin(r, [op |-> "CreateTrigger", account |-> account, event |-> e,
                       pipeline |-> p, filters |-> f, withEvent |-> FALSE], "create check")
          \/ Return(r, "not found")
    BY <1>2 DEF CreateTrigger
  <2> DEFINE q == [op |-> "CreateTrigger", account |-> account, event |-> e,
                   pipeline |-> p, filters |-> f, withEvent |-> FALSE]
  <2>2. q.op = "CreateTrigger" /\ (Begin(r, q, "create check") \/ Return(r, "not found"))
    BY <2>1
  <2> HIDE DEF q
  <2> QED
    BY <1>1, <2>2, BeginKept, ReturnKept
<1>3. CASE DeleteTrigger(r)
  <2>1. PICK account \in Accounts, e \in Events, p \in Pipelines :
          \/ Begin(r, [op |-> "DeleteTrigger", account |-> account, event |-> e,
                       pipeline |-> p, filters |-> NoFilters, withEvent |-> FALSE],
                   "delete check")
          \/ Return(r, "not found")
    BY <1>3 DEF DeleteTrigger
  <2> DEFINE q == [op |-> "DeleteTrigger", account |-> account, event |-> e,
                   pipeline |-> p, filters |-> NoFilters, withEvent |-> FALSE]
  <2>2. q.op = "DeleteTrigger" /\ (Begin(r, q, "delete check") \/ Return(r, "not found"))
    BY <2>1
  <2> HIDE DEF q
  <2> QED
    BY <1>1, <2>2, BeginKept, ReturnKept
<1>4. CASE DeleteAllTriggersByPipeline(r)
  <2>1. PICK account \in Accounts, p \in Pipelines :
          Begin(r, [op |-> "DeleteAllTriggersByPipeline", account |-> account,
                    event |-> AnyEvent, pipeline |-> p, filters |-> NoFilters,
                    withEvent |-> TRUE], "list exists")
    BY <1>4 DEF DeleteAllTriggersByPipeline
  <2> DEFINE q == [op |-> "DeleteAllTriggersByPipeline", account |-> account,
                   event |-> AnyEvent, pipeline |-> p, filters |-> NoFilters,
                   withEvent |-> TRUE]
  <2>2. q.op = "DeleteAllTriggersByPipeline" /\ Begin(r, q, "list exists")
    BY <2>1
  <2> HIDE DEF q
  <2> QED
    BY <1>1, <2>2, BeginKept
<1>5. CASE GetPipelineTriggers(r)
  <2>1. PICK account \in Accounts, p \in Pipelines, withEvent \in BOOLEAN :
          Begin(r, [op |-> "GetPipelineTriggers", account |-> account,
                    event |-> AnyEvent, pipeline |-> p, filters |-> NoFilters,
                    withEvent |-> withEvent], "list exists")
    BY <1>5 DEF GetPipelineTriggers
  <2> DEFINE q == [op |-> "GetPipelineTriggers", account |-> account,
                   event |-> AnyEvent, pipeline |-> p, filters |-> NoFilters,
                   withEvent |-> withEvent]
  <2>2. q.op = "GetPipelineTriggers" /\ Begin(r, q, "list exists")
    BY <2>1
  <2> HIDE DEF q
  <2> QED
    BY <1>1, <2>2, BeginKept
<1>6. CASE GetEventTriggers(r)
  <2>1. PICK account \in Accounts, e \in Events, op \in {"GetEventTriggers", "GetTriggers"} :
          Begin(r, [op |-> op, account |-> account, event |-> e, pipeline |-> AnyPipeline,
                    filters |-> NoFilters, withEvent |-> FALSE], "keys")
    BY <1>6 DEF GetEventTriggers
  <2> DEFINE q == [op |-> op, account |-> account, event |-> e, pipeline |-> AnyPipeline,
                   filters |-> NoFilters, withEvent |-> FALSE]
  <2>2. q.op \in {"GetEventTriggers", "GetTriggers"} /\ Begin(r, q, "keys")
    BY <2>1
  <2> HIDE DEF q
  <2> QED
    BY <1>1, <2>2, BeginKept
<1> QED
  BY <1>2, <1>3, <1>4, <1>5, <1>6 DEF TriggerArrives

-----------------------------------------------------------------------------
(* The steps of the request itself *)

\* What the proof of each step starts from.
Ready(r) ==
  /\ TriggersInv /\ Record /\ Tracked(r) /\ Kept(r)
  /\ pc[r] # "idle"

LEMMA ReadyLocals ==
  ASSUME NEW r \in TriggerRequests, Ready(r)
  PROVE  /\ RedisTypeOK /\ TriggerLocalsTypeOK /\ Record
         /\ pc \in [TriggerRequests -> TriggerPC] /\ DOMAIN req = TriggerRequests
         /\ todo \in [TriggerRequests -> SUBSET Events]
         /\ listing \in [TriggerRequests -> SUBSET (Events \X Pipelines)]
         /\ req[r] \in RequestRecord /\ req[r].pipeline \in Pipelines
         /\ Placed(r) /\ Collected(r) /\ Deleted(r)
         /\ always[r] \subseteq Links /\ Links \subseteq ever[r]
<1>1. RedisTypeOK /\ TriggerLocalsTypeOK /\ Record /\ Tracked(r) /\ Kept(r) /\ pc[r] # "idle"
  BY DEF Ready, TriggersInv, StoreInv, LocalsInv
<1>2. req[r] \in RequestRecord
  BY <1>1 DEF TriggerLocalsTypeOK
<1> QED
  BY <1>1, <1>2 DEF TriggerLocalsTypeOK, RequestRecord, Kept, Tracked

\* CreateTrigger lists nothing.
LEMMA CreateKept ==
  ASSUME NEW r \in TriggerRequests, Ready(r),
         CreateTriggerGetPipeline(r) \/ CreateTriggerExec(r)
  PROVE  Kept(r)'
<1>1. TriggerLocalsTypeOK /\ Placed(r)
  BY ReadyLocals
<1>2. ASSUME NEW result, Return(r, result) PROVE Kept(r)'
  BY <1>1, <1>2, ReturnKept
<1>3. CASE Goto(r, "create exec") /\ pc[r] = "create check"
  <2>1. pc'[r] = "create exec" /\ req'[r].op = "CreateTrigger"
    BY <1>1, <1>3, ControlHere DEF Placed
  <2> QED
    BY <2>1 DEF Kept, Placed, Collected, Deleted, ListPC, DeletePC, KeysPC
<1> QED
  BY <1>2, <1>3 DEF CreateTriggerGetPipeline, CreateTriggerExec

LEMMA ListExistsKept ==
  ASSUME NEW r \in TriggerRequests, Ready(r), ListPipelineExists(r)
  PROVE  Kept(r)'
<1>1. TriggerLocalsTypeOK /\ Placed(r) /\ Collected(r)
  BY ReadyLocals
<1>2. CASE Goto(r, "list range")
  <2>1. /\ pc'[r] = "list range" /\ listing'[r] = {}
        /\ req'[r].op \in {"GetPipelineTriggers", "DeleteAllTriggersByPipeline"}
    BY <1>1, <1>2, ControlHere DEF ListPipelineExists, Placed, Collected, ListPC
  <2> QED
    BY <2>1 DEF Kept, Placed, Collected, Deleted, ListPC, DeletePC, KeysPC
<1> QED
  BY <1>1, <1>2, ReturnKept DEF ListPipelineExists

\* In the loop of a listing it is enough that what is in hand is the same.
LEMMA LoopKept ==
  ASSUME NEW r \in TriggerRequests, Ready(r),
         pc[r] \in {"list next", "list event exists", "list event get"},
         pc'[r] \in {"list next", "list event exists", "list event get"},
         req'[r].op = req[r].op, req'[r].account = req[r].account,
         req'[r].pipeline = req[r].pipeline, InHand(r)' = InHand(r)
  PROVE  Kept(r)'
<1>1. Record /\ Placed(r) /\ Collected(r)
  BY ReadyLocals
<1>2. req[r].op \in {"GetPipelineTriggers", "DeleteAllTriggersByPipeline"}
  BY <1>1 DEF Placed, ListPC
<1>3. /\ Asked(r, always[r])' \subseteq Asked(r, always[r])
      /\ Asked(r, ever[r]) \subseteq Asked(r, ever[r])'
  BY <1>1, <1>2, AskedStep
<1>4. Collected(r)'
  BY <1>1, <1>3 DEF Collected
<1> QED
  BY <1>2, <1>4 DEF Kept, Placed, Deleted, ListPC, DeletePC, KeysPC

\* ZRANGE of the pipeline: all links of the pipeline that the account may see.
LEMMA ListRangeKept ==
  ASSUME NEW r \in TriggerRequests, Ready(r), ListPipelineEvents(r)
  PROVE  Kept(r)'
<1>1. /\ RedisTypeOK /\ Record /\ Placed(r) /\ Collected(r)
      /\ DOMAIN todo = TriggerRequests /\ DOMAIN pc = TriggerRequests
      /\ req[r].pipeline \in Pipelines
      /\ always[r] \subseteq Links /\ Links \subseteq ever[r]
  BY ReadyLocals
<1>2. /\ pc[r] = "list range" /\ pc'[r] = "list next"
      /\ req'[r] = req[r] /\ listing'[r] = {}
      /\ todo'[r] = {e \in pipelines[req[r].pipeline] :
                       EventAccount[e] \in {req[r].account, Public}}
  BY <1>1 DEF ListPipelineEvents, Collected, MatchesAccount
<1>3. req[r].op \in {"GetPipelineTriggers", "DeleteAllTriggersByPipeline"}
  BY <1>1, <1>2 DEF Placed, ListPC
<1>4. /\ Asked(r, always[r])' \subseteq Asked(r, always[r])
      /\ Asked(r, ever[r]) \subseteq Asked(r, ever[r])'
  BY <1>1, <1>2, AskedStep
<1>5. InHand(r)' = todo'[r] \X {req[r].pipeline}
  BY <1>2 DEF InHand
<1>6. Asked(r, always[r]) \subseteq todo'[r] \X {req[r].pipeline}
  BY <1>1, <1>2, <1>3 DEF Asked, Links
<1>7. todo'[r] \X {req[r].pipeline} \subseteq Asked(r, ever[r])
  <2> SUFFICES ASSUME NEW e \in todo'[r] PROVE <<e, req[r].pipeline>> \in Asked(r, ever[r])
    OBVIOUS
  <2>1. e \in pipelines[req[r].pipeline] /\ EventAccount[e] \in {req[r].account, Public}
    BY <1>2
  <2>2. <<e, req[r].pipeline>> \in Links
    BY <1>1, <2>1 DEF Links, RedisTypeOK
  <2> QED
    BY <1>1, <1>3, <2>1, <2>2 DEF Asked
<1>8. Collected(r)'
  BY <1>2, <1>4, <1>5, <1>6, <1>7 DEF Collected
<1> QED
  BY <1>2, <1>3, <1>8 DEF Kept, Placed, Deleted, ListPC, DeletePC, KeysPC

\* HGETALL of the filters, and the reads of GetEvent.
LEMMA ListLoopKept ==
  ASSUME NEW r \in TriggerRequests, Ready(r),
         ListFilters(r) \/ ListEventExists(r) \/ ListEventGet(r)
  PROVE  Kept(r)'
<1>1. /\ TriggerLocalsTypeOK /\ req[r] \in RequestRecord
      /\ DOMAIN req = TriggerRequests /\ DOMAIN pc = TriggerRequests
      /\ DOMAIN todo = TriggerRequests /\ DOMAIN listing = TriggerRequests
  BY ReadyLocals
<1>2. CASE ListFilters(r)
  <2>1. PICK e \in todo[r] :
          /\ pc[r] = "list next"
          /\ todo' = [todo EXCEPT ![r] = todo[r] \ {e}]
          /\ \/ /\ pc' = [pc EXCEPT ![r] = "list event exists"]
                /\ req' = [req EXCEPT ![r].event = e]
                /\ UNCHANGED listing
             \/ /\ listing' = [listing EXCEPT ![r] = listing[r] \cup {<<e, req[r].pipeline>>}]
                /\ UNCHANGED <<pc, req>>
    BY <1>2 DEF ListFilters
  <2>2. CASE /\ pc' = [pc EXCEPT ![r] = "list event exists"]
             /\ req' = [req EXCEPT ![r].event = e]
             /\ UNCHANGED listing
    <3>1. /\ pc'[r] = "list event exists" /\ req'[r] = [req[r] EXCEPT !.event = e]
          /\ todo'[r] = todo[r] \ {e} /\ listing'[r] = listing[r]
      BY <1>1, <2>1, <2>2
    <3>2. /\ req'[r].op = req[r].op /\ req'[r].account = req[r].account
          /\ req'[r].pipeline = req[r].pipeline /\ req'[r].event = e
      BY <1>1, <3>1 DEF RequestRecord
    <3>3. InHand(r)' = InHand(r)
      BY <2>1, <3>1, <3>2 DEF InHand
    <3> QED
      BY <2>1, <3>1, <3>2, <3>3, LoopKept
  <2>3. CASE /\ listing' = [listing EXCEPT ![r] = listing[r] \cup {<<e, req[r].pipeline>>}]
             /\ UNCHANGED <<pc, req>>
    <3>1. /\ pc'[r] = "list next" /\ req'[r] = req[r]
          /\ todo'[r] = todo[r] \ {e}
          /\ listing'[r] = listing[r] \cup {<<e, req[r].pipeline>>}
      BY <1>1, <2>1, <2>3
    <3>2. /\ InHand(r) = listing[r] \cup (((todo[r] \ {e}) \cup {e}) \X {req[r].pipeline})
          /\ InHand(r)' = (listing[r] \cup {<<e, req[r].pipeline>>})
                            \cup ((todo[r] \ {e}) \X {req[r].pipeline})
      BY <2>1, <3>1 DEF InHand
    <3>3. listing[r] \cup (((todo[r] \ {e}) \cup {e}) \X {req[r].pipeline})
            = (listing[r] \cup {<<e, req[r].pipeline>>}) \cup ((todo[r] \ {e}) \X {req[r].pipeline})
      OBVIOUS
    <3>4. InHand(r)' = InHand(r)
      BY <3>2, <3>3, Zenon
    <3> QED
      BY <2>1, <3>1, <3>4, LoopKept
  <2> QED
    BY <2>1, <2>2, <2>3
<1>3. CASE ListEventExists(r)
  <2>1. CASE Goto(r, "list event get")
    <3>1. /\ pc'[r] = "list event get" /\ req'[r] = req[r]
          /\ todo'[r] = todo[r] /\ listing'[r] = listing[r]
      BY <1>1, <2>1, ControlHere
    <3>2. pc[r] = "list event exists" /\ InHand(r)' = InHand(r)
      BY <1>3, <3>1 DEF InHand, ListEventExists
    <3> QED
      BY <3>1, <3>2, LoopKept
  <2> QED
    BY <1>1, <1>3, <2>1, ReturnKept DEF ListEventExists
<1>4. CASE ListEventGet(r)
  <2>1. CASE EventExists(req[r].event)
    <3>1. /\ pc[r] = "list event get" /\ pc'[r] = "list next"
          /\ req'[r] = req[r] /\ todo'[r] = todo[r]
          /\ listing'[r] = listing[r] \cup {<<req[r].event, req[r].pipeline>>}
      BY <1>1, <1>4, <2>1 DEF ListEventGet
    <3>2. /\ InHand(r) = listing[r] \cup ((todo[r] \cup {req[r].event}) \X {req[r].pipeline})
          /\ InHand(r)' = (listing[r] \cup {<<req[r].event, req[r].pipeline>>})
                            \cup (todo[r] \X {req[r].pipeline})
      BY <3>1 DEF InHand
    <3>3. listing[r] \cup ((todo[r] \cup {req[r].event}) \X {req[r].pipeline})
            = (listing[r] \cup {<<req[r].event, req[r].pipeline>>})
               \cup (todo[r] \X {req[r].pipeline})
      OBVIOUS
    <3>4. InHand(r)' = InHand(r)
      BY <3>2, <3>3, Zenon
    <3> QED
      BY <3>1, <3>4, LoopKept
  <2> QED
    BY <1>1, <1>4, <2>1, ReturnKept DEF ListEventGet
<1> QED
  BY <1>2, <1>3, <1>4

\* The complete listing is what DeleteAll goes through.
LEMMA ListDoneKept ==
  ASSUME NEW r \in TriggerRequests, Ready(r), ListDone(r)
  PROVE  Kept(r)'
<1>1. /\ TriggerLocalsTypeOK /\ Record /\ Placed(r) /\ Collected(r)
      /\ DOMAIN todo = TriggerRequests /\ DOMAIN pc = TriggerRequests
  BY ReadyLocals
<1>2. CASE req[r].op = "GetPipelineTriggers"
  BY <1>1, <1>2, ReturnKept DEF ListDone
<1>3. CASE req[r].op # "GetPipelineTriggers"
  <2>1. /\ pc[r] = "list next" /\ todo[r] = {}
        /\ pc'[r] = "delete next" /\ req'[r] = req[r]
        /\ todo'[r] = {trigger[1] : trigger \in listing[r]}
    BY <1>1, <1>3 DEF ListDone
  <2>2. req[r].op = "DeleteAllTriggersByPipeline"
    BY <1>1, <1>3, <2>1 DEF Placed, ListPC
  <2>3. InHand(r) = listing[r]
    BY <2>1 DEF InHand
  <2>4. Asked(r, always[r])' \subseteq Asked(r, always[r])
    BY <1>1, <2>1, AskedStep
  <2>5. \A link \in Asked(r, always[r]) : link[1] \in todo'[r]
    BY <1>1, <2>1, <2>3 DEF Collected
  <2>6. Deleted(r)'
    BY <2>1, <2>4, <2>5 DEF Deleted, DeletePC
  <2> QED
    BY <2>1, <2>2, <2>6 DEF Kept, Placed, Collected, ListPC, DeletePC, KeysPC
<1> QED
  BY <1>2, <1>3

\* The loop of DeleteAll takes its next event.
LEMMA DeleteNextKept ==
  ASSUME NEW r \in TriggerRequests, Ready(r), DeleteNext(r)
  PROVE  Kept(r)'
<1>1. /\ Record /\ Placed(r) /\ Deleted(r) /\ req[r] \in RequestRecord
      /\ DOMAIN todo = TriggerRequests /\ DOMAIN pc = TriggerRequests
      /\ DOMAIN req = TriggerRequests
  BY ReadyLocals
<1>2. PICK e \in todo[r] :
        /\ pc[r] = "delete next" /\ pc'[r] = "delete check"
        /\ req'[r] = [req[r] EXCEPT !.event = e]
        /\ todo'[r] = todo[r] \ {e}
  BY <1>1 DEF DeleteNext
<1>3. /\ req'[r].op = req[r].op /\ req'[r].account = req[r].account
      /\ req'[r].pipeline = req[r].pipeline /\ req'[r].event = e
  BY <1>1, <1>2 DEF RequestRecord
<1>4. req[r].op = "DeleteAllTriggersByPipeline"
  BY <1>1, <1>2 DEF Placed
<1>5. Asked(r, always[r])' \subseteq Asked(r, always[r]) /\ Owned(r)' = Owned(r)
  BY <1>1, <1>2, <1>3, <1>4, AskedStep
<1>6. todo'[r] \cup {req'[r].event} = todo[r]
  BY <1>2, <1>3
<1>7. Deleted(r)'
  BY <1>1, <1>2, <1>5, <1>6 DEF Deleted
<1> QED
  BY <1>2, <1>3, <1>4, <1>7 DEF Kept, Placed, Collected, ListPC, DeletePC, KeysPC

\* DeleteTrigger comes back to the loop with nothing of its event linked all
\* along, or to its handler.
LEMMA DeleteReturnKept ==
  ASSUME NEW r \in TriggerRequests, Ready(r), pc[r] \in DeletePC, NEW result,
         DeleteTriggerReturn(r, result),
         Owned(r) => <<req[r].event, req[r].pipeline>> \notin Links'
  PROVE  Kept(r)'
<1>1. TriggerLocalsTypeOK /\ Record /\ Placed(r) /\ Deleted(r) /\ always[r] \subseteq Links
  BY ReadyLocals
<1>2. CASE Return(r, result)
  BY <1>1, <1>2, ReturnKept
<1>3. CASE Goto(r, "delete next") /\ req[r].op # "DeleteTrigger"
  <2>1. /\ pc'[r] = "delete next" /\ req'[r] = req[r] /\ todo'[r] = todo[r]
    BY <1>1, <1>3, ControlHere
  <2>2. req[r].op = "DeleteAllTriggersByPipeline"
    BY <1>1, <1>3 DEF Placed
  <2>3. /\ Asked(r, always[r])' \subseteq Asked(r, always[r])
        /\ Asked(r, always[r])' \subseteq Links' /\ Owned(r)' = Owned(r)
    BY <1>1, <2>1, AskedStep DEF DeletePC
  <2>4. ASSUME Owned(r), NEW link \in Asked(r, always[r])'
        PROVE  link[1] \in todo'[r]
    <3>1. link[1] \in todo[r] \cup {req[r].event}
      BY <1>1, <2>3, <2>4 DEF Deleted
    <3>2. link = <<link[1], link[2]>> /\ link[2] = req[r].pipeline
      <4>1. link \in Asked(r, always[r]) /\ always[r] \subseteq Links
        BY <1>1, <2>3
      <4> QED
        BY <2>2, <4>1 DEF Links, Asked
    <3>3. link[1] # req[r].event
      BY <2>3, <2>4, <3>2
    <3> QED
      BY <2>1, <3>1, <3>3
  <2>5. Deleted(r)'
    BY <2>1, <2>3, <2>4 DEF Deleted, DeletePC
  <2> QED
    BY <2>1, <2>2, <2>5 DEF Kept, Placed, Collected, ListPC, DeletePC, KeysPC
<1> QED
  BY <1>2, <1>3 DEF DeleteTriggerReturn

LEMMA DeleteKept ==
  ASSUME NEW r \in TriggerRequests, Ready(r),
         DeleteTriggerGetPipeline(r) \/ DeleteTriggerExec(r)
  PROVE  Kept(r)'
<1>1. /\ TriggerLocalsTypeOK /\ RedisTypeOK /\ Record /\ Placed(r) /\ Deleted(r)
  BY ReadyLocals
<1>2. CASE DeleteTriggerGetPipeline(r)
  <2>1. PICK result \in GetPipelineResults(req[r].account, req[r].pipeline) :
          IF result = "no match" THEN DeleteTriggerReturn(r, "error")
                                 ELSE Goto(r, "delete exec")
    BY <1>2 DEF DeleteTriggerGetPipeline
  <2>2. pc[r] = "delete check"
    BY <1>2 DEF DeleteTriggerGetPipeline
  <2>3. CASE result = "no match"
    <3>1. ~Owned(r)
      BY <2>3 DEF GetPipelineResults, Owned
    <3> QED
      BY <2>1, <2>2, <2>3, <3>1, DeleteReturnKept DEF DeletePC
  <2>4. CASE result # "no match"
    <3>1. pc'[r] = "delete exec" /\ req'[r] = req[r] /\ todo'[r] = todo[r]
      BY <1>1, <2>1, <2>4, ControlHere
    <3>2. Asked(r, always[r])' \subseteq Asked(r, always[r]) /\ Owned(r)' = Owned(r)
      BY <1>1, <2>2, <3>1, AskedStep
    <3>3. Deleted(r)'
      BY <1>1, <2>2, <3>1, <3>2 DEF Deleted, DeletePC
    <3>4. req[r].op \in {"DeleteTrigger", "DeleteAllTriggersByPipeline"}
      BY <1>1, <2>2 DEF Placed, DeletePC
    <3> QED
      BY <3>1, <3>3, <3>4 DEF Kept, Placed, Collected, ListPC, DeletePC, KeysPC
  <2> QED
    BY <2>3, <2>4
<1>3. CASE DeleteTriggerExec(r)
  <2>1. pc[r] = "delete exec" /\ RemoveTrigger(req[r].event, req[r].pipeline)
    BY <1>3 DEF DeleteTriggerExec
  <2>2. <<req[r].event, req[r].pipeline>> \notin Links'
    BY <1>1, <2>1 DEF RedisTypeOK, RemoveTrigger, Links
  <2>3. PICK result : DeleteTriggerReturn(r, result)
    BY <1>3 DEF DeleteTriggerExec
  <2> QED
    BY <2>1, <2>2, <2>3, DeleteReturnKept DEF DeletePC
<1> QED
  BY <1>2, <1>3

\* KEYS twice: the events of the account with pipelines linked, then the public ones.
LEMMA KeysKept ==
  ASSUME NEW r \in TriggerRequests, Ready(r),
         GetAccountTriggerKeys(r) \/ GetPublicTriggerKeys(r)
  PROVE  Kept(r)'
<1>1. /\ RedisTypeOK /\ Record /\ Placed(r) /\ Collected(r)
      /\ DOMAIN todo = TriggerRequests /\ DOMAIN pc = TriggerRequests
      /\ always[r] \subseteq Links
  BY ReadyLocals
<1>2. /\ pc[r] \in {"keys", "public keys"} /\ pc'[r] \in {"public keys", "list key"}
      /\ pc[r] = "keys" => pc'[r] = "public keys"
      /\ req'[r] = req[r] /\ listing'[r] = {}
  BY <1>1 DEF GetAccountTriggerKeys, GetPublicTriggerKeys, Collected
<1>3. req[r].op \in {"GetEventTriggers", "GetTriggers"}
  BY <1>1, <1>2 DEF Placed, KeysPC
<1>4. /\ Asked(r, always[r])' \subseteq Asked(r, always[r])
      /\ Visible(r)' = Visible(r)
  BY <1>1, <1>2, AskedStep
<1>5. \A link \in Asked(r, always[r]) :
        /\ link[1] \in Events /\ triggers[link[1]] # {}
        /\ EventAccount[link[1]] \in {req[r].account, Public}
        /\ req[r].op = "GetEventTriggers" => link[1] \in Globs[req[r].event]
  <2>1. IndexesAgree
    BY DEF Ready, TriggersInv
  <2> QED
    BY <1>1, <2>1 DEF Asked, Links, IndexesAgree
<1>6. \A f \in Globs[req[r].event] : EventAccount[f] = EventAccount[req[r].event]
  <2>1. req[r] \in RequestRecord
    BY <1>2 DEF Ready, TriggersInv, LocalsInv, TriggerLocalsTypeOK
  <2> QED
    BY <2>1, GlobsAssumption DEF RequestRecord
<1>7. CASE GetAccountTriggerKeys(r)
  <2>1. /\ pc[r] = "keys" /\ pc'[r] = "public keys"
        /\ todo'[r] = TriggerKeys(r, req[r].account)
    BY <1>1, <1>7 DEF GetAccountTriggerKeys
  <2>2. TriggerKeys(r, req[r].account) \subseteq Visible(r)
    BY <1>6 DEF TriggerKeys, Visible, MatchesAccount
  <2>3. \A link \in Asked(r, always[r]) :
          EventAccount[link[1]] = req[r].account => link[1] \in TriggerKeys(r, req[r].account)
    BY <1>3, <1>5, <1>6 DEF TriggerKeys, MatchesAccount
  <2>4. Collected(r)'
    BY <1>2, <1>4, <2>1, <2>2, <2>3 DEF Collected
  <2> QED
    BY <1>2, <1>3, <2>1, <2>4 DEF Kept, Placed, Deleted, ListPC, DeletePC, KeysPC
<1>8. CASE GetPublicTriggerKeys(r)
  <2>1. /\ pc[r] = "public keys" /\ pc'[r] = "list key"
        /\ todo'[r] = todo[r] \cup TriggerKeys(r, Public)
    BY <1>1, <1>8 DEF GetPublicTriggerKeys
  <2>2. TriggerKeys(r, Public) \subseteq Visible(r) /\ todo[r] \subseteq Visible(r)
    BY <1>1, <1>6, <2>1 DEF TriggerKeys, Visible, MatchesAccount, Collected
  <2>3. \A link \in Asked(r, always[r]) : link[1] \in todo[r] \cup TriggerKeys(r, Public)
    BY <1>1, <1>3, <1>5, <1>6, <2>1 DEF TriggerKeys, MatchesAccount, Collected
  <2>4. Collected(r)'
    BY <1>2, <1>4, <2>1, <2>2, <2>3 DEF Collected
  <2> QED
    BY <1>2, <1>3, <2>1, <2>4 DEF Kept, Placed, Deleted, ListPC, DeletePC, KeysPC
<1> QED
  BY <1>7, <1>8

\* ZRANGE of the next key: the pipelines that are linked now.
LEMMA ListKeyKept ==
  ASSUME NEW r \in TriggerRequests, Ready(r), ListKeyPipelines(r)
  PROVE  Kept(r)'
<1>1. /\ RedisTypeOK /\ Record /\ Placed(r) /\ Collected(r)
      /\ DOMAIN todo = TriggerRequests /\ DOMAIN listing = TriggerRequests
      /\ always[r] \subseteq Links /\ Links \subseteq ever[r]
  BY ReadyLocals
<1>2. IndexesAgree
  BY DEF Ready, TriggersInv
<1>3. PICK e \in todo[r] :
        /\ pc[r] = "list key" /\ pc'[r] = "list key" /\ req'[r] = req[r]
        /\ todo'[r] = todo[r] \ {e}
        /\ listing'[r] = listing[r] \cup ({e} \X triggers[e])
  BY <1>1 DEF ListKeyPipelines
<1>4. req[r].op \in {"GetEventTriggers", "GetTriggers"} /\ e \in Visible(r)
  BY <1>1, <1>3 DEF Placed, Collected, KeysPC
<1>5. /\ Asked(r, always[r])' \subseteq Asked(r, always[r])
      /\ Asked(r, ever[r]) \subseteq Asked(r, ever[r])'
      /\ Visible(r)' = Visible(r)
  BY <1>1, <1>3, AskedStep
<1>6. \A link \in Asked(r, always[r]) : link[1] \in todo'[r] \/ link \in listing'[r]
  <2> SUFFICES ASSUME NEW link \in Asked(r, always[r]), link[1] = e
               PROVE  link \in listing'[r]
    BY <1>1, <1>3 DEF Collected
  <2>1. link = <<e, link[2]>> /\ link[2] \in triggers[e]
    BY <1>1, <1>2 DEF Asked, Links, IndexesAgree
  <2> QED
    BY <1>3, <2>1
<1>7. {e} \X triggers[e] \subseteq Asked(r, ever[r])
  <2> SUFFICES ASSUME NEW p \in triggers[e] PROVE <<e, p>> \in Asked(r, ever[r])
    OBVIOUS
  <2>1. e \in Events /\ p \in Pipelines
    BY <1>1, <1>4 DEF Visible, RedisTypeOK
  <2>2. <<e, p>> \in Links
    BY <1>2, <2>1 DEF Links, IndexesAgree
  <2> QED
    BY <1>1, <1>4, <2>2 DEF Asked, Visible
<1>8. Collected(r)'
  BY <1>1, <1>3, <1>5, <1>6, <1>7 DEF Collected
<1> QED
  BY <1>3, <1>4, <1>8 DEF Kept, Placed, Deleted, ListPC, DeletePC, KeysPC

LEMMA ErrorKept ==
  ASSUME NEW r \in TriggerRequests, Ready(r), RedisError(r)
  PROVE  Kept(r)'
<1>1. TriggerLocalsTypeOK
  BY ReadyLocals
<1>2. ~Owned(r)
  BY DEF RedisError, Owned
<1> QED
  BY <1>1, <1>2, ReturnKept, DeleteReturnKept DEF RedisError, DeletePC

LEMMA StepKept ==
  ASSUME NEW r \in TriggerRequests, Ready(r), TriggerStep(r)
  PROVE  Kept(r)'
<1>1. CASE ListKeysDone(r) \/ DeleteAllDone(r)
  BY <1>1, ReadyLocals, ReturnKept DEF ListKeysDone, DeleteAllDone
<1> QED
  BY <1>1, CreateKept, ListExistsKept, ListRangeKept, ListLoopKept, ListDoneKept,
     DeleteNextKept, DeleteKept, KeysKept, ListKeyKept, ErrorKept DEF TriggerStep

-----------------------------------------------------------------------------
(* The inductive invariant *)

LEMMA ListingInvNext ==
  ASSUME TriggersInv, ListingInv, [HistoryNext]_historyVars
  PROVE  ListingInv'
<1>1. LocalsInv /\ TriggerLocalsTypeOK /\ \A r \in TriggerRequests : Tracked(r) /\ Kept(r)
  BY DEF TriggersInv, LocalsInv, ListingInv
<1>2. CASE UNCHANGED historyVars
  <2> SUFFICES ASSUME NEW r \in TriggerRequests PROVE Tracked(r)' /\ Kept(r)'
    BY DEF ListingInv
  <2>1. /\ UNCHANGED <<pc, req, todo, listing, always, ever, pipelines>>
        /\ Tracked(r) /\ Kept(r)
    BY <1>1, <1>2 DEF historyVars, triggerVars, triggerLocals, redis
  <2>2. /\ Asked(r, always[r])' = Asked(r, always[r]) /\ Asked(r, ever[r])' = Asked(r, ever[r])
        /\ Visible(r)' = Visible(r) /\ InHand(r)' = InHand(r) /\ Owned(r)' = Owned(r)
        /\ Links' = Links
    BY <2>1 DEF Asked, Visible, InHand, Owned, Links
  <2> QED
    BY <2>1, <2>2 DEF Tracked, Kept, Placed, Collected, Deleted
<1>3. CASE TriggersCrash /\ Record
  <2> SUFFICES ASSUME NEW r \in TriggerRequests PROVE Tracked(r)' /\ Kept(r)'
    BY DEF ListingInv
  <2>1. pc'[r] = "idle" /\ todo'[r] = {} /\ listing'[r] = {}
    BY <1>3 DEF TriggersCrash, TriggersReset
  <2> QED
    BY <2>1 DEF Tracked, Kept, Placed, Collected, Deleted, ListPC, DeletePC, KeysPC
<1>4. CASE (\E p \in Pipelines : PipelineDeleted(p)) /\ Record
  <2>1. UNCHANGED <<pc, req, todo, listing>>
    BY <1>4 DEF PipelineDeleted, triggerLocals
  <2> QED
    BY <1>1, <1>4, <2>1, TrackedStep, WaitKept DEF ListingInv
<1>5. ASSUME NEW r \in TriggerRequests, TriggerArrives(r) \/ TriggerStep(r), Record
      PROVE  ListingInv'
  <2>1. Alone(r)
    BY <1>1, <1>5, StepAlone
  <2>2. ASSUME NEW s \in TriggerRequests PROVE Tracked(s)'
    <3>1. pc[s] = "idle" /\ pc'[s] # "idle" => Links' = Links
      BY <1>1, <1>5, <2>1, ArrivesIdle, TriggerStepBusy DEF Alone
    <3> QED
      BY <1>1, <1>5, <3>1, TrackedStep
  <2>3. ASSUME NEW s \in TriggerRequests \ {r} PROVE Kept(s)'
    BY <1>1, <1>5, <2>1, WaitKept DEF Alone
  <2>4. Kept(r)'
    <3>1. TriggerStep(r) => Ready(r)
      BY <1>1, <1>5, TriggerStepBusy DEF Ready
    <3> QED
      BY <1>1, <1>5, <3>1, ArrivesKept, StepKept
  <2> QED
    BY <2>2, <2>3, <2>4 DEF ListingInv
<1> QED
  BY <1>2, <1>3, <1>4, <1>5 DEF HistoryNext, TriggersNext

LEMMA HistoryInvariant == HistorySpec => [](TriggersInv /\ ListingInv)
<1>1. HistoryInit => TriggersInv
  BY InitInv DEF HistoryInit
<1>2. HistoryInit => ListingInv
  BY DEF HistoryInit, TriggersInit, TriggerLocalsInit, ListingInv, Tracked, Kept, Placed,
     Collected, Deleted, ListPC, DeletePC, KeysPC
<1>3. [HistoryNext]_historyVars => [TriggersNext]_triggerVars
  BY DEF HistoryNext, historyVars
<1>4. TriggersInv /\ ListingInv /\ [HistoryNext]_historyVars => (TriggersInv /\ ListingInv)'
  BY <1>3, NextInv, ListingInvNext
<1> QED
  BY <1>1, <1>2, <1>4, PTL DEF HistorySpec

-----------------------------------------------------------------------------
(* Theorems *)

\* Where a handler replies ok.
LEMMA RepliesOk ==
  ASSUME TriggersInv, ListingInv, HistoryNext, NEW r \in TriggerRequests, NEW op,
         op \notin {"CreateTrigger", "DeleteTrigger"}, Replies(r, op, "ok")
  PROVE  \/ pc[r] = "list exists" /\ ~PipelineExists(req[r].pipeline)
         \/ pc[r] = "list next" /\ todo[r] = {} /\ op = "GetPipelineTriggers"
         \/ pc[r] = "list key" /\ todo[r] = {}
         \/ pc[r] = "delete next" /\ todo[r] = {}
<1>1. /\ LocalsInv /\ TriggerLocalsTypeOK /\ Placed(r)
      /\ DOMAIN pc = TriggerRequests /\ DOMAIN reply = TriggerRequests
  BY DEF TriggersInv, LocalsInv, TriggerLocalsTypeOK, ListingInv, Kept
<1>2. /\ pc[r] # "idle" /\ req[r].op = op /\ pc'[r] = "idle" /\ reply'[r] = "ok"
  BY DEF Replies
<1>3. /\ ~Return(r, "error")
      /\ \A next \in {"create exec", "list range", "list event get", "delete exec", "delete next"} :
           ~Goto(r, next)
  BY <1>1, <1>2 DEF Return, Goto
<1>4. CASE TriggersCrash
  BY <1>2, <1>4 DEF TriggersCrash, TriggersReset
<1>5. CASE \E p \in Pipelines : PipelineDeleted(p)
  BY <1>2, <1>5 DEF PipelineDeleted, triggerLocals
<1>6. ASSUME NEW s \in TriggerRequests, s # r, TriggerArrives(s) \/ TriggerStep(s) PROVE FALSE
  BY <1>1, <1>2, <1>6, StepAlone DEF Alone
<1>7. ~TriggerArrives(r)
  BY <1>1, <1>2, ArrivesIdle
<1>8. CASE TriggerStep(r)
  <2>1. ~CreateTriggerGetPipeline(r) /\ ~CreateTriggerExec(r)
    BY <1>1, <1>2 DEF CreateTriggerGetPipeline, CreateTriggerExec, Placed
  <2>2. ~DeleteTriggerGetPipeline(r) /\ ~DeleteTriggerExec(r)
    BY <1>2, <1>3 DEF DeleteTriggerGetPipeline, DeleteTriggerExec, DeleteTriggerReturn
  <2>3. ~RedisError(r) /\ ~ListEventExists(r)
    BY <1>2, <1>3 DEF RedisError, DeleteTriggerReturn, ListEventExists
  <2>4. /\ ~ListPipelineEvents(r) /\ ~ListFilters(r) /\ ~ListEventGet(r) /\ ~DeleteNext(r)
        /\ ~GetAccountTriggerKeys(r) /\ ~GetPublicTriggerKeys(r) /\ ~ListKeyPipelines(r)
    BY <1>1, <1>2, <1>3 DEF ListPipelineEvents, ListFilters, ListEventGet, DeleteNext,
       GetAccountTriggerKeys, GetPublicTriggerKeys, ListKeyPipelines
  <2>5. CASE ListPipelineExists(r)
    BY <1>3, <2>5 DEF ListPipelineExists
  <2>6. CASE ListDone(r)
    BY <1>1, <1>2, <2>6 DEF ListDone
  <2>7. CASE DeleteAllDone(r) \/ ListKeysDone(r)
    BY <2>7 DEF DeleteAllDone, ListKeysDone
  <2> QED
    BY <1>8, <2>1, <2>2, <2>3, <2>4, <2>5, <2>6, <2>7 DEF TriggerStep
<1> QED
  BY <1>4, <1>5, <1>6, <1>7, <1>8 DEF HistoryNext, TriggersNext

\* Without the key of the pipeline nothing was linked to it all along.
LEMMA NothingAsked ==
  ASSUME TriggersInv, ListingInv, NEW r \in TriggerRequests,
         pc[r] = "list exists", ~PipelineExists(req[r].pipeline)
  PROVE  Asked(r, always[r]) = {} /\ listing[r] = {}
<1>1. Tracked(r) /\ Placed(r) /\ Collected(r)
  BY DEF ListingInv, Kept
<1>2. /\ always[r] \subseteq Links
      /\ req[r].op \in {"GetPipelineTriggers", "DeleteAllTriggersByPipeline"}
  BY <1>1 DEF Tracked, Placed, ListPC
<1> QED
  BY <1>1, <1>2 DEF PipelineExists, Asked, Links, Collected

\* For any number of requests that link, unlink and list, whichever calls fail:
\* an answer of GetPipelineTriggers contains every trigger of the pipeline the
\* account may see that existed while it ran, and none that never did.
THEOREM ListingsBounded == HistorySpec => ListingBounded
<1>1. ASSUME TriggersInv, ListingInv, HistoryNext, NEW r \in TriggerRequests,
             Replies(r, "GetPipelineTriggers", "ok")
      PROVE  Bounded(r)
  <2>1. Kept(r) /\ req[r].op = "GetPipelineTriggers"
    BY <1>1 DEF ListingInv, Replies
  <2>2. \/ pc[r] = "list exists" /\ ~PipelineExists(req[r].pipeline)
        \/ pc[r] = "list next" /\ todo[r] = {}
    BY <1>1, <2>1, RepliesOk DEF Kept, Placed, KeysPC
  <2>3. CASE pc[r] = "list exists" /\ ~PipelineExists(req[r].pipeline)
    BY <1>1, <2>3, NothingAsked DEF Bounded
  <2>4. CASE pc[r] = "list next" /\ todo[r] = {}
    <3>1. InHand(r) = listing[r]
      BY <2>4 DEF InHand
    <3> QED
      BY <2>1, <2>4, <3>1 DEF Kept, Collected, Bounded
  <2> QED
    BY <2>2, <2>3, <2>4
<1>2. TriggersInv /\ ListingInv /\ [HistoryNext]_historyVars =>
        [\A r \in TriggerRequests :
           Replies(r, "GetPipelineTriggers", "ok") => Bounded(r)]_historyVars
  BY <1>1
<1> QED
  BY <1>2, HistoryInvariant, PTL DEF HistorySpec, ListingBounded

\* The same of GetEventTriggers and GetTriggers, which look the keys up twice
\* and then read them one by one.
THEOREM EventTriggerListingsBounded == HistorySpec => EventTriggersBounded
<1>1. ASSUME TriggersInv, ListingInv, HistoryNext, NEW r \in TriggerRequests,
             Replies(r, "GetEventTriggers", "ok") \/ Replies(r, "GetTriggers", "ok")
      PROVE  Bounded(r)
  <2>1. Kept(r) /\ req[r].op \in {"GetEventTriggers", "GetTriggers"}
    BY <1>1 DEF ListingInv, Replies
  <2>2. pc[r] = "list key" /\ todo[r] = {}
    BY <1>1, <2>1, RepliesOk DEF Kept, Placed, ListPC
  <2> QED
    BY <2>1, <2>2 DEF Kept, Collected, Bounded
<1>2. TriggersInv /\ ListingInv /\ [HistoryNext]_historyVars =>
        [\A r \in TriggerRequests :
           Replies(r, "GetEventTriggers", "ok") \/ Replies(r, "GetTriggers", "ok")
             => Bounded(r)]_historyVars
  BY <1>1
<1> QED
  BY <1>2, HistoryInvariant, PTL DEF HistorySpec, EventTriggersBounded

\* However triggers come and go while DeleteAllTriggersByPipeline runs, for the
\* owner of a pipeline and as long as Redis executes what it is sent, no trigger
\* that was there before and all along is there when it answers 200.
THEOREM DeleteAllCompletes == HistorySpec => DeleteAllComplete
<1>1. ASSUME TriggersInv, ListingInv, HistoryNext, NEW r \in TriggerRequests,
             Replies(r, "DeleteAllTriggersByPipeline", "ok"),
             PipelineAccount[req[r].pipeline] = req[r].account,
             "redis" \notin TriggerFaults
      PROVE  Asked(r, always[r]) = {}
  <2>1. Kept(r) /\ Owned(r) /\ req[r].op = "DeleteAllTriggersByPipeline"
    BY <1>1 DEF ListingInv, Replies, Owned
  <2>2. \/ pc[r] = "list exists" /\ ~PipelineExists(req[r].pipeline)
        \/ pc[r] = "delete next" /\ todo[r] = {}
    BY <1>1, <2>1, RepliesOk DEF Kept, Placed, KeysPC
  <2>3. CASE pc[r] = "list exists" /\ ~PipelineExists(req[r].pipeline)
    BY <1>1, <2>3, NothingAsked
  <2>4. CASE pc[r] = "delete next" /\ todo[r] = {}
    BY <2>1, <2>4 DEF Kept, Deleted
  <2> QED
    BY <2>2, <2>3, <2>4
<1>2. TriggersInv /\ ListingInv /\ [HistoryNext]_historyVars =>
        [\A r \in TriggerRequests :
           /\ Replies(r, "DeleteAllTriggersByPipeline", "ok")
           /\ PipelineAccount[req[r].pipeline] = req[r].account
           /\ "redis" \notin TriggerFaults
           => Asked(r, always[r]) = {}]_historyVars
  BY <1>1
<1> QED
  BY <1>2, HistoryInvariant, PTL DEF HistorySpec, DeleteAllComplete
=============================================================================
