---------------------------- MODULE HermesProofs ----------------------------
(***************************************************************************)
(* All handlers together, in three parts.                                  *)
(*                                                                         *)
(*   Hermes       what TriggersProofs shows of the keys of links survives  *)
(*                the handlers of events, which delete the set of          *)
(*                pipelines of an event under the handlers of triggers     *)
(*   RunsHistory  what a normalized event runs, while the other handlers   *)
(*                change events, triggers and filters between its reads    *)
(*   CommandLine  what holds when requests and commands do not overlap,    *)
(*                though one may be killed anywhere                        *)
(***************************************************************************)
EXTENDS CommandLine, RunsHistory, TriggersProofs, EventsProofs

\* IndexesAgree is not part of it: DeleteEvent may leave an event in the set
\* of a pipeline.
HermesInv == StoreInv /\ LocalsInv /\ EventLocalsTypeOK

-----------------------------------------------------------------------------
(* Hermes: the handlers of events and the links *)

LEMMA StoreEventConsistent ==
  ASSUME Consistent, NEW e, NEW s, StoreEvent(e, s)
  PROVE  Consistent'
  BY DEF StoreEvent, Consistent, TriggersMirrored, FiltersBelongToLinks

\* DeleteEvent may leave a pipeline with an event that is gone, and never a
\* pipeline to run that does not know of it.
LEMMA RemoveEventConsistent ==
  ASSUME RedisTypeOK, Consistent, NEW e \in Events, RemoveEvent(e)
  PROVE  Consistent'
  BY DEF RedisTypeOK, RemoveEvent, Consistent, TriggersMirrored, FiltersBelongToLinks

LEMMA EventWriteInv ==
  ASSUME StoreInv, EventWrite
  PROVE  StoreInv'
<1>1. RedisTypeOK'
  BY EventWriteType DEF StoreInv
<1>2. Consistent'
  BY StoreEventConsistent, RemoveEventConsistent DEF StoreInv, EventWrite
<1>3. AccountIsolation'
  BY DEF StoreInv, AccountIsolation, EventWrite, RemoveEvent, StoreEvent
<1> QED
  BY <1>1, <1>2, <1>3 DEF StoreInv

\* A transaction on an event is invisible to the abstract specification.
LEMMA EventWriteStutters ==
  ASSUME EventWrite
  PROVE  UNCHANGED Abstract!linkVars
  BY DEF EventWrite, RemoveEvent, StoreEvent, Abstract!linkVars, Links

LEMMA LocalsUnchanged ==
  ASSUME LocalsInv, UNCHANGED triggerLocals
  PROVE  LocalsInv'
  BY DEF LocalsInv, TriggerLocalsTypeOK, CreatePermitted, MatchesAccount, triggerLocals

LEMMA EventLocalsUnchanged ==
  ASSUME EventLocalsTypeOK, UNCHANGED eventLocals
  PROVE  EventLocalsTypeOK'
  BY DEF EventLocalsTypeOK, eventLocals

LEMMA RunsReadOnly ==
  ASSUME RunsNext
  PROVE  UNCHANGED redis
  BY DEF RunsNext, RunTrigger, RunStep, RunGetEventExists, RunGetEvent, RunPublish,
         RunTriggerExists, RunRange, RunFilters, RunFiltersDone, RunPipeline, RunDone,
         RunRedisError, redis

-----------------------------------------------------------------------------
(* Hermes: every step *)

LEMMA HermesStep ==
  ASSUME HermesInv, [HermesNext]_vars
  PROVE  LocalsInv' /\ EventLocalsTypeOK' /\ (LinkStep \/ EventWrite \/ UNCHANGED redis)
<1>1. CASE UNCHANGED vars
  BY <1>1, LocalsUnchanged, EventLocalsUnchanged DEF vars, HermesInv
<1>2. ASSUME NEW r \in TriggerRequests, TriggerArrives(r) \/ TriggerStep(r),
             UNCHANGED eventLocals
      PROVE  LocalsInv' /\ EventLocalsTypeOK' /\ (LinkStep \/ UNCHANGED redis)
  BY <1>2, StepLinks, EventLocalsUnchanged DEF HermesInv, StoreInv
<1>3. ASSUME NEW r \in EventRequests, EventArrives(r) \/ EventStep(r),
             UNCHANGED triggerLocals
      PROVE  LocalsInv' /\ EventLocalsTypeOK' /\ (EventWrite \/ UNCHANGED redis)
  BY <1>3, EventStepWrites, LocalsUnchanged DEF HermesInv
<1>4. CASE RunsNext /\ UNCHANGED <<triggerLocals, eventLocals>>
  BY <1>4, RunsReadOnly, LocalsUnchanged, EventLocalsUnchanged DEF HermesInv
<1>5. ASSUME NEW p \in Pipelines, PipelineDeleted(p), UNCHANGED eventLocals
      PROVE  LocalsInv' /\ EventLocalsTypeOK' /\ UNCHANGED redis
  BY <1>5, LocalsUnchanged, EventLocalsUnchanged DEF HermesInv, PipelineDeleted
<1>6. CASE Crash
  BY <1>6, ResetLocals, EventsResetLocals DEF Crash, HermesInv
<1> QED
  BY <1>1, <1>2, <1>3, <1>4, <1>5, <1>6 DEF HermesNext

LEMMA HermesInitInv ==
  ASSUME HermesInit
  PROVE  HermesInv
<1>1. StoreInv
  BY NoFiltersType DEF HermesInit, RedisEmpty, StoreInv, RedisTypeOK, Consistent,
     TriggersMirrored, FiltersBelongToLinks, AccountIsolation
<1>2. LocalsInv
  BY DEF HermesInit, TriggerLocalsInit, LocalsInv, TriggerLocalsTypeOK, CreatePermitted,
         TriggerPC, Reply
<1>3. EventLocalsTypeOK
  BY DEF HermesInit, EventLocalsInit, EventLocalsTypeOK, EventPC, CreateEventPC, EventReply
<1> QED
  BY <1>1, <1>2, <1>3 DEF HermesInv

LEMMA HermesNextInv ==
  ASSUME HermesInv, [HermesNext]_vars
  PROVE  HermesInv'
  BY HermesStep, LinkStepInv, EventWriteInv, StoreUnchanged DEF HermesInv

LEMMA HermesInvariant == HermesSpec => []HermesInv
  BY HermesInitInv, HermesNextInv, PTL DEF HermesSpec

-----------------------------------------------------------------------------
(* Hermes: theorems *)

\* Whatever requests race, whichever calls fail and whenever the process ends:
\* a pipeline an event would run lists that event among its own.
THEOREM HermesMirrored == HermesSpec => []TriggersMirrored
<1>1. HermesInv => TriggersMirrored
  BY DEF HermesInv, StoreInv, Consistent
<1> QED
  BY <1>1, HermesInvariant, PTL

\* .. no filter outlives its link, although DeleteEvent removes an event
\* without the filters of its links,
THEOREM HermesFilters == HermesSpec => []FiltersBelongToLinks
<1>1. HermesInv => FiltersBelongToLinks
  BY DEF HermesInv, StoreInv, Consistent
<1> QED
  BY <1>1, HermesInvariant, PTL

\* .. no event of one account is linked to a pipeline of another,
THEOREM HermesIsolated == HermesSpec => []AccountIsolation
<1>1. HermesInv => AccountIsolation
  BY DEF HermesInv, StoreInv
<1> QED
  BY <1>1, HermesInvariant, PTL

\* .. and the links are those of the abstract specification: only CreateTrigger
\* and DeleteTrigger change them.
THEOREM HermesImplementsLinks == HermesSpec => ImplementsTriggerLinks
<1>1. HermesInit => Abstract!LinksInit
  BY DEF HermesInit, RedisEmpty, Abstract!LinksInit, Links, NoFilters, NoFields,
         Abstract!NoFields
<1>2. HermesInv /\ [HermesNext]_vars => [Abstract!LinksNext]_(Abstract!linkVars)
  <2> SUFFICES ASSUME HermesInv, [HermesNext]_vars
               PROVE  [Abstract!LinksNext]_(Abstract!linkVars)
    OBVIOUS
  <2>1. CASE LinkStep
    BY <2>1, LinkStepRefines DEF HermesInv, StoreInv
  <2>2. CASE EventWrite
    BY <2>2, EventWriteStutters
  <2>3. CASE UNCHANGED redis
    BY <2>3 DEF redis, Abstract!linkVars, Links
  <2> QED
    BY <2>1, <2>2, <2>3, HermesStep
<1> QED
  BY <1>1, <1>2, HermesInvariant, PTL DEF HermesSpec, ImplementsTriggerLinks, Abstract!LinksSpec

\* .. and a stored secret is never replaced while its event is there: handlers
\* of triggers and of normalized events do not write events at all.
THEOREM HermesKeepsSecrets == HermesSpec => SecretKept
<1>1. HermesInv /\ [HermesNext]_vars =>
        [\A e \in Events :
           events[e] # NoEvent /\ events'[e] # NoEvent => events'[e] = events[e]]_eventVars
  <2> SUFFICES ASSUME HermesInv, [HermesNext]_vars
               PROVE  \A e \in Events :
                        events[e] # NoEvent /\ events'[e] # NoEvent => events'[e] = events[e]
    OBVIOUS
  <2>1. CASE LinkStep
    BY <2>1 DEF LinkStep, RemoveTrigger, StoreTrigger
  <2>2. CASE EventWrite \/ UNCHANGED redis
    BY <2>2, EventWriteKeeps DEF HermesInv, StoreInv
  <2> QED
    BY <2>1, <2>2, HermesStep
<1> QED
  BY <1>1, HermesInvariant, PTL DEF HermesSpec, SecretKept

-----------------------------------------------------------------------------
(* RunsHistory.  Each place of the handler is related to the history of    *)
(* the request: what was linked, due and valid at every moment, or at      *)
(* some, since it arrived.                                                 *)

\* The histories of a request enclose what is so now.
HistoryInv(r) ==
  rpc[r] # "idle" =>
    /\ linkedAlways[r] \subseteq LinkedTo(rreq[r].event)
    /\ LinkedTo(rreq[r].event) \subseteq linkedEver[r]
    /\ dueAlways[r] \subseteq Due(rreq[r])
    /\ Due(rreq[r]) \subseteq dueEver[r]
    /\ SecretsOf(rreq[r].event) \subseteq secretsEver[r]

\* What the handler has in hand where it is.  A pipeline whose filters are read
\* and that is still selected was due when they were read, if it was linked then.
PlaceInv(r) ==
  /\ rpc[r] \in {"publish", "trigger exists", "range", "filters", "run"} =>
       rreq[r].secret \in secretsEver[r]
  /\ rpc[r] \in {"filters", "run"} =>
       /\ dueAlways[r] \subseteq selected[r] \cup ran[r]
       /\ selected[r] \cup ran[r] \subseteq linkedEver[r]
       /\ ((selected[r] \ unread[r]) \cup ran[r]) \cap linkedAlways[r] \subseteq dueEver[r]
  /\ rpc[r] # "run" => ran[r] = {}
  /\ rpc[r] # "filters" => unread[r] = {}

RequestInv(r) == HistoryInv(r) /\ PlaceInv(r)

RunsInv == RunsTypeOK /\ \A r \in RunRequests : RequestInv(r)

-----------------------------------------------------------------------------
(* RunsHistory: types *)

LEMMA RunGotoType ==
  ASSUME RunsTypeOK, NEW r \in RunRequests, NEW next \in RunPC \ {"idle"}, rpc[r] # "idle",
         RunGoto(r, next)
  PROVE  RunsTypeOK'
  BY DEF RunsTypeOK, RunGoto

LEMMA RunReturnType ==
  ASSUME RunsTypeOK, NEW r \in RunRequests, NEW result \in RunReply, RunReturn(r, result)
  PROVE  RunsTypeOK'
  BY DEF RunsTypeOK, RunReturn, RunPC

LEMMA RunArrivesType ==
  ASSUME RunsTypeOK, NEW r \in RunRequests, RunTrigger(r)
  PROVE  RunsTypeOK'
<1>1. PICK event \in NormalizedEvent :
        /\ rreq' = [rreq EXCEPT ![r] = event]
        /\ rpc' = [rpc EXCEPT ![r] = "event exists"]
        /\ rreply' = [rreply EXCEPT ![r] = "none"]
        /\ UNCHANGED <<redis, unread, selected, ran>>
  BY DEF RunTrigger
<1> QED
  BY <1>1 DEF RunsTypeOK, RunPC, RunReply

LEMMA RunStepType ==
  ASSUME RedisTypeOK, RunsTypeOK, NEW r \in RunRequests, PlaceInv(r), RunStep(r)
  PROVE  RunsTypeOK'
<1>1. ASSUME NEW next \in {"event get", "publish", "trigger exists", "range", "run"},
             rpc[r] # "idle", RunGoto(r, next)
      PROVE  RunsTypeOK'
  BY <1>1, RunGotoType DEF RunPC
<1>2. ASSUME NEW result \in {"ok", "not found", "invalid secret", "error"}, RunReturn(r, result)
      PROVE  RunsTypeOK'
  BY <1>2, RunReturnType DEF RunReply
<1>3. CASE RunGetEventExists(r)
  BY <1>1, <1>2, <1>3 DEF RunGetEventExists
<1>4. CASE RunGetEvent(r)
  BY <1>1, <1>2, <1>4 DEF RunGetEvent
<1>5. CASE RunPublish(r) \/ RunTriggerExists(r) \/ RunFiltersDone(r)
  BY <1>1, <1>2, <1>5 DEF RunPublish, RunTriggerExists, RunFiltersDone
<1>6. CASE RunRange(r)
  <2>1. ran[r] = {} /\ rreq[r] \in NormalizedEvent
    BY <1>6 DEF RunRange, RunsTypeOK, PlaceInv
  <2>2. triggers[rreq[r].event] \subseteq Pipelines
    BY <2>1 DEF RedisTypeOK, NormalizedEvent
  <2> QED
    BY <1>6, <2>1, <2>2 DEF RunRange, RunsTypeOK, RunPC
<1>7. CASE RunFilters(r)
  BY <1>7 DEF RunFilters, RunsTypeOK
<1>8. CASE RunPipeline(r)
  <2>1. unread[r] = {}
    BY <1>8 DEF RunPipeline, PlaceInv
  <2> QED
    BY <1>8, <2>1 DEF RunPipeline, RunsTypeOK
<1>9. CASE RunDone(r) \/ RunRedisError(r)
  BY <1>2, <1>9 DEF RunDone, RunRedisError
<1> QED
  BY <1>3, <1>4, <1>5, <1>6, <1>7, <1>8, <1>9 DEF RunStep

-----------------------------------------------------------------------------
(* RunsHistory: histories *)

\* The handler of r is where it was.
RunStays(r) ==
  /\ rpc'[r] = rpc[r] /\ rreq'[r] = rreq[r]
  /\ unread'[r] = unread[r] /\ selected'[r] = selected[r] /\ ran'[r] = ran[r]

\* The histories "always" narrow, the histories "ever" widen.
Recording(r) ==
  /\ linkedAlways'[r] \subseteq linkedAlways[r] /\ linkedEver[r] \subseteq linkedEver'[r]
  /\ dueAlways'[r] \subseteq dueAlways[r] /\ dueEver[r] \subseteq dueEver'[r]
  /\ secretsEver[r] \subseteq secretsEver'[r]

\* A request that arrives starts its histories with what is so then.
LEMMA ArrivalRecorded ==
  ASSUME NEW r \in RunRequests, RecordRuns, rpc[r] = "idle", rpc'[r] # "idle", UNCHANGED redis
  PROVE  HistoryInv(r)'
  BY DEF RecordRuns, Recorded, HistoryInv, LinkedTo, Due, SecretsOf, redis

\* Whatever a step does to Redis, the histories of a request in flight enclose
\* it and only narrow or widen.
LEMMA FlightRecorded ==
  ASSUME NEW r \in RunRequests, RecordRuns, HistoryInv(r),
         rpc[r] # "idle", rpc'[r] # "idle", rreq'[r] = rreq[r]
  PROVE  HistoryInv(r)' /\ Recording(r)
<1>1. /\ linkedAlways'[r] = linkedAlways[r] \cap LinkedTo(rreq[r].event)'
      /\ linkedEver'[r] = linkedEver[r] \cup LinkedTo(rreq[r].event)'
      /\ dueAlways'[r] = dueAlways[r] \cap Due(rreq[r])'
      /\ dueEver'[r] = dueEver[r] \cup Due(rreq[r])'
      /\ secretsEver'[r] = secretsEver[r] \cup SecretsOf(rreq[r].event)'
  BY DEF RecordRuns, Recorded
<1> QED
  BY <1>1 DEF HistoryInv, Recording

LEMMA IdleInv ==
  ASSUME NEW r \in RunRequests, RecordRuns, rpc'[r] = "idle",
         unread'[r] = {}, ran'[r] = {}
  PROVE  RequestInv(r)'
  BY DEF RequestInv, HistoryInv, PlaceInv

\* A step of another actor, on Redis or not.
LEMMA StaysInv ==
  ASSUME NEW r \in RunRequests, RequestInv(r), RecordRuns, RunStays(r)
  PROVE  RequestInv(r)'
<1>1. CASE rpc[r] = "idle"
  BY <1>1, IdleInv DEF RunStays, RequestInv, PlaceInv
<1>2. CASE rpc[r] # "idle"
  BY <1>2, FlightRecorded DEF RunStays, RequestInv, PlaceInv, Recording
<1> QED
  BY <1>1, <1>2
-----------------------------------------------------------------------------
(* RunsHistory: the steps of a handler *)

\* A step of one handler of normalized events is none of another's.
LEMMA OtherRunStays ==
  ASSUME RunsTypeOK, NEW r \in RunRequests, NEW s \in RunRequests, s # r,
         RunTrigger(s) \/ RunStep(s)
  PROVE  RunStays(r)
  BY DEF RunTrigger, RunStep, RunGetEventExists, RunGetEvent, RunPublish, RunTriggerExists,
         RunRange, RunFilters, RunFiltersDone, RunPipeline, RunDone, RunRedisError,
         RunGoto, RunReturn, RunStays, RunsTypeOK

LEMMA ReturnInv ==
  ASSUME RunsTypeOK, NEW r \in RunRequests, NEW result, RunReturn(r, result), RecordRuns
  PROVE  RequestInv(r)'
  BY IdleInv DEF RunReturn, RunsTypeOK

LEMMA ArrivesInv ==
  ASSUME RunsTypeOK, NEW r \in RunRequests, RequestInv(r), RunTrigger(r), RecordRuns
  PROVE  RequestInv(r)'
<1>1. /\ rpc[r] = "idle" /\ rpc'[r] = "event exists"
      /\ UNCHANGED <<redis, unread, selected, ran>>
  BY DEF RunTrigger, RunsTypeOK
<1>2. HistoryInv(r)'
  BY <1>1, ArrivalRecorded
<1> QED
  BY <1>1, <1>2 DEF RequestInv, PlaceInv

\* Before the pipelines are read.
LEMMA CheckInv ==
  ASSUME RunsTypeOK, NEW r \in RunRequests, RequestInv(r), RecordRuns,
         \/ RunGetEventExists(r) \/ RunGetEvent(r) \/ RunPublish(r) \/ RunTriggerExists(r)
  PROVE  RequestInv(r)'
<1>1. CASE \E result \in RunReply : RunReturn(r, result)
  BY <1>1, ReturnInv
<1>2. ASSUME NEW next \in {"event get", "publish", "trigger exists", "range"}, RunGoto(r, next),
             rpc[r] \in {"event exists", "event get", "publish", "trigger exists"},
             next = "event get" \/ rreq[r].secret \in secretsEver[r]
      PROVE  RequestInv(r)'
  <2>1. /\ rpc'[r] = next /\ rpc[r] # "idle" /\ rpc'[r] # "idle"
        /\ rreq'[r] = rreq[r] /\ unread'[r] = unread[r] /\ ran'[r] = ran[r]
    BY <1>2 DEF RunGoto, RunsTypeOK
  <2>2. HistoryInv(r)' /\ Recording(r)
    BY <2>1, FlightRecorded DEF RequestInv
  <2> QED
    BY <1>2, <2>1, <2>2 DEF RequestInv, PlaceInv, Recording
<1>3. CASE RunGetEventExists(r)
  BY <1>1, <1>2, <1>3 DEF RunGetEventExists, RunReply
<1>4. CASE RunGetEvent(r)
  <2>1. CASE RunGoto(r, "publish") /\ EventExists(rreq[r].event)
             /\ events[rreq[r].event] = rreq[r].secret
    <3>1. rreq[r].secret \in secretsEver[r]
      BY <1>4, <2>1 DEF RunGetEvent, RequestInv, HistoryInv, SecretsOf, EventExists
    <3> QED
      BY <1>2, <1>4, <2>1, <3>1 DEF RunGetEvent
  <2> QED
    BY <1>1, <1>4, <2>1 DEF RunGetEvent, RunReply
<1>5. CASE RunPublish(r) \/ RunTriggerExists(r)
  <2>1. rreq[r].secret \in secretsEver[r]
    BY <1>5 DEF RunPublish, RunTriggerExists, RequestInv, PlaceInv
  <2> QED
    BY <1>1, <1>2, <1>5, <2>1 DEF RunPublish, RunTriggerExists, RunReply
<1> QED
  BY <1>3, <1>4, <1>5

\* The set of pipelines, read at once, is what is linked at that moment.
LEMMA RangeInv ==
  ASSUME RunsTypeOK, NEW r \in RunRequests, RequestInv(r), RecordRuns, RunRange(r)
  PROVE  RequestInv(r)'
<1>1. /\ rpc[r] = "range" /\ rpc'[r] = "filters" /\ rreq'[r] = rreq[r]
      /\ selected'[r] = triggers[rreq[r].event] /\ unread'[r] = triggers[rreq[r].event]
      /\ ran'[r] = {}
      /\ UNCHANGED redis
  BY DEF RunRange, RunsTypeOK, RequestInv, PlaceInv
<1>2. HistoryInv(r)' /\ Recording(r)
  BY <1>1, FlightRecorded DEF RequestInv
<1>3. dueAlways'[r] \subseteq selected'[r] /\ selected'[r] \subseteq linkedEver'[r]
  BY <1>1, <1>2 DEF RequestInv, HistoryInv, Due, LinkedTo, Recording, redis
<1>4. rreq'[r].secret \in secretsEver'[r]
  BY <1>1, <1>2 DEF RequestInv, PlaceInv, Recording
<1> QED
  BY <1>1, <1>2, <1>3, <1>4 DEF RequestInv, PlaceInv

\* The filters of the pipelines, read one by one while links come and go.
LEMMA FiltersInv ==
  ASSUME RunsTypeOK, NEW r \in RunRequests, RequestInv(r), RecordRuns, RunFilters(r)
  PROVE  RequestInv(r)'
<1> DEFINE rejects(p) == Rejected(filters[<<rreq[r].event, p>>], rreq[r].vars)
<1>1. PICK p \in unread[r] :
        /\ unread'[r] = unread[r] \ {p}
        /\ selected'[r] = IF rejects(p) THEN selected[r] \ {p} ELSE selected[r]
        /\ rpc[r] = "filters" /\ rpc'[r] = "filters"
        /\ rreq'[r] = rreq[r] /\ ran'[r] = ran[r]
        /\ UNCHANGED redis
  BY DEF RunFilters, RunsTypeOK
<1>2. HistoryInv(r)' /\ Recording(r)
  BY <1>1, FlightRecorded DEF RequestInv
<1>3. rejects(p) => p \notin dueAlways[r]
  BY <1>1 DEF RequestInv, HistoryInv, Due
<1>4. ~rejects(p) /\ p \in linkedAlways[r] => p \in dueEver[r]
  BY <1>1 DEF RequestInv, HistoryInv, Due, LinkedTo
<1> HIDE DEF rejects
<1>5. /\ rreq[r].secret \in secretsEver[r]
      /\ dueAlways[r] \subseteq selected[r] \cup ran[r]
      /\ selected[r] \cup ran[r] \subseteq linkedEver[r]
      /\ ((selected[r] \ unread[r]) \cup ran[r]) \cap linkedAlways[r] \subseteq dueEver[r]
      /\ ran[r] = {}
  BY <1>1 DEF RequestInv, PlaceInv
<1>6. /\ dueAlways'[r] \subseteq selected'[r] \cup ran'[r]
      /\ selected'[r] \cup ran'[r] \subseteq linkedEver'[r]
  BY <1>1, <1>2, <1>3, <1>5 DEF Recording
<1>7. ((selected'[r] \ unread'[r]) \cup ran'[r]) \cap linkedAlways'[r] \subseteq dueEver'[r]
  BY <1>1, <1>2, <1>4, <1>5 DEF Recording
<1> QED
  BY <1>1, <1>2, <1>5, <1>6, <1>7 DEF RequestInv, PlaceInv, Recording
\* RunPipeline moves a pipeline from those selected to those run.
LEMMA PipelinesInv ==
  ASSUME RunsTypeOK, NEW r \in RunRequests, RequestInv(r), RecordRuns,
         RunFiltersDone(r) \/ RunPipeline(r)
  PROVE  RequestInv(r)'
<1>1. /\ rpc[r] \in {"filters", "run"} /\ rpc'[r] = "run" /\ rreq'[r] = rreq[r]
      /\ selected'[r] \cup ran'[r] = selected[r] \cup ran[r]
      /\ unread[r] = {} /\ unread'[r] = {}
  <2>1. CASE RunFiltersDone(r)
    BY <2>1 DEF RunFiltersDone, RunGoto, RunsTypeOK
  <2>2. CASE RunPipeline(r)
    <3>1. PICK p \in selected[r] :
            /\ selected'[r] = selected[r] \ {p} /\ ran'[r] = ran[r] \cup {p}
            /\ rpc[r] = "run" /\ rpc' = rpc /\ rreq' = rreq /\ unread' = unread
      BY <2>2 DEF RunPipeline, RunsTypeOK
    <3> QED
      BY <3>1 DEF RequestInv, PlaceInv
  <2> QED
    BY <2>1, <2>2
<1>2. HistoryInv(r)' /\ Recording(r)
  BY <1>1, FlightRecorded DEF RequestInv
<1> QED
  BY <1>1, <1>2 DEF RequestInv, PlaceInv, Recording

LEMMA RunStepInv ==
  ASSUME RunsTypeOK, NEW r \in RunRequests, RequestInv(r), RecordRuns,
         RunTrigger(r) \/ RunStep(r)
  PROVE  RequestInv(r)'
<1>1. CASE RunDone(r) \/ RunRedisError(r)
  BY <1>1, ReturnInv DEF RunDone, RunRedisError
<1> QED
  BY <1>1, ArrivesInv, CheckInv, RangeInv, FiltersInv, PipelinesInv DEF RunStep

-----------------------------------------------------------------------------
(* RunsHistory: every step of the manager *)

LEMMA RunsResetInv ==
  ASSUME RunsTypeOK, RunsReset, RecordRuns
  PROVE  RunsInv'
<1>1. RunsTypeOK'
  BY DEF RunsTypeOK, RunsReset, RunPC, RunReply
<1>2. ASSUME NEW r \in RunRequests PROVE RequestInv(r)'
  BY IdleInv DEF RunsReset
<1> QED
  BY <1>1, <1>2 DEF RunsInv

LEMMA RunsInvNext ==
  ASSUME HermesInv, RunsInv, RunHistoryNext
  PROVE  RunsInv'
<1>1. CASE UNCHANGED runLocals
  <2>1. RunsTypeOK'
    BY <1>1 DEF RunsInv, RunsTypeOK, runLocals
  <2>2. ASSUME NEW r \in RunRequests PROVE RequestInv(r)'
    BY <1>1, StaysInv DEF RunsInv, RunStays, runLocals, RunHistoryNext
  <2> QED
    BY <2>1, <2>2 DEF RunsInv
<1>2. CASE RunsNext
  <2>1. PICK s \in RunRequests : RunTrigger(s) \/ RunStep(s)
    BY <1>2 DEF RunsNext
  <2>2. RedisTypeOK /\ RunsTypeOK /\ PlaceInv(s)
    BY DEF HermesInv, StoreInv, RunsInv, RequestInv
  <2>3. RunsTypeOK'
    BY <2>1, <2>2, RunArrivesType, RunStepType
  <2>4. ASSUME NEW r \in RunRequests PROVE RequestInv(r)'
    <3>1. CASE r = s
      BY <2>1, <2>2, <3>1, RunStepInv DEF RunsInv, RunHistoryNext
    <3>2. CASE r # s
      BY <2>1, <2>2, <3>2, OtherRunStays, StaysInv DEF RunsInv, RunHistoryNext
    <3> QED
      BY <3>1, <3>2
  <2> QED
    BY <2>3, <2>4 DEF RunsInv
<1>3. CASE Crash
  BY <1>3, RunsResetInv DEF Crash, RunsInv, RunHistoryNext
<1>4. RunsNext \/ Crash \/ UNCHANGED runLocals
  BY DEF RunHistoryNext, HermesNext
<1> QED
  BY <1>1, <1>2, <1>3, <1>4

LEMMA RunHistoryInitInv ==
  ASSUME RunHistoryInit
  PROVE  HermesInv /\ RunsInv
<1>1. StoreInv
  BY DEF RunHistoryInit, RedisFilled, StoreInv, RedisTypeOK, Consistent, TriggersMirrored,
         FiltersBelongToLinks, AccountIsolation
<1>2. LocalsInv
  BY DEF RunHistoryInit, TriggerLocalsInit, LocalsInv, TriggerLocalsTypeOK, CreatePermitted,
         TriggerPC, Reply
<1>3. EventLocalsTypeOK
  BY DEF RunHistoryInit, EventLocalsInit, EventLocalsTypeOK, EventPC, CreateEventPC, EventReply
<1>4. RunsTypeOK
  BY DEF RunHistoryInit, RunLocalsInit, RunsTypeOK, RunPC, RunReply
<1>5. ASSUME NEW r \in RunRequests PROVE RequestInv(r)
  BY DEF RunHistoryInit, RunLocalsInit, RequestInv, HistoryInv, PlaceInv
<1> QED
  BY <1>1, <1>2, <1>3, <1>4, <1>5 DEF HermesInv, RunsInv

LEMMA RunsInvariant == RunHistorySpec => [](HermesInv /\ RunsInv)
<1>1. HermesInv /\ RunsInv /\ [RunHistoryNext]_<<vars, runHistory>> => (HermesInv /\ RunsInv)'
  <2> SUFFICES ASSUME HermesInv, RunsInv, [RunHistoryNext]_<<vars, runHistory>>
               PROVE  (HermesInv /\ RunsInv)'
    OBVIOUS
  <2>1. HermesInv'
    BY HermesNextInv DEF RunHistoryNext
  <2>2. CASE UNCHANGED <<vars, runHistory>>
    <3>1. RunsTypeOK'
      BY <2>2 DEF vars, runLocals, RunsInv, RunsTypeOK
    <3>2. ASSUME NEW r \in RunRequests PROVE RequestInv(r)'
      <4>1. RequestInv(r)
        BY DEF RunsInv
      <4> QED
        BY <2>2, <4>1 DEF vars, redis, runLocals, runHistory, RequestInv, HistoryInv, PlaceInv,
           LinkedTo, Due, SecretsOf
    <3> QED
      BY <2>1, <3>1, <3>2 DEF RunsInv
  <2> QED
    BY <2>1, <2>2, RunsInvNext
<1> QED
  BY <1>1, RunHistoryInitInv, PTL DEF RunHistorySpec

-----------------------------------------------------------------------------
(* RunsHistory: theorems *)

\* The locals of the handlers of normalized events have their types, and no
\* pipeline is both run and still to run.
THEOREM RunsTyped == RunHistorySpec => []RunsTypeOK
<1>1. RunsInv => RunsTypeOK
  BY DEF RunsInv
<1> QED
  BY <1>1, RunsInvariant, PTL

\* Whatever creators and deleters of the event race with the request, nothing
\* runs for a sender that knew no secret the event had while it was served.
THEOREM RunsSecret == RunHistorySpec => []RunsNeedSecret
<1>1. RunsInv => RunsNeedSecret
  BY DEF RunsInv, RequestInv, PlaceInv, RunsNeedSecret
<1> QED
  BY <1>1, RunsInvariant, PTL

\* A pipeline that stays linked to the event runs only if it was due: a filter
\* that is read late is still a filter of that link.
THEOREM RunsFiltered == RunHistorySpec => []StayingLinksAreFiltered
<1>1. RunsInv => StayingLinksAreFiltered
  <2> SUFFICES ASSUME RunsInv, NEW r \in RunRequests
               PROVE  ran[r] \cap linkedAlways[r] \subseteq dueEver[r]
    BY DEF StayingLinksAreFiltered
  <2> QED
    BY DEF RunsInv, RequestInv, PlaceInv
<1> QED
  BY <1>1, RunsInvariant, PTL

\* The two places the handler answers 200 from.
LEMMA RunAnswers ==
  ASSUME RunsTypeOK, NEW r \in RunRequests, RunHistoryNext,
         rpc[r] \in {"trigger exists", "run"}, RunReplies(r, "ok")
  PROVE  \/ rpc[r] = "trigger exists" /\ triggers[rreq[r].event] = {}
         \/ rpc[r] = "run" /\ selected[r] = {}
<1>1. ~Crash
  BY DEF Crash, RunsReset, RunReplies
<1>2. ~UNCHANGED runLocals
  BY DEF runLocals, RunReplies
<1>3. PICK s \in RunRequests : RunTrigger(s) \/ RunStep(s)
  BY <1>1, <1>2 DEF RunHistoryNext, HermesNext, RunsNext
<1>4. s = r
  BY <1>3, OtherRunStays DEF RunReplies, RunStays
<1> QED
  BY <1>3, <1>4 DEF RunTrigger, RunStep, RunGetEventExists, RunGetEvent, RunPublish,
     RunTriggerExists, RunRange, RunFilters, RunFiltersDone, RunPipeline, RunDone, RunRedisError,
     RunGoto, RunReturn, RunReplies, RunsTypeOK

\* An event that is answered 200 has run what was due all along, and nothing
\* that was not linked meanwhile.
THEOREM RunsComplete == RunHistorySpec => RunsBounded
<1>1. ASSUME HermesInv, RunsInv, [RunHistoryNext]_<<vars, runHistory>>
      PROVE  [\A r \in RunRequests :
                /\ rpc[r] \in {"trigger exists", "run"}
                /\ RunReplies(r, "ok")
                => dueAlways[r] \subseteq ran[r] /\ ran[r] \subseteq linkedEver[r]
             ]_<<vars, runHistory>>
  <2> SUFFICES ASSUME RunHistoryNext, NEW r \in RunRequests,
                      rpc[r] \in {"trigger exists", "run"}, RunReplies(r, "ok")
               PROVE  dueAlways[r] \subseteq ran[r] /\ ran[r] \subseteq linkedEver[r]
    BY <1>1
  <2>1. RequestInv(r) /\ RunsTypeOK
    BY <1>1 DEF RunsInv
  <2>2. CASE rpc[r] = "trigger exists" /\ triggers[rreq[r].event] = {}
    BY <2>1, <2>2 DEF RequestInv, HistoryInv, PlaceInv, Due
  <2>3. CASE rpc[r] = "run" /\ selected[r] = {}
    BY <2>1, <2>3 DEF RequestInv, PlaceInv
  <2> QED
    BY <2>1, <2>2, <2>3, RunAnswers
<1> QED
  BY <1>1, RunsInvariant, PTL DEF RunHistorySpec, RunsBounded

-----------------------------------------------------------------------------
(* CommandLine: one request or command at a time *)

\* While a handler of triggers is at work none of events is, and of events only one.
LEMMA TriggerStepsAlone ==
  ASSUME OneAtATime, NEW r \in TriggerRequests, TriggerStep(r), NEW s \in EventRequests
  PROVE  epc[s] = "idle"
<1>1. <<"trigger", r>> \in Busy
  BY TriggerStepBusy DEF Busy
<1>2. ASSUME epc[s] # "idle" PROVE FALSE
  <2>1. <<"event", s>> \in Busy
    BY <1>2 DEF Busy
  <2>2. <<"trigger", r>> = <<"event", s>>
    BY <1>1, <2>1 DEF OneAtATime
  <2> QED
    BY <2>2
<1> QED
  BY <1>2

LEMMA EventStepsAlone ==
  ASSUME OneAtATime, NEW r \in EventRequests, epc[r] # "idle", NEW s \in EventRequests, s # r
  PROVE  epc[s] = "idle"
<1>1. <<"event", r>> \in Busy
  BY DEF Busy
<1>2. ASSUME epc[s] # "idle" PROVE FALSE
  <2>1. <<"event", s>> \in Busy
    BY <1>2 DEF Busy
  <2>2. <<"event", r>> = <<"event", s>>
    BY <1>1, <2>1 DEF OneAtATime
  <2> QED
    BY <2>2
<1> QED
  BY <1>2

\* What a step of the server or of a command can be, for the keys of links and
\* of events.
LEMMA CommandLineSteps ==
  ASSUME [CommandLineNext]_commandLineVars
  PROVE  \/ \E r \in TriggerRequests :
              /\ TriggerArrives(r) \/ TriggerStep(r)
              /\ UNCHANGED <<subscribed, eventLocals>>
         \/ \E r \in EventRequests :
              /\ EventArrives(r) \/ EventStep(r) \/ CommandDeleteEventExec(r)
              /\ UNCHANGED triggerLocals
         \/ UNCHANGED <<redis, subscribed, triggerLocals, eventLocals>>
         \/ Crash
<1>1. CASE HermesNext
  BY <1>1, RunsReadOnly DEF HermesNext, PipelineDeleted
<1>2. CASE CommandArrives
  <2>1. ASSUME NEW r \in RunRequests, RunCommandArrives(r) PROVE UNCHANGED redis
    BY <2>1 DEF RunCommandArrives
  <2> QED
    BY <1>2, <2>1 DEF CommandArrives, TriggerCommandArrives, TriggerArrives, EventCommandArrives,
       EventArrives
<1>3. CASE CommandStep
  <2>1. ASSUME NEW r \in RunRequests, RunCommandStep(r) PROVE UNCHANGED redis
    BY <2>1 DEF RunCommandStep, CommandTriggerExists, RunRange, RunFilters, CommandFiltersDone,
       RunGetEventExists, CommandGetEvent, RunPipeline, RunDone, RunRedisError, redis
  <2> QED
    BY <1>3, <2>1 DEF CommandStep, EventCommandStep, EventStep
<1>4. CASE PipelineGone
  BY <1>4 DEF PipelineGone, PipelineDeleted
<1>5. CASE UNCHANGED commandLineVars
  BY <1>5 DEF commandLineVars, vars
<1> QED
  BY <1>1, <1>2, <1>3, <1>4, <1>5 DEF CommandLineNext

-----------------------------------------------------------------------------
(* CommandLine: the transaction of trigger-event delete *)

LEMMA CommandDeletes ==
  ASSUME RedisTypeOK, EventLocalsTypeOK, SubscribedType, NEW r \in EventRequests,
         CommandDeleteEventExec(r)
  PROVE  /\ EventLocalsTypeOK' /\ SubscribedType'
         /\ Alone(r) /\ epc'[r] = "idle" /\ epc[r] = "delete exec"
         /\ ereq[r].event \in Events /\ RemoveEvent(ereq[r].event)
<1>1. /\ epc[r] = "delete exec" /\ RemoveEvent(ereq[r].event) /\ UNCHANGED subscribed
      /\ EventReturn(r, "reset") \/ EventReturn(r, "error")
  BY DEF CommandDeleteEventExec
<1>2. EventLocalsTypeOK'
  BY <1>1, EventReturnLocals DEF EventReply
<1>3. Alone(r)
  BY <1>1, ControlAlone
<1>4. epc'[r] = "idle"
  BY <1>1 DEF EventReturn, EventLocalsTypeOK
<1>5. ereq[r].event \in Events
  BY <1>1 DEF EventLocalsTypeOK, EventRequestRecord
<1> QED
  BY <1>1, <1>2, <1>3, <1>4, <1>5 DEF SubscribedType

-----------------------------------------------------------------------------
(* CommandLine: every step *)

SerialInv ==
  HermesInv /\ SubscribedType /\ OneAtATime /\ IndexesAgree /\ RangeChecked

LEMMA SerialStep ==
  ASSUME SerialInv, [CommandLineNext /\ OneAtATime']_commandLineVars
  PROVE  SerialInv'
<1>1. /\ StoreInv /\ RedisTypeOK /\ LocalsInv /\ EventLocalsTypeOK
      /\ SubscribedType /\ OneAtATime /\ IndexesAgree /\ RangeChecked
  BY DEF SerialInv, HermesInv, StoreInv
<1>2. OneAtATime'
  BY <1>1 DEF OneAtATime, Busy, commandLineVars, vars, triggerLocals, eventLocals, runLocals
<1>3. ASSUME NEW r \in TriggerRequests, TriggerArrives(r) \/ TriggerStep(r),
             UNCHANGED <<subscribed, eventLocals>>
      PROVE  SerialInv'
  <2>1. LocalsInv' /\ (LinkStep \/ UNCHANGED redis)
    BY <1>1, <1>3, StepLinks
  <2>2. StoreInv' /\ IndexesAgree'
    BY <1>1, <2>1, LinkStepInv, LinkStepAgree, StoreUnchanged DEF IndexesAgree, redis
  <2>3. EventLocalsTypeOK' /\ SubscribedType'
    BY <1>1, <1>3, EventLocalsUnchanged DEF SubscribedType
  <2>4. RangeChecked'
    <3>1. CASE TriggerArrives(r)
      BY <1>1, <1>3, <3>1, ArrivesLocals DEF RangeChecked, redis, eventLocals
    <3>2. CASE TriggerStep(r)
      BY <1>1, <1>3, <3>2, TriggerStepsAlone DEF RangeChecked, eventLocals
    <3> QED
      BY <1>3, <3>1, <3>2
  <2> QED
    BY <1>2, <2>1, <2>2, <2>3, <2>4 DEF SerialInv, HermesInv
<1>4. ASSUME NEW r \in EventRequests, EventArrives(r) \/ EventStep(r), UNCHANGED triggerLocals
      PROVE  SerialInv'
  <2>1. EventLocalsTypeOK' /\ (EventWrite \/ UNCHANGED redis) /\ SubscribedType'
    BY <1>1, <1>4, EventStepWrites, SubscribedStep
  <2>2. StoreInv' /\ LocalsInv'
    BY <1>1, <1>4, <2>1, EventWriteInv, StoreUnchanged, LocalsUnchanged
  <2>3. IndexesAgree'
    BY <1>1, <1>4, EventStepLinksNone DEF IndexesAgree
  <2>4. RangeChecked'
    BY <1>1, <1>4, RangeCheckedStep
  <2> QED
    BY <1>2, <2>1, <2>2, <2>3, <2>4 DEF SerialInv, HermesInv
<1>5. ASSUME NEW r \in EventRequests, CommandDeleteEventExec(r), UNCHANGED triggerLocals
      PROVE  SerialInv'
  <2>1. /\ EventLocalsTypeOK' /\ SubscribedType' /\ Alone(r) /\ epc'[r] = "idle"
        /\ epc[r] = "delete exec" /\ ereq[r].event \in Events /\ RemoveEvent(ereq[r].event)
    BY <1>1, <1>5, CommandDeletes
  <2>2. StoreInv' /\ LocalsInv'
    BY <1>1, <1>5, <2>1, EventWriteInv, LocalsUnchanged DEF EventWrite
  <2>3. triggers' = triggers /\ pipelines' = pipelines
    <3>1. triggers[ereq[r].event] = {}
      BY <1>1, <2>1 DEF RangeChecked
    <3> QED
      BY <1>1, <2>1, <3>1 DEF RemoveEvent, RedisTypeOK
  <2>4. IndexesAgree' /\ RangeChecked'
    BY <1>1, <2>1, <2>3 DEF IndexesAgree, RangeChecked, Alone
  <2> QED
    BY <1>2, <2>1, <2>2, <2>4 DEF SerialInv, HermesInv
<1>6. CASE UNCHANGED <<redis, subscribed, triggerLocals, eventLocals>>
  <2>1. StoreInv' /\ LocalsInv' /\ EventLocalsTypeOK'
    BY <1>1, <1>6, StoreUnchanged, LocalsUnchanged, EventLocalsUnchanged
  <2>2. SubscribedType' /\ IndexesAgree' /\ RangeChecked'
    BY <1>1, <1>6 DEF SubscribedType, IndexesAgree, RangeChecked, redis, eventLocals
  <2> QED
    BY <1>2, <2>1, <2>2 DEF SerialInv, HermesInv
<1>7. CASE Crash
  <2>1. StoreInv' /\ LocalsInv' /\ EventLocalsTypeOK'
    BY <1>1, <1>7, StoreUnchanged, ResetLocals, EventsResetLocals DEF Crash
  <2>2. SubscribedType' /\ IndexesAgree' /\ RangeChecked'
    BY <1>1, <1>7 DEF Crash, EventsReset, SubscribedType, IndexesAgree, RangeChecked, redis
  <2> QED
    BY <1>2, <2>1, <2>2 DEF SerialInv, HermesInv
<1>8. [CommandLineNext]_commandLineVars
  OBVIOUS
<1> QED
  BY <1>3, <1>4, <1>5, <1>6, <1>7, <1>8, CommandLineSteps

LEMMA SerialInit ==
  ASSUME CommandLineInit
  PROVE  SerialInv
<1>1. HermesInv
  BY HermesInitInv DEF CommandLineInit
<1>2. SubscribedType /\ OneAtATime /\ IndexesAgree /\ RangeChecked
  BY DEF CommandLineInit, HermesInit, RedisEmpty, TriggerLocalsInit, EventLocalsInit,
     RunLocalsInit, SubscribedType, OneAtATime, Busy, IndexesAgree, RangeChecked
<1> QED
  BY <1>1, <1>2 DEF SerialInv

LEMMA SerialInvariant == CommandLineSpec => []SerialInv
  BY SerialInit, SerialStep, PTL DEF CommandLineSpec

\* When no two requests or commands overlap, whichever call fails and whenever
\* the server or a command is killed: the keys of events and of pipelines
\* record the same links.
THEOREM SerialIndexesAgree == CommandLineSpec => []IndexesAgree
<1>1. SerialInv => IndexesAgree
  BY DEF SerialInv
<1> QED
  BY <1>1, SerialInvariant, PTL

\* .. and no event goes away with pipelines linked to it: it takes a link made
\* between the check of DeleteEvent and its transaction to break that.
THEOREM SerialLinkedStay == CommandLineSpec => LinkedEventStays
<1>1. SerialInv /\ [CommandLineNext /\ OneAtATime']_commandLineVars =>
        [\A e \in Events : EventExists(e) /\ events'[e] = NoEvent => triggers[e] = {}]_redis
  <2> SUFFICES ASSUME SerialInv, [CommandLineNext]_commandLineVars,
                      NEW e \in Events, EventExists(e), events'[e] = NoEvent
               PROVE  triggers[e] = {}
    OBVIOUS
  <2>1. RedisTypeOK /\ LocalsInv /\ EventLocalsTypeOK /\ SubscribedType /\ RangeChecked
    BY DEF SerialInv, HermesInv, StoreInv
  <2>2. ASSUME NEW r \in TriggerRequests, TriggerArrives(r) \/ TriggerStep(r) PROVE FALSE
    <3>1. LinkStep \/ UNCHANGED redis
      BY <2>1, <2>2, StepLinks
    <3> QED
      BY <3>1 DEF LinkStep, RemoveTrigger, StoreTrigger, redis, EventExists
  <2>3. ~UNCHANGED redis /\ ~Crash
    BY DEF redis, EventExists, Crash
  <2>4. PICK r \in EventRequests : EventArrives(r) \/ EventStep(r) \/ CommandDeleteEventExec(r)
    BY <2>2, <2>3, CommandLineSteps
  <2>5. epc[r] = "delete exec" /\ ereq[r].event = e
    <3>1. CASE CommandDeleteEventExec(r)
      BY <2>1, <3>1, CommandDeletes DEF RemoveEvent, RedisTypeOK, EventExists
    <3> QED
      BY <2>1, <2>4, <3>1, EventGoes
  <2> QED
    BY <2>1, <2>5 DEF RangeChecked
<1> QED
  BY <1>1, SerialInvariant, PTL DEF CommandLineSpec, LinkedEventStays
-----------------------------------------------------------------------------
(* CommandLine: stored events and their subscriptions *)

\* A creation that has passed its reads, or a deletion that has removed its
\* event, finds no event stored until it is done; and a creation that is about to
\* store one that is always subscribed has subscribed it with its secret.
Undisturbed(r) ==
  /\ epc[r] \in {"create subscribe", "create info", "create exec", "delete unsubscribe"} =>
       ~EventExists(ereq[r].event)
  /\ epc[r] = "create exec" /\ ereq[r].event \in AlwaysSubscribed =>
       subscribed[ereq[r].event] = ereq[r].secret
  /\ epc[r] = "create info" => ereq[r].event \notin AlwaysSubscribed

SubscriptionInv == StoredIsSubscribed /\ \A r \in EventRequests : Undisturbed(r)

LEMMA CreateSubscribes ==
  ASSUME "redis" \notin EventFaults, RedisTypeOK, EventLocalsTypeOK, SubscribedType,
         StoredIsSubscribed, NEW r \in EventRequests, Undisturbed(r),
         \/ CreateEventExists(r) \/ CreateEventGet(r) \/ SubscribeToEvent(r)
         \/ GetEventInfo(r) \/ CreateEventExec(r)
  PROVE  StoredIsSubscribed' /\ Undisturbed(r)'
<1>1. /\ epc \in [EventRequests -> EventPC] /\ DOMAIN ereq = EventRequests
      /\ DOMAIN events = Events /\ DOMAIN subscribed = Events
      /\ AlwaysSubscribed \subseteq Events
  BY SubscribableAssumption DEF EventLocalsTypeOK, RedisTypeOK, SubscribedType, AlwaysSubscribed
<1>2. ereq[r].event \in Events
  BY DEF CreateEventExists, CreateEventGet, SubscribeToEvent, GetEventInfo, CreateEventExec,
     EventLocalsTypeOK, EventRequestRecord
<1>3. ASSUME NEW next, EventGoto(r, next) PROVE epc'[r] = next /\ ereq'[r] = ereq[r]
  BY <1>1, <1>3 DEF EventGoto
<1>4. ASSUME NEW result, EventReturn(r, result) PROVE Undisturbed(r)'
  BY <1>1, <1>4 DEF EventReturn, Undisturbed
<1>5. CASE CreateEventExists(r)
  <2>1. StoredIsSubscribed' /\ events' = events
    BY <1>5 DEF CreateEventExists, StoredIsSubscribed, EventExists, redis
  <2>2. /\ ereq'[r] = ereq[r]
        /\ \/ epc'[r] = "create get"
           \/ epc'[r] = "create subscribe" /\ ~EventExists(ereq[r].event)
    BY <1>3, <1>5 DEF CreateEventExists
  <2> QED
    BY <2>1, <2>2 DEF Undisturbed, EventExists
<1>6. CASE CreateEventGet(r)
  <2>1. StoredIsSubscribed' /\ events' = events
    BY <1>6 DEF CreateEventGet, StoredIsSubscribed, EventExists, redis
  <2>2. ASSUME EventGoto(r, "create subscribe"), ~EventExists(ereq[r].event)
        PROVE  Undisturbed(r)'
    <3>1. epc'[r] = "create subscribe" /\ ereq'[r] = ereq[r]
      BY <1>3, <2>2
    <3> QED
      BY <2>1, <2>2, <3>1 DEF Undisturbed, EventExists
  <2> QED
    BY <1>4, <1>6, <2>1, <2>2 DEF CreateEventGet
<1>7. CASE SubscribeToEvent(r)
  <2>1. ~EventExists(ereq[r].event) /\ events' = events
    BY <1>7 DEF SubscribeToEvent, Undisturbed, redis
  <2>2. \A e \in Events : e # ereq[r].event => subscribed'[e] = subscribed[e]
    BY <1>1, <1>7 DEF SubscribeToEvent
  <2>3. StoredIsSubscribed'
    BY <1>1, <2>1, <2>2 DEF StoredIsSubscribed, EventExists
  <2>4. Undisturbed(r)'
    <3>1. CASE /\ ereq[r].event \in Subscribable
               /\ subscribed' = [subscribed EXCEPT ![ereq[r].event] = ereq[r].secret]
               /\ EventGoto(r, "create exec")
      <4>1. epc'[r] = "create exec" /\ ereq'[r] = ereq[r]
        BY <1>3, <3>1
      <4> QED
        BY <1>1, <1>2, <2>1, <3>1, <4>1 DEF Undisturbed, EventExists
    <3>2. CASE ereq[r].event \in Describable /\ EventGoto(r, "create info")
      BY <1>3, <2>1, <3>2 DEF Undisturbed, EventExists, AlwaysSubscribed
    <3> QED
      BY <1>4, <1>7, <3>1, <3>2 DEF SubscribeToEvent
  <2> QED
    BY <2>3, <2>4
<1>8. CASE GetEventInfo(r)
  BY <1>3, <1>4, <1>8 DEF GetEventInfo, Undisturbed, StoredIsSubscribed, EventExists, redis
<1>9. CASE CreateEventExec(r)
  <2>1. /\ events' = [events EXCEPT ![ereq[r].event] = ereq[r].secret]
        /\ subscribed' = subscribed
        /\ ereq[r].event \in AlwaysSubscribed => subscribed[ereq[r].event] = ereq[r].secret
    BY <1>9 DEF CreateEventExec, StoreEvent, Undisturbed, EventExists
  <2>2. StoredIsSubscribed'
    BY <1>1, <1>2, <2>1 DEF StoredIsSubscribed, EventExists
  <2> QED
    BY <1>4, <1>9, <2>2 DEF CreateEventExec
<1> QED
  BY <1>5, <1>6, <1>7, <1>8, <1>9

LEMMA DeleteUnsubscribes ==
  ASSUME RedisTypeOK, EventLocalsTypeOK, SubscribedType,
         StoredIsSubscribed, NEW r \in EventRequests, Undisturbed(r),
         \/ DeleteEventExists(r) \/ DeleteEventAccount(r) \/ DeleteEventRange(r)
         \/ DeleteEventExec(r) \/ UnsubscribeFromEvent(r) \/ CommandDeleteEventExec(r)
  PROVE  StoredIsSubscribed' /\ Undisturbed(r)'
<1>1. /\ epc \in [EventRequests -> EventPC] /\ DOMAIN ereq = EventRequests
      /\ DOMAIN events = Events /\ DOMAIN subscribed = Events
      /\ AlwaysSubscribed \subseteq Events
  BY SubscribableAssumption DEF EventLocalsTypeOK, RedisTypeOK, SubscribedType, AlwaysSubscribed
<1>2. ereq[r].event \in Events
  BY DEF DeleteEventExists, DeleteEventAccount, DeleteEventRange, DeleteEventExec,
     UnsubscribeFromEvent, CommandDeleteEventExec, EventLocalsTypeOK, EventRequestRecord
<1>3. ASSUME NEW next, EventGoto(r, next) PROVE epc'[r] = next /\ ereq'[r] = ereq[r]
  BY <1>1, <1>3 DEF EventGoto
<1>4. ASSUME NEW result, EventReturn(r, result) PROVE Undisturbed(r)'
  BY <1>1, <1>4 DEF EventReturn, Undisturbed
<1>5. CASE DeleteEventExists(r) \/ DeleteEventAccount(r) \/ DeleteEventRange(r)
  <2>1. StoredIsSubscribed'
    BY <1>5 DEF DeleteEventExists, DeleteEventAccount, DeleteEventRange, StoredIsSubscribed,
       EventExists, redis
  <2>2. ASSUME NEW next \in {"delete account", "delete range", "delete exec"}, EventGoto(r, next)
        PROVE  Undisturbed(r)'
    BY <1>3, <2>2 DEF Undisturbed
  <2> QED
    BY <1>4, <1>5, <2>1, <2>2 DEF DeleteEventExists, DeleteEventAccount, DeleteEventRange
<1>6. CASE DeleteEventExec(r) \/ CommandDeleteEventExec(r)
  <2>1. events' = [events EXCEPT ![ereq[r].event] = NoEvent] /\ subscribed' = subscribed
    BY <1>6 DEF DeleteEventExec, CommandDeleteEventExec, RemoveEvent
  <2>2. StoredIsSubscribed'
    BY <1>1, <1>2, <2>1 DEF StoredIsSubscribed, EventExists
  <2>3. ASSUME EventGoto(r, "delete unsubscribe") PROVE Undisturbed(r)'
    <3>1. epc'[r] = "delete unsubscribe" /\ ereq'[r] = ereq[r]
      BY <1>3, <2>3
    <3> QED
      BY <1>1, <1>2, <2>1, <3>1 DEF Undisturbed, EventExists
  <2> QED
    BY <1>4, <1>6, <2>2, <2>3 DEF DeleteEventExec, CommandDeleteEventExec
<1>7. CASE UnsubscribeFromEvent(r)
  <2>1. ~EventExists(ereq[r].event) /\ events' = events
    BY <1>7 DEF UnsubscribeFromEvent, Undisturbed, redis
  <2>2. \A e \in Events : e # ereq[r].event => subscribed'[e] = subscribed[e]
    BY <1>1, <1>7 DEF UnsubscribeFromEvent
  <2>3. StoredIsSubscribed'
    BY <1>1, <2>1, <2>2 DEF StoredIsSubscribed, EventExists
  <2> QED
    BY <1>4, <1>7, <2>3 DEF UnsubscribeFromEvent
<1> QED
  BY <1>5, <1>6, <1>7

LEMMA ReadsSubscribeNothing ==
  ASSUME EventLocalsTypeOK, StoredIsSubscribed, NEW r \in EventRequests,
         \/ EventArrives(r) \/ GetEventsKeys(r) \/ GetEventsPublicKeys(r) \/ GetEventsNext(r)
         \/ GetEventsDone(r) \/ GetEventExists(r) \/ GetEventFields(r) \/ EventRedisError(r)
  PROVE  UNCHANGED <<redis, subscribed>> /\ StoredIsSubscribed' /\ Undisturbed(r)'
<1>1. UNCHANGED <<redis, subscribed>>
  BY ArrivalsRead DEF GetEventsKeys, GetEventsPublicKeys, GetEventsNext, GetEventsDone,
     GetEventExists, GetEventFields, EventRedisError
<1>2. epc'[r] \notin {"create subscribe", "create info", "create exec", "delete unsubscribe"}
  <2>1. CASE EventArrives(r)
    BY <2>1, ArrivalsRead
  <2>2. epc \in [EventRequests -> EventPC]
    BY DEF EventLocalsTypeOK
  <2> QED
    BY <2>1, <2>2 DEF GetEventsKeys, GetEventsPublicKeys, GetEventsNext, GetEventsDone,
       GetEventExists, GetEventFields, EventRedisError, EventGoto, EventReturn
<1> QED
  BY <1>1, <1>2 DEF StoredIsSubscribed, Undisturbed, EventExists, redis

LEMMA SubscriptionStep ==
  ASSUME "redis" \notin EventFaults, SerialInv, SubscriptionInv,
         [CommandLineNext]_commandLineVars
  PROVE  SubscriptionInv'
<1>1. /\ RedisTypeOK /\ LocalsInv /\ EventLocalsTypeOK /\ SubscribedType /\ OneAtATime
      /\ StoredIsSubscribed /\ \A r \in EventRequests : Undisturbed(r)
  BY DEF SerialInv, HermesInv, StoreInv, SubscriptionInv
<1>2. CASE UNCHANGED <<events, subscribed, eventLocals>>
  BY <1>1, <1>2 DEF SubscriptionInv, StoredIsSubscribed, Undisturbed, EventExists, eventLocals
<1>3. ASSUME NEW r \in TriggerRequests, TriggerArrives(r) \/ TriggerStep(r)
      PROVE  events' = events
  <2>1. LinkStep \/ UNCHANGED redis
    BY <1>1, <1>3, StepLinks
  <2> QED
    BY <2>1 DEF LinkStep, StoreTrigger, RemoveTrigger, redis
<1>4. ASSUME NEW r \in EventRequests, EventArrives(r)
      PROVE  SubscriptionInv'
  <2>1. Alone(r) /\ UNCHANGED <<redis, subscribed>> /\ StoredIsSubscribed' /\ Undisturbed(r)'
    BY <1>1, <1>4, ArrivesAlone, ReadsSubscribeNothing
  <2> QED
    BY <1>1, <2>1 DEF SubscriptionInv, Undisturbed, EventExists, redis, Alone
<1>5. ASSUME NEW r \in EventRequests, EventStep(r) \/ CommandDeleteEventExec(r)
      PROVE  SubscriptionInv'
  <2>1. epc[r] # "idle" /\ Alone(r)
    BY <1>1, <1>5, StepBusy, StepAlone, CommandDeletes
  <2>2. \A s \in EventRequests \ {r} : Undisturbed(s)'
    <3>1. \A s \in EventRequests \ {r} : epc'[s] = "idle"
      BY <1>1, <2>1, EventStepsAlone DEF Alone
    <3> QED
      BY <3>1 DEF Undisturbed
  <2>3. StoredIsSubscribed' /\ Undisturbed(r)'
    BY <1>1, <1>5, CreateSubscribes, DeleteUnsubscribes, ReadsSubscribeNothing DEF EventStep
  <2> QED
    BY <2>2, <2>3 DEF SubscriptionInv
<1>6. CASE Crash
  BY <1>1, <1>6 DEF Crash, EventsReset, SubscriptionInv, StoredIsSubscribed, Undisturbed,
     EventExists, redis
<1> QED
  BY <1>2, <1>3, <1>4, <1>5, <1>6, CommandLineSteps DEF redis

LEMMA SubscriptionInvariant ==
  ASSUME "redis" \notin EventFaults
  PROVE  CommandLineSpec => []SubscriptionInv
<1>1. CommandLineInit => SubscriptionInv
  BY DEF CommandLineInit, HermesInit, RedisEmpty, EventLocalsInit, SubscriptionInv,
     StoredIsSubscribed, Undisturbed, EventExists, AlwaysSubscribed
<1>2. SerialInv /\ SubscriptionInv /\ [CommandLineNext /\ OneAtATime']_commandLineVars =>
        SubscriptionInv'
  BY SubscriptionStep
<1> QED
  BY <1>1, <1>2, SerialInvariant, PTL DEF CommandLineSpec

\* When Redis answers and no two requests or commands overlap: the secret of a
\* stored event is the one its provider was subscribed with, whichever call of
\* a provider fails, whenever the process ends between the subscription and the
\* transaction, and although the command that deletes an event unsubscribes nothing.
THEOREM SerialSubscribed ==
  ASSUME "redis" \notin EventFaults
  PROVE  CommandLineSpec => []StoredIsSubscribed
<1>1. SubscriptionInv => StoredIsSubscribed
  BY DEF SubscriptionInv
<1> QED
  BY <1>1, SubscriptionInvariant, PTL

\* .. and the secret CreateEvent answers is the one it stores: two creators that
\* overlap, or one that fails to read an event that exists, break that.
THEOREM SerialCreatedSecret ==
  ASSUME "redis" \notin EventFaults
  PROVE  CommandLineSpec => CreatedSecretIsStored
<1>1. SerialInv /\ SubscriptionInv /\ [CommandLineNext]_commandLineVars =>
        [\A r \in EventRequests :
           epc[r] = "create exec" /\ epc'[r] = "idle" /\ ereply'[r] = "ok"
             => events'[ereq[r].event] = ereq[r].secret]_eventVars
  <2> SUFFICES ASSUME SerialInv, SubscriptionInv, [CommandLineNext]_commandLineVars,
                      NEW r \in EventRequests,
                      epc[r] = "create exec", epc'[r] = "idle", ereply'[r] = "ok"
               PROVE  events'[ereq[r].event] = ereq[r].secret
    OBVIOUS
  <2>1. /\ RedisTypeOK /\ LocalsInv /\ EventLocalsTypeOK /\ SubscribedType /\ Undisturbed(r)
        /\ ~EventExists(ereq[r].event) /\ ereq[r].event \in Events
    BY DEF SerialInv, HermesInv, StoreInv, SubscriptionInv, Undisturbed, EventLocalsTypeOK,
       EventRequestRecord
  <2>2. ~UNCHANGED eventLocals /\ ~Crash
    BY DEF eventLocals, Crash, EventsReset
  <2>3. PICK s \in EventRequests :
          EventArrives(s) \/ EventStep(s) \/ CommandDeleteEventExec(s)
    BY <2>2, CommandLineSteps
  <2>4. s = r
    BY <2>1, <2>3, ArrivesAlone, StepAlone, CommandDeletes DEF Alone
  <2>5. ~EventRedisError(r)
    BY <2>1 DEF EventRedisError, EventReturn, EventLocalsTypeOK
  <2>6. CreateEventExec(r)
    <3>1. ~EventArrives(r)
      BY <2>1, ArrivalsRead
    <3> QED
      BY <2>3, <2>4, <2>5, <3>1 DEF EventStep, CreateEventExists, CreateEventGet, SubscribeToEvent,
         GetEventInfo, DeleteEventExists, DeleteEventAccount, DeleteEventRange, DeleteEventExec,
         UnsubscribeFromEvent, GetEventsKeys, GetEventsPublicKeys, GetEventsNext, GetEventsDone,
         GetEventExists, GetEventFields, CommandDeleteEventExec
  <2> QED
    BY <2>1, <2>6 DEF CreateEventExec, StoreEvent, EventExists, RedisTypeOK
<1> QED
  BY <1>1, SerialInvariant, SubscriptionInvariant, PTL DEF CommandLineSpec, CreatedSecretIsStored
=============================================================================
