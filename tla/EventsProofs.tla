---------------------------- MODULE EventsProofs ----------------------------
(***************************************************************************)
(* The handlers of Events keep their types and the secrets of the events   *)
(* that are stored.                                                        *)
(***************************************************************************)
EXTENDS Events, TLAPS

-----------------------------------------------------------------------------
(* Control of one request *)

\* A request of a handler other than CreateEvent, or of CreateEvent itself.
LEMMA EventBeginLocals ==
  ASSUME EventLocalsTypeOK, NEW r \in EventRequests, NEW q \in EventRequestRecord,
         NEW next \in EventPC \ {"idle"},
         next \in CreateEventPC => q.op = "CreateEvent",
         EventBegin(r, q, next)
  PROVE  EventLocalsTypeOK'
  BY DEF EventLocalsTypeOK, EventBegin, EventReply

LEMMA EventGotoLocals ==
  ASSUME EventLocalsTypeOK, NEW r \in EventRequests, epc[r] # "idle",
         NEW next \in EventPC \ {"idle"},
         next \in CreateEventPC => epc[r] \in CreateEventPC,
         EventGoto(r, next)
  PROVE  EventLocalsTypeOK'
  BY DEF EventLocalsTypeOK, EventGoto

LEMMA EventReturnLocals ==
  ASSUME EventLocalsTypeOK, NEW r \in EventRequests, NEW result \in EventReply,
         EventReturn(r, result)
  PROVE  EventLocalsTypeOK'
<1>1. "idle" \in EventPC /\ "idle" \notin CreateEventPC
  BY DEF EventPC, CreateEventPC
<1> QED
  BY <1>1 DEF EventLocalsTypeOK, EventReturn

\* A step of GetEvents that goes to next, takes over an event or not, and
\* changes the sets the handler works on.
LEMMA EventLoopLocals ==
  ASSUME EventLocalsTypeOK, NEW r \in EventRequests, epc[r] # "idle",
         NEW next \in EventPC \ CreateEventPC,
         NEW visit \in SUBSET Events, NEW listed \in SUBSET Events,
         epc' = [epc EXCEPT ![r] = next],
         ereq' = ereq \/ (\E e \in Events : ereq' = [ereq EXCEPT ![r].event = e]),
         etodo' = [etodo EXCEPT ![r] = visit],
         elisting' = [elisting EXCEPT ![r] = listed],
         ereply' = ereply
  PROVE  EventLocalsTypeOK'
<1>1. /\ ereq' \in [EventRequests -> EventRequestRecord \cup {NoEventRequest}]
      /\ ereq'[r] \in EventRequestRecord
      /\ \A s \in EventRequests \ {r} : ereq'[s] = ereq[s]
  <2>1. ereq[r] \in EventRequestRecord
    BY DEF EventLocalsTypeOK
  <2>2. CASE ereq' = ereq
    BY <2>1, <2>2 DEF EventLocalsTypeOK
  <2>3. ASSUME NEW e \in Events, ereq' = [ereq EXCEPT ![r].event = e]
        PROVE  <1>1!:
    <3>1. [ereq[r] EXCEPT !.event = e] \in EventRequestRecord
      BY <2>1 DEF EventRequestRecord
    <3> QED
      BY <2>3, <3>1 DEF EventLocalsTypeOK
  <2> QED
    BY <2>2, <2>3
<1> QED
  BY <1>1 DEF EventLocalsTypeOK

-----------------------------------------------------------------------------
(* What the handlers write *)

\* A transaction of CreateEvent or of DeleteEvent.
EventWrite ==
  \E e \in Events : RemoveEvent(e) \/ \E secret \in Secrets : StoreEvent(e, secret)

LEMMA EventWriteType ==
  ASSUME RedisTypeOK, EventWrite
  PROVE  RedisTypeOK'
  BY DEF RedisTypeOK, EventWrite, StoreEvent, RemoveEvent

LEMMA EventArrivesLocals ==
  ASSUME EventLocalsTypeOK, NEW r \in EventRequests, EventArrives(r)
  PROVE  EventLocalsTypeOK' /\ UNCHANGED redis
<1>1. ASSUME CreateEvent(r) PROVE EventLocalsTypeOK'
  <2>1. ASSUME NEW account \in Accounts, NEW e \in Events, NEW secret \in Secrets,
               EventBegin(r, [op |-> "CreateEvent", account |-> account, event |-> e,
                              secret |-> secret], "create exists")
        PROVE  EventLocalsTypeOK'
    <3> DEFINE q == [op |-> "CreateEvent", account |-> account, event |-> e,
                     secret |-> secret]
    <3>1. q \in EventRequestRecord /\ q.op = "CreateEvent"
      BY DEF EventRequestRecord
    <3>2. EventBegin(r, q, "create exists")
      BY <2>1
    <3> HIDE DEF q
    <3> QED
      BY <3>1, <3>2, EventBeginLocals DEF EventPC
  <2>2. CASE EventReturn(r, "error")
    BY <2>2, EventReturnLocals DEF EventReply
  <2> QED
    BY <1>1, <2>1, <2>2 DEF CreateEvent
<1>2. ASSUME NEW account \in Accounts, NEW e \in Events, NEW op \in {"DeleteEvent", "GetEvent"},
             NEW next \in {"delete exists", "get exists"},
             EventBegin(r, [op |-> op, account |-> account, event |-> e], next)
      PROVE  EventLocalsTypeOK'
  <2> DEFINE q == [op |-> op, account |-> account, event |-> e]
  <2>1. q \in EventRequestRecord
    BY DEF EventRequestRecord
  <2>2. EventBegin(r, q, next)
    BY <1>2
  <2> HIDE DEF q
  <2> QED
    BY <2>1, <2>2, EventBeginLocals DEF EventPC, CreateEventPC
<1>3. ASSUME GetEvents(r) PROVE EventLocalsTypeOK'
  <2>1. PICK account \in Accounts, public \in BOOLEAN :
          EventBegin(r, [op |-> "GetEvents", account |-> account, event |-> AnyEvent,
                         public |-> public], "keys")
    BY <1>3 DEF GetEvents
  <2> DEFINE q == [op |-> "GetEvents", account |-> account, event |-> AnyEvent,
                   public |-> public]
  <2>2. q \in EventRequestRecord
    BY EventsNonEmpty DEF EventRequestRecord, AnyEvent
  <2>3. EventBegin(r, q, "keys")
    BY <2>1
  <2> HIDE DEF q
  <2> QED
    BY <2>2, <2>3, EventBeginLocals DEF EventPC, CreateEventPC
<1>4. ASSUME DeleteEvent(r) \/ GetEvent(r) PROVE EventLocalsTypeOK'
  BY <1>2, <1>4 DEF DeleteEvent, GetEvent
<1>5. UNCHANGED redis
  BY DEF EventArrives, CreateEvent, DeleteEvent, GetEvents, GetEvent, redis
<1> QED
  BY <1>1, <1>3, <1>4, <1>5 DEF EventArrives
\* The steps of CreateEvent.
LEMMA CreateEventStep ==
  ASSUME EventLocalsTypeOK, NEW r \in EventRequests,
         \/ CreateEventExists(r) \/ CreateEventGet(r) \/ SubscribeToEvent(r)
         \/ GetEventInfo(r) \/ CreateEventExec(r)
  PROVE  EventLocalsTypeOK' /\ (EventWrite \/ UNCHANGED redis)
<1>1. ASSUME epc[r] \in CreateEventPC, NEW next \in CreateEventPC, EventGoto(r, next)
      PROVE  EventLocalsTypeOK'
  <2>1. next \in EventPC \ {"idle"} /\ epc[r] # "idle"
    BY <1>1 DEF EventPC, CreateEventPC
  <2> QED
    BY <1>1, <2>1, EventGotoLocals
<1>2. ASSUME NEW result \in {"ok", "error"}, EventReturn(r, result) PROVE EventLocalsTypeOK'
  BY <1>2, EventReturnLocals DEF EventReply
<1>3. CASE CreateEventExists(r)
  BY <1>1, <1>3 DEF CreateEventExists, CreateEventPC
<1>4. CASE CreateEventGet(r)
  BY <1>1, <1>2, <1>4 DEF CreateEventGet, CreateEventPC
<1>5. CASE SubscribeToEvent(r)
  BY <1>1, <1>2, <1>5 DEF SubscribeToEvent, CreateEventPC
<1>6. CASE GetEventInfo(r)
  BY <1>1, <1>2, <1>6 DEF GetEventInfo, CreateEventPC
<1>7. CASE CreateEventExec(r)
  <2>1. EventLocalsTypeOK'
    BY <1>2, <1>7 DEF CreateEventExec, EventExecResults
  <2>2. ereq[r] \in EventRequestRecord /\ ereq[r].op = "CreateEvent"
    BY <1>7 DEF CreateEventExec, EventLocalsTypeOK, CreateEventPC
  <2>3. ereq[r].event \in Events /\ ereq[r].secret \in Secrets
    BY <2>2 DEF EventRequestRecord
  <2>4. StoreEvent(ereq[r].event, ereq[r].secret)
    BY <1>7 DEF CreateEventExec
  <2> QED
    BY <2>1, <2>3, <2>4 DEF EventWrite
<1> QED
  BY <1>3, <1>4, <1>5, <1>6, <1>7

\* The steps of DeleteEvent.
LEMMA DeleteEventStep ==
  ASSUME EventLocalsTypeOK, NEW r \in EventRequests,
         \/ DeleteEventExists(r) \/ DeleteEventAccount(r) \/ DeleteEventRange(r)
         \/ DeleteEventExec(r) \/ UnsubscribeFromEvent(r)
  PROVE  EventLocalsTypeOK' /\ (EventWrite \/ UNCHANGED redis)
<1> DEFINE DeletePC == {"delete account", "delete range", "delete exec", "delete unsubscribe"}
<1>1. ASSUME epc[r] # "idle", NEW next \in DeletePC, EventGoto(r, next)
      PROVE  EventLocalsTypeOK'
  BY <1>1, EventGotoLocals DEF EventPC, CreateEventPC
<1>2. ASSUME NEW result \in {"ok", "not found", "linked", "error"}, EventReturn(r, result)
      PROVE  EventLocalsTypeOK'
  BY <1>2, EventReturnLocals DEF EventReply
<1>3. CASE DeleteEventExists(r)
  BY <1>1, <1>2, <1>3 DEF DeleteEventExists
<1>4. CASE DeleteEventAccount(r)
  BY <1>1, <1>2, <1>4 DEF DeleteEventAccount
<1>5. CASE DeleteEventRange(r)
  BY <1>1, <1>2, <1>5 DEF DeleteEventRange
<1>6. CASE DeleteEventExec(r)
  <2>1. EventLocalsTypeOK'
    BY <1>1, <1>2, <1>6 DEF DeleteEventExec
  <2>2. ereq[r].event \in Events
    BY <1>6 DEF DeleteEventExec, EventLocalsTypeOK, EventRequestRecord
  <2> QED
    BY <1>6, <2>1, <2>2 DEF DeleteEventExec, EventWrite
<1>7. CASE UnsubscribeFromEvent(r)
  BY <1>2, <1>7 DEF UnsubscribeFromEvent
<1> QED
  BY <1>3, <1>4, <1>5, <1>6, <1>7

\* The steps of GetEvents and GetEvent, and the commands that fail.
LEMMA GetEventsStep ==
  ASSUME EventLocalsTypeOK, NEW r \in EventRequests,
         \/ GetEventsKeys(r) \/ GetEventsPublicKeys(r) \/ GetEventsNext(r)
         \/ GetEventsDone(r) \/ GetEventExists(r) \/ GetEventFields(r)
         \/ EventRedisError(r)
  PROVE  EventLocalsTypeOK' /\ UNCHANGED redis
<1>1. ASSUME NEW result \in {"ok", "not found", "error"}, EventReturn(r, result)
      PROVE  EventLocalsTypeOK'
  BY <1>1, EventReturnLocals DEF EventReply
<1>2. etodo[r] \in SUBSET Events /\ elisting[r] \in SUBSET Events
  BY DEF EventLocalsTypeOK
<1>3. etodo = [etodo EXCEPT ![r] = etodo[r]] /\ elisting = [elisting EXCEPT ![r] = elisting[r]]
  BY DEF EventLocalsTypeOK
<1> DEFINE LoopPC == {"public keys", "next", "get exists", "get fields"}
<1>4. LoopPC \subseteq EventPC \ CreateEventPC
  BY DEF EventPC, CreateEventPC
<1>5. CASE GetEventsKeys(r)
  <2> DEFINE visit == {e \in Events : EventExists(e) /\ EventAccount[e] = ereq[r].account}
             next == IF ereq[r].public THEN "public keys" ELSE "next"
  <2>1. /\ epc[r] # "idle" /\ epc' = [epc EXCEPT ![r] = next]
        /\ etodo' = [etodo EXCEPT ![r] = visit]
        /\ UNCHANGED <<redis, ereq, elisting, ereply>>
    BY <1>5 DEF GetEventsKeys
  <2>2. visit \in SUBSET Events /\ next \in LoopPC
    OBVIOUS
  <2> HIDE DEF visit, next
  <2> QED
    BY <1>2, <1>3, <1>4, <2>1, <2>2, EventLoopLocals
<1>6. CASE GetEventsPublicKeys(r)
  <2> DEFINE visit == etodo[r] \cup {e \in Events : EventExists(e) /\ EventAccount[e] = Public}
  <2>1. /\ epc[r] # "idle" /\ epc' = [epc EXCEPT ![r] = "next"]
        /\ etodo' = [etodo EXCEPT ![r] = visit]
        /\ UNCHANGED <<redis, ereq, elisting, ereply>>
    BY <1>6 DEF GetEventsPublicKeys
  <2>2. visit \in SUBSET Events
    BY <1>2
  <2> HIDE DEF visit
  <2> QED
    BY <1>2, <1>3, <1>4, <2>1, <2>2, EventLoopLocals
<1>7. CASE GetEventsNext(r)
  <2>1. PICK e \in etodo[r] :
          /\ epc' = [epc EXCEPT ![r] = "get exists"]
          /\ ereq' = [ereq EXCEPT ![r].event = e]
          /\ etodo' = [etodo EXCEPT ![r] = etodo[r] \ {e}]
          /\ UNCHANGED <<redis, elisting, ereply>>
    BY <1>7 DEF GetEventsNext
  <2>2. e \in Events /\ etodo[r] \ {e} \in SUBSET Events
    BY <1>2
  <2>3. epc[r] # "idle"
    BY <1>7 DEF GetEventsNext
  <2> QED
    BY <1>2, <1>3, <1>4, <2>1, <2>2, <2>3, EventLoopLocals
<1>8. CASE GetEventsDone(r)
  BY <1>1, <1>8 DEF GetEventsDone
<1>9. CASE GetEventExists(r)
  <2>1. CASE EventGoto(r, "get fields")
    BY <1>9, <2>1, <1>4, EventGotoLocals DEF GetEventExists, EventPC
  <2> QED
    BY <1>1, <1>9, <2>1 DEF GetEventExists
<1>10. CASE GetEventFields(r)
  <2>1. CASE epc' = [epc EXCEPT ![r] = "next"]
             /\ elisting' = [elisting EXCEPT ![r] = @ \cup {ereq[r].event}]
             /\ UNCHANGED <<ereq, etodo, ereply>>
    <3>1. epc[r] # "idle"
      BY <1>10 DEF GetEventFields
    <3>2. elisting[r] \cup {ereq[r].event} \in SUBSET Events
      BY <1>2, <3>1 DEF EventLocalsTypeOK, EventRequestRecord
    <3> QED
      BY <1>2, <1>3, <1>4, <1>10, <2>1, <3>1, <3>2, EventLoopLocals DEF GetEventFields
  <2> QED
    BY <1>1, <1>10, <2>1 DEF GetEventFields
<1>11. CASE EventRedisError(r)
  BY <1>1, <1>11 DEF EventRedisError
<1> QED
  BY <1>5, <1>6, <1>7, <1>8, <1>9, <1>10, <1>11

\* A step of a handler creates an event, deletes one, or writes nothing.
LEMMA EventStepWrites ==
  ASSUME EventLocalsTypeOK, NEW r \in EventRequests, EventArrives(r) \/ EventStep(r)
  PROVE  EventLocalsTypeOK' /\ (EventWrite \/ UNCHANGED redis)
  BY EventArrivesLocals, CreateEventStep, DeleteEventStep, GetEventsStep DEF EventStep

LEMMA EventsResetLocals ==
  ASSUME EventLocalsTypeOK, EventsReset
  PROVE  EventLocalsTypeOK'
  BY DEF EventLocalsTypeOK, EventsReset, EventPC, CreateEventPC, EventReply

LEMMA EventsNextWrites ==
  ASSUME EventLocalsTypeOK, [EventsNext]_eventVars
  PROVE  EventLocalsTypeOK' /\ (EventWrite \/ UNCHANGED redis)
<1>1. CASE UNCHANGED eventVars
  BY <1>1 DEF eventVars, eventLocals, EventLocalsTypeOK
<1>2. CASE EventsCrash
  BY <1>2, EventsResetLocals DEF EventsCrash
<1>3. CASE \E r \in EventRequests : EventArrives(r) \/ EventStep(r)
  BY <1>3, EventStepWrites
<1> QED
  BY <1>1, <1>2, <1>3 DEF EventsNext

-----------------------------------------------------------------------------
(* Subscriptions *)

SubscribedType == subscribed \in [Events -> Secrets \cup {NoEvent}]

LEMMA SubscribedStep ==
  ASSUME SubscribedType, EventLocalsTypeOK, NEW r \in EventRequests,
         EventArrives(r) \/ EventStep(r)
  PROVE  SubscribedType'
<1>1. CASE SubscribeToEvent(r)
  <2>1. ereq[r] \in EventRequestRecord /\ ereq[r].op = "CreateEvent"
    BY <1>1 DEF SubscribeToEvent, EventLocalsTypeOK, CreateEventPC
  <2>2. ereq[r].secret \in Secrets
    BY <2>1 DEF EventRequestRecord
  <2> QED
    BY <1>1, <2>2 DEF SubscribeToEvent, SubscribedType
<1>2. CASE UnsubscribeFromEvent(r)
  BY <1>2 DEF UnsubscribeFromEvent, SubscribedType
<1>3. CASE UNCHANGED subscribed
  BY <1>3 DEF SubscribedType
<1>4. CASE EventArrives(r)
  BY <1>3, <1>4 DEF EventArrives, CreateEvent, DeleteEvent, GetEvents, GetEvent
<1>5. CASE EventStep(r)
  BY <1>1, <1>2, <1>3, <1>5 DEF EventStep, CreateEventExists, CreateEventGet, GetEventInfo,
     CreateEventExec, DeleteEventExists, DeleteEventAccount, DeleteEventRange, DeleteEventExec,
     GetEventsKeys, GetEventsPublicKeys, GetEventsNext, GetEventsDone, GetEventExists,
     GetEventFields, EventRedisError
<1> QED
  BY <1>4, <1>5

-----------------------------------------------------------------------------
(* Theorems *)

LEMMA EventsTypeInit ==
  ASSUME EventsInit
  PROVE  EventsTypeOK
<1>1. RedisTypeOK
  BY DEF EventsInit, RedisFilled, RedisTypeOK
<1>2. subscribed \in [Events -> Secrets \cup {NoEvent}]
  BY <1>1 DEF EventsInit, RedisTypeOK
<1>3. EventLocalsTypeOK
  BY DEF EventsInit, EventLocalsInit, EventLocalsTypeOK, EventPC, CreateEventPC, EventReply
<1> QED
  BY <1>1, <1>2, <1>3 DEF EventsTypeOK

LEMMA EventsTypeNext ==
  ASSUME EventsTypeOK, [EventsNext]_eventVars
  PROVE  EventsTypeOK'
<1>1. EventLocalsTypeOK' /\ (EventWrite \/ UNCHANGED redis)
  BY EventsNextWrites DEF EventsTypeOK
<1>2. RedisTypeOK'
  BY <1>1, EventWriteType DEF EventsTypeOK, RedisTypeOK, redis
<1>3. SubscribedType'
  <2>1. SubscribedType
    BY DEF EventsTypeOK, SubscribedType
  <2>2. CASE UNCHANGED subscribed
    BY <2>1, <2>2 DEF SubscribedType
  <2> QED
    BY <2>1, <2>2, SubscribedStep DEF EventsTypeOK, EventsNext, EventsCrash, eventVars
<1> QED
  BY <1>1, <1>2, <1>3 DEF EventsTypeOK, SubscribedType

\* Redis, the subscriptions and the locals of the handlers have their types.
THEOREM EventsTyped == EventsSpec => []EventsTypeOK
  BY EventsTypeInit, EventsTypeNext, PTL DEF EventsSpec

LEMMA EventWriteKeeps ==
  ASSUME RedisTypeOK, EventWrite \/ UNCHANGED redis
  PROVE  \A e \in Events :
           events[e] # NoEvent /\ events'[e] # NoEvent => events'[e] = events[e]
<1>1. CASE EventWrite
  BY <1>1 DEF EventWrite, RemoveEvent, StoreEvent, RedisTypeOK
<1>2. CASE UNCHANGED redis
  BY <1>2 DEF redis
<1> QED
  BY <1>1, <1>2

\* The secret of a stored event changes only when the event goes away: of
\* creators that race, however many, one stores its secret.
THEOREM EventsKeepSecrets == EventsSpec => SecretKept
<1>1. EventsTypeOK /\ [EventsNext]_eventVars =>
        \A e \in Events :
          events[e] # NoEvent /\ events'[e] # NoEvent => events'[e] = events[e]
  BY EventsNextWrites, EventWriteKeeps DEF EventsTypeOK
<1>2. EventsTypeOK /\ [EventsNext]_eventVars =>
        [\A e \in Events :
          events[e] # NoEvent /\ events'[e] # NoEvent => events'[e] = events[e]]_eventVars
  BY <1>1
<1> QED
  BY <1>2, EventsTyped, PTL DEF EventsSpec, SecretKept

-----------------------------------------------------------------------------
(* Requests stay apart, and in their handlers *)

DeleteEventPC ==
  {"delete exists", "delete account", "delete range", "delete exec", "delete unsubscribe"}

\* A request is in the handler it is a request of.
Placed(r) ==
  epc[r] # "idle" =>
    /\ ereq[r].op = "CreateEvent" => epc[r] \in CreateEventPC
    /\ ereq[r].op = "DeleteEvent" => epc[r] \in DeleteEventPC
    /\ ereq[r].op = "GetEvents" =>
         epc[r] \in {"keys", "public keys", "next", "get exists", "get fields"}
    /\ ereq[r].op = "GetEvent" => epc[r] \in {"get exists", "get fields"}

AllPlaced == \A r \in EventRequests : Placed(r)

\* Every other request stays where it is.
Alone(r) ==
  \A s \in EventRequests \ {r} :
    /\ epc'[s] = epc[s] /\ ereq'[s] = ereq[s]
    /\ etodo'[s] = etodo[s] /\ elisting'[s] = elisting[s]

LEMMA ControlAlone ==
  ASSUME EventLocalsTypeOK, NEW r \in EventRequests, NEW q, NEW next,
         EventBegin(r, q, next) \/ EventGoto(r, next) \/ EventReturn(r, next)
  PROVE  Alone(r)
  BY DEF EventLocalsTypeOK, EventBegin, EventGoto, EventReturn, Alone

LEMMA ArrivesAlone ==
  ASSUME EventLocalsTypeOK, NEW r \in EventRequests, EventArrives(r)
  PROVE  Alone(r)
  BY ControlAlone DEF EventArrives, CreateEvent, DeleteEvent, GetEvents, GetEvent

LEMMA StepAlone ==
  ASSUME EventLocalsTypeOK, NEW r \in EventRequests, EventStep(r)
  PROVE  Alone(r)
<1>1. CASE \/ CreateEventExists(r) \/ CreateEventGet(r) \/ SubscribeToEvent(r)
           \/ GetEventInfo(r) \/ CreateEventExec(r)
  BY <1>1, ControlAlone DEF CreateEventExists, CreateEventGet, SubscribeToEvent, GetEventInfo,
     CreateEventExec
<1>2. CASE \/ DeleteEventExists(r) \/ DeleteEventAccount(r) \/ DeleteEventRange(r)
           \/ DeleteEventExec(r) \/ UnsubscribeFromEvent(r)
  BY <1>2, ControlAlone DEF DeleteEventExists, DeleteEventAccount, DeleteEventRange,
     DeleteEventExec, UnsubscribeFromEvent
<1>3. CASE GetEventsDone(r) \/ GetEventExists(r) \/ EventRedisError(r)
  BY <1>3, ControlAlone DEF GetEventsDone, GetEventExists, EventRedisError
<1>4. CASE GetEventsKeys(r) \/ GetEventsPublicKeys(r)
  BY <1>4 DEF GetEventsKeys, GetEventsPublicKeys, EventLocalsTypeOK, Alone
<1>5. CASE GetEventsNext(r)
  BY <1>5 DEF GetEventsNext, EventLocalsTypeOK, Alone
<1>6. CASE GetEventFields(r)
  <2>1. CASE /\ epc' = [epc EXCEPT ![r] = "next"]
             /\ elisting' = [elisting EXCEPT ![r] = @ \cup {ereq[r].event}]
             /\ UNCHANGED <<ereq, etodo, ereply>>
    BY <2>1 DEF EventLocalsTypeOK, Alone
  <2> QED
    BY <1>6, <2>1, ControlAlone DEF GetEventFields
<1> QED
  BY <1>1, <1>2, <1>3, <1>4, <1>5, <1>6 DEF EventStep

LEMMA StepPlaced ==
  ASSUME EventLocalsTypeOK, AllPlaced, NEW r \in EventRequests,
         EventArrives(r) \/ EventStep(r)
  PROVE  AllPlaced'
<1>1. Alone(r)
  BY ArrivesAlone, StepAlone
<1>2. Placed(r) /\ (epc[r] # "idle" => ereq[r] \in EventRequestRecord)
  BY DEF AllPlaced, EventLocalsTypeOK
<1>3. Placed(r)'
  <2>1. CASE epc'[r] = "idle"
    BY <2>1 DEF Placed
  <2>4. ASSUME NEW result, EventReturn(r, result) PROVE epc'[r] = "idle"
    BY <2>4 DEF EventReturn, EventLocalsTypeOK
  <2>2. CASE EventArrives(r)
    <3>1. ASSUME NEW q, NEW next, EventBegin(r, q, next)
          PROVE  epc'[r] = next /\ ereq'[r] = q
      BY <3>1 DEF EventBegin, EventLocalsTypeOK
    <3>2. ASSUME NEW account \in Accounts, NEW e \in Events, NEW secret \in Secrets,
                 EventBegin(r, [op |-> "CreateEvent", account |-> account, event |-> e,
                                secret |-> secret], "create exists")
          PROVE  Placed(r)'
      <4> DEFINE q == [op |-> "CreateEvent", account |-> account, event |-> e,
                       secret |-> secret]
      <4>1. q.op = "CreateEvent" /\ EventBegin(r, q, "create exists")
        BY <3>2
      <4> HIDE DEF q
      <4>2. epc'[r] = "create exists" /\ ereq'[r].op = "CreateEvent"
        BY <3>1, <4>1
      <4> QED
        BY <4>2 DEF Placed, CreateEventPC
    <3>3. CASE DeleteEvent(r)
      <4>1. PICK account \in Accounts, e \in Events :
              EventBegin(r, [op |-> "DeleteEvent", account |-> account, event |-> e], "delete exists")
        BY <3>3 DEF DeleteEvent
      <4> DEFINE q == [op |-> "DeleteEvent", account |-> account, event |-> e]
      <4>2. q.op = "DeleteEvent" /\ EventBegin(r, q, "delete exists")
        BY <4>1
      <4> HIDE DEF q
      <4>3. epc'[r] = "delete exists" /\ ereq'[r].op = "DeleteEvent"
        BY <3>1, <4>2
      <4> QED
        BY <4>3 DEF Placed, DeleteEventPC
    <3>4. CASE GetEvents(r)
      <4>1. PICK account \in Accounts, public \in BOOLEAN :
              EventBegin(r, [op |-> "GetEvents", account |-> account, event |-> AnyEvent, public |-> public], "keys")
        BY <3>4 DEF GetEvents
      <4> DEFINE q == [op |-> "GetEvents", account |-> account, event |-> AnyEvent, public |-> public]
      <4>2. q.op = "GetEvents" /\ EventBegin(r, q, "keys")
        BY <4>1
      <4> HIDE DEF q
      <4>3. epc'[r] = "keys" /\ ereq'[r].op = "GetEvents"
        BY <3>1, <4>2
      <4> QED
        BY <4>3 DEF Placed
    <3>5. CASE GetEvent(r)
      <4>1. PICK account \in Accounts, e \in Events :
              EventBegin(r, [op |-> "GetEvent", account |-> account, event |-> e], "get exists")
        BY <3>5 DEF GetEvent
      <4> DEFINE q == [op |-> "GetEvent", account |-> account, event |-> e]
      <4>2. q.op = "GetEvent" /\ EventBegin(r, q, "get exists")
        BY <4>1
      <4> HIDE DEF q
      <4>3. epc'[r] = "get exists" /\ ereq'[r].op = "GetEvent"
        BY <3>1, <4>2
      <4> QED
        BY <4>3 DEF Placed
    <3>6. CASE CreateEvent(r)
      BY <2>1, <2>4, <3>2, <3>6 DEF CreateEvent
    <3> QED
      BY <2>2, <3>3, <3>4, <3>5, <3>6 DEF EventArrives
  <2>3. ASSUME NEW next, EventGoto(r, next)
        PROVE  epc'[r] = next /\ ereq'[r] = ereq[r]
    BY <2>3 DEF EventGoto, EventLocalsTypeOK
  <2>5. CASE \/ CreateEventExists(r) \/ CreateEventGet(r) \/ SubscribeToEvent(r)
             \/ GetEventInfo(r) \/ CreateEventExec(r)
    BY <1>2, <2>1, <2>3, <2>4, <2>5 DEF CreateEventExists, CreateEventGet, SubscribeToEvent,
       GetEventInfo, CreateEventExec, Placed, CreateEventPC, DeleteEventPC
  <2>6. CASE \/ DeleteEventExists(r) \/ DeleteEventAccount(r) \/ DeleteEventRange(r)
             \/ DeleteEventExec(r) \/ UnsubscribeFromEvent(r)
    BY <1>2, <2>1, <2>3, <2>4, <2>6 DEF DeleteEventExists, DeleteEventAccount,
       DeleteEventRange, DeleteEventExec, UnsubscribeFromEvent, Placed, CreateEventPC,
       DeleteEventPC
  <2>7. CASE GetEventsDone(r) \/ GetEventExists(r) \/ EventRedisError(r)
    BY <1>2, <2>1, <2>3, <2>4, <2>7 DEF GetEventsDone, GetEventExists, EventRedisError, Placed,
       CreateEventPC, DeleteEventPC
  <2>8. CASE GetEventsKeys(r) \/ GetEventsPublicKeys(r)
    BY <1>2, <2>8 DEF GetEventsKeys, GetEventsPublicKeys, EventLocalsTypeOK, Placed,
       CreateEventPC, DeleteEventPC
  <2>9. CASE GetEventsNext(r)
    <3>1. PICK e \in etodo[r] :
            /\ epc[r] = "next"
            /\ epc' = [epc EXCEPT ![r] = "get exists"]
            /\ ereq' = [ereq EXCEPT ![r].event = e]
      BY <2>9 DEF GetEventsNext
    <3>2. epc'[r] = "get exists" /\ ereq'[r].op = ereq[r].op
      BY <1>2, <3>1 DEF EventLocalsTypeOK, EventRequestRecord
    <3> QED
      BY <1>2, <3>1, <3>2 DEF Placed, CreateEventPC, DeleteEventPC
  <2>10. CASE GetEventFields(r)
    <3>1. CASE epc' = [epc EXCEPT ![r] = "next"] /\ ereq' = ereq /\ ereq[r].op # "GetEvent"
      BY <1>2, <2>10, <3>1 DEF GetEventFields, EventLocalsTypeOK, Placed, CreateEventPC,
         DeleteEventPC
    <3> QED
      BY <2>1, <2>4, <2>10, <3>1 DEF GetEventFields
  <2> QED
    BY <2>2, <2>5, <2>6, <2>7, <2>8, <2>9, <2>10 DEF EventStep
<1> QED
  BY <1>1, <1>3 DEF AllPlaced, Placed, Alone

LEMMA AllPlacedNext ==
  ASSUME EventLocalsTypeOK, AllPlaced, [EventsNext]_eventVars
  PROVE  AllPlaced'
<1>1. CASE UNCHANGED eventVars
  BY <1>1 DEF AllPlaced, Placed, eventVars, eventLocals
<1>2. CASE EventsCrash
  BY <1>2 DEF AllPlaced, Placed, EventsCrash, EventsReset
<1>3. CASE \E r \in EventRequests : EventArrives(r) \/ EventStep(r)
  BY <1>3, StepPlaced
<1> QED
  BY <1>1, <1>2, <1>3 DEF EventsNext

\* Steps of a handler are steps of a request that is being served.
LEMMA StepBusy ==
  ASSUME NEW r \in EventRequests, EventStep(r)
  PROVE  epc[r] # "idle"
  BY DEF EventStep, CreateEventExists, CreateEventGet, SubscribeToEvent, GetEventInfo,
     CreateEventExec, DeleteEventExists, DeleteEventAccount, DeleteEventRange, DeleteEventExec,
     UnsubscribeFromEvent, GetEventsKeys, GetEventsPublicKeys, GetEventsNext, GetEventsDone,
     GetEventExists, GetEventFields, EventRedisError

LEMMA ArrivalsRead ==
  ASSUME EventLocalsTypeOK, NEW r \in EventRequests, EventArrives(r)
  PROVE  /\ epc[r] = "idle" /\ UNCHANGED <<redis, subscribed>>
         /\ epc'[r] \in {"idle", "create exists", "delete exists", "keys", "get exists"}
  BY DEF EventArrives, CreateEvent, DeleteEvent, GetEvents, GetEvent, EventBegin, EventReturn,
     EventLocalsTypeOK

\* A handler works on its own event only.
LEMMA StepsElsewhere ==
  ASSUME EventsTypeOK, AllPlaced, NEW r \in EventRequests, EventStep(r), NEW e \in Events,
         r \notin Changing(e)
  PROVE  /\ epc[r] # "idle" /\ r \notin Changing(e)'
         /\ events'[e] = events[e] /\ subscribed'[e] = subscribed[e]
<1>1. /\ epc[r] # "idle" => ereq[r] \in EventRequestRecord
      /\ epc \in [EventRequests -> EventPC] /\ DOMAIN ereq = EventRequests
      /\ events \in [Events -> Secrets \cup {NoEvent}]
      /\ subscribed \in [Events -> Secrets \cup {NoEvent}]
      /\ Placed(r)
  BY DEF EventsTypeOK, EventLocalsTypeOK, RedisTypeOK, AllPlaced
<1>2. ASSUME NEW next, EventGoto(r, next), epc[r] # "idle"
      PROVE  r \notin Changing(e)'
  BY <1>1, <1>2 DEF EventGoto, Changing
<1>3. ASSUME NEW result, EventReturn(r, result) PROVE r \notin Changing(e)'
  BY <1>1, <1>3 DEF EventReturn, Changing
<1>4. epc[r] \in CreateEventPC \cup DeleteEventPC => ereq[r].event # e
  BY <1>1 DEF Placed, Changing, CreateEventPC, DeleteEventPC, EventRequestRecord
<1>5. CASE \/ CreateEventExists(r) \/ CreateEventGet(r) \/ SubscribeToEvent(r)
           \/ GetEventInfo(r) \/ CreateEventExec(r)
  BY <1>1, <1>2, <1>3, <1>4, <1>5 DEF CreateEventExists, CreateEventGet, SubscribeToEvent,
     GetEventInfo, CreateEventExec, StoreEvent, CreateEventPC, redis
<1>6. CASE \/ DeleteEventExists(r) \/ DeleteEventAccount(r) \/ DeleteEventRange(r)
           \/ DeleteEventExec(r) \/ UnsubscribeFromEvent(r)
  BY <1>1, <1>2, <1>3, <1>4, <1>6 DEF DeleteEventExists, DeleteEventAccount, DeleteEventRange,
     DeleteEventExec, UnsubscribeFromEvent, RemoveEvent, DeleteEventPC, redis
<1>7. CASE GetEventsDone(r) \/ GetEventExists(r) \/ EventRedisError(r)
  BY <1>1, <1>2, <1>3, <1>7 DEF GetEventsDone, GetEventExists, EventRedisError, redis
<1>8. CASE GetEventsKeys(r) \/ GetEventsPublicKeys(r)
  BY <1>1, <1>8 DEF GetEventsKeys, GetEventsPublicKeys, Changing, redis
<1>9. CASE GetEventsNext(r)
  <2>1. PICK other \in etodo[r] : ereq' = [ereq EXCEPT ![r].event = other]
    BY <1>9 DEF GetEventsNext
  <2>2. epc[r] = "next" /\ UNCHANGED <<redis, subscribed>>
    BY <1>9 DEF GetEventsNext
  <2>3. ereq'[r].op = ereq[r].op
    BY <1>1, <2>1, <2>2 DEF EventRequestRecord
  <2>4. ereq[r].op \notin {"CreateEvent", "DeleteEvent"}
    BY <1>1, <2>2 DEF Placed, CreateEventPC, DeleteEventPC
  <2> QED
    BY <2>2, <2>3, <2>4 DEF Changing, redis
<1>10. CASE GetEventFields(r)
  BY <1>1, <1>3, <1>10 DEF GetEventFields, Changing, redis
<1> QED
  BY <1>5, <1>6, <1>7, <1>8, <1>9, <1>10 DEF EventStep

-----------------------------------------------------------------------------
(* No event goes away with pipelines linked to it *)

\* DeleteEvent goes on to its transaction when it has found no pipeline linked;
\* as long as nothing links one meanwhile, that is still so.
RangeChecked ==
  \A r \in EventRequests : epc[r] = "delete exec" => triggers[ereq[r].event] = {}

\* Then the transaction deletes a key that is not there.
LEMMA EventStepLinksNone ==
  ASSUME RedisTypeOK, EventLocalsTypeOK, RangeChecked, NEW r \in EventRequests,
         EventArrives(r) \/ EventStep(r)
  PROVE  triggers' = triggers /\ pipelines' = pipelines
<1>1. CASE CreateEventExec(r)
  BY <1>1 DEF CreateEventExec, StoreEvent
<1>2. CASE DeleteEventExec(r)
  <2>1. triggers[ereq[r].event] = {} /\ RemoveEvent(ereq[r].event)
    BY <1>2 DEF DeleteEventExec, RangeChecked
  <2> QED
    BY <2>1 DEF RemoveEvent, RedisTypeOK
<1>3. CASE UNCHANGED redis
  BY <1>3 DEF redis
<1>4. CASE EventArrives(r)
  BY <1>3, <1>4, ArrivalsRead
<1>5. CASE EventStep(r)
  BY <1>1, <1>2, <1>3, <1>5 DEF EventStep, CreateEventExists, CreateEventGet, SubscribeToEvent,
     GetEventInfo, DeleteEventExists, DeleteEventAccount, DeleteEventRange,
     UnsubscribeFromEvent, GetEventsKeys, GetEventsPublicKeys, GetEventsNext, GetEventsDone,
     GetEventExists, GetEventFields, EventRedisError, redis
<1> QED
  BY <1>4, <1>5

\* The only way to the transaction is past the check.
LEMMA RangeCheckedStep ==
  ASSUME RedisTypeOK, EventLocalsTypeOK, RangeChecked, NEW r \in EventRequests,
         EventArrives(r) \/ EventStep(r)
  PROVE  RangeChecked'
<1>1. triggers' = triggers /\ Alone(r)
  BY EventStepLinksNone, ArrivesAlone, StepAlone
<1>2. epc \in [EventRequests -> EventPC] /\ DOMAIN ereq = EventRequests
  BY DEF EventLocalsTypeOK
<1>3. ASSUME NEW next, EventGoto(r, next) PROVE epc'[r] = next /\ ereq'[r] = ereq[r]
  BY <1>2, <1>3 DEF EventGoto
<1>4. ASSUME NEW result, EventReturn(r, result) PROVE epc'[r] = "idle"
  BY <1>2, <1>4 DEF EventReturn
<1>5. epc'[r] = "delete exec" => triggers[ereq'[r].event] = {}
  <2>1. CASE DeleteEventRange(r)
    BY <1>3, <1>4, <2>1 DEF DeleteEventRange
  <2>2. CASE EventArrives(r)
    BY <2>2, ArrivalsRead
  <2>3. CASE \/ CreateEventExists(r) \/ CreateEventGet(r) \/ SubscribeToEvent(r)
             \/ GetEventInfo(r) \/ CreateEventExec(r)
    <3>1. epc'[r] # "delete exec"
      BY <1>2, <2>3 DEF CreateEventExists, CreateEventGet, SubscribeToEvent, GetEventInfo,
         CreateEventExec, EventGoto, EventReturn
    <3> QED
      BY <3>1
  <2>4. CASE \/ DeleteEventExists(r) \/ DeleteEventAccount(r) \/ DeleteEventExec(r)
             \/ UnsubscribeFromEvent(r) \/ EventRedisError(r)
    <3>1. epc'[r] # "delete exec"
      BY <1>2, <2>4 DEF DeleteEventExists, DeleteEventAccount, DeleteEventExec,
         UnsubscribeFromEvent, EventRedisError, EventGoto, EventReturn
    <3> QED
      BY <3>1
  <2>5. CASE \/ GetEventsKeys(r) \/ GetEventsPublicKeys(r) \/ GetEventsNext(r)
             \/ GetEventsDone(r) \/ GetEventExists(r) \/ GetEventFields(r)
    <3>1. epc'[r] # "delete exec"
      BY <1>2, <2>5 DEF GetEventsKeys, GetEventsPublicKeys, GetEventsNext,
         GetEventsDone, GetEventExists, GetEventFields, EventGoto,
         EventReturn
    <3> QED
      BY <3>1
  <2> QED
    BY <2>1, <2>2, <2>3, <2>4, <2>5 DEF EventStep
<1> QED
  BY <1>1, <1>5 DEF RangeChecked, Alone

\* An event goes away in the transaction of DeleteEvent only.
LEMMA EventGoes ==
  ASSUME RedisTypeOK, EventLocalsTypeOK, NEW r \in EventRequests,
         EventArrives(r) \/ EventStep(r),
         NEW e \in Events, EventExists(e), events'[e] = NoEvent
  PROVE  epc[r] = "delete exec" /\ ereq[r].event = e
<1>1. ~UNCHANGED redis
  BY DEF redis, EventExists
<1>2. ~EventArrives(r)
  BY <1>1, ArrivalsRead
<1>3. ~CreateEventExec(r)
  BY DEF CreateEventExec, StoreEvent, EventExists, RedisTypeOK
<1>4. CASE DeleteEventExec(r)
  BY <1>4 DEF DeleteEventExec, RemoveEvent, EventExists, RedisTypeOK
<1>5. CASE EventStep(r) /\ ~DeleteEventExec(r)
  BY <1>1, <1>3, <1>5 DEF EventStep, CreateEventExists, CreateEventGet, SubscribeToEvent,
     GetEventInfo, DeleteEventExists, DeleteEventAccount, DeleteEventRange,
     UnsubscribeFromEvent, GetEventsKeys, GetEventsPublicKeys, GetEventsNext, GetEventsDone,
     GetEventExists, GetEventFields, EventRedisError, redis
<1> QED
  BY <1>2, <1>4, <1>5

\* Handlers of events alone, however many and whichever of their calls fail,
\* keep the promise of DeleteEvent: it takes a handler that links to break it.
THEOREM EventsLinkedStay == EventsSpec => LinkedEventStays
<1>1. EventsInit => RangeChecked
  BY DEF EventsInit, EventLocalsInit, RangeChecked
<1>2. EventsTypeOK /\ RangeChecked /\ [EventsNext]_eventVars => RangeChecked'
  <2> SUFFICES ASSUME EventsTypeOK, RangeChecked, [EventsNext]_eventVars PROVE RangeChecked'
    OBVIOUS
  <2>1. CASE UNCHANGED eventVars
    BY <2>1 DEF eventVars, eventLocals, redis, RangeChecked
  <2>2. CASE EventsCrash
    BY <2>2 DEF EventsCrash, EventsReset, RangeChecked
  <2>3. CASE \E r \in EventRequests : EventArrives(r) \/ EventStep(r)
    BY <2>3, RangeCheckedStep DEF EventsTypeOK
  <2> QED
    BY <2>1, <2>2, <2>3 DEF EventsNext
<1>3. EventsTypeOK /\ RangeChecked /\ [EventsNext]_eventVars =>
        [\A e \in Events : EventExists(e) /\ events'[e] = NoEvent => triggers[e] = {}]_redis
  <2> SUFFICES ASSUME EventsTypeOK, RangeChecked, [EventsNext]_eventVars,
                      NEW e \in Events, EventExists(e), events'[e] = NoEvent
               PROVE  triggers[e] = {}
    OBVIOUS
  <2>1. ~UNCHANGED eventVars /\ ~EventsCrash
    BY DEF eventVars, EventsCrash, redis, EventExists
  <2>2. PICK r \in EventRequests : EventArrives(r) \/ EventStep(r)
    BY <2>1 DEF EventsNext
  <2> QED
    BY <2>2, EventGoes DEF EventsTypeOK, RangeChecked
<1> QED
  BY <1>1, <1>2, <1>3, EventsTyped, PTL DEF EventsSpec, LinkedEventStays
=============================================================================
