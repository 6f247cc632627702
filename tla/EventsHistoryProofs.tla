------------------------ MODULE EventsHistoryProofs ------------------------
(***************************************************************************)
(* What the histories of EventsHistory say of the handlers of events: that *)
(* a stored event is subscribed as it is stored unless its life was        *)
(* disturbed, and what GetEvents lists and why it fails.                   *)
(***************************************************************************)
EXTENDS EventsHistory, EventsProofs

-----------------------------------------------------------------------------
(* Subscriptions *)

\* What holds of an event that is not disturbed: past its reads a creation
\* knows the event to be absent, and is alone with it; when it stores the event
\* the provider has its secret.
Calm(e) ==
  /\ EventExists(e) => subscribed[e] = events[e]
  /\ \A r \in Changing(e) :
       /\ epc[r] # "create info"
       /\ epc[r] \in {"create subscribe", "create exec", "delete unsubscribe"} =>
            ~EventExists(e)
       /\ epc[r] = "create exec" => subscribed[e] = ereq[r].secret
       /\ ereq[r].op = "CreateEvent" => Changing(e) = {r}

CalmInv == \A e \in AlwaysSubscribed : disturbed[e] \/ Calm(e)

\* A step of r that leaves e alone: it changes nothing of e and its requests.
LEMMA CalmElsewhere ==
  ASSUME NEW r \in EventRequests, NEW e \in AlwaysSubscribed, Calm(e), ~Overlap(e)', Alone(r),
         r \notin Changing(e), r \notin Changing(e)',
         events'[e] = events[e], subscribed'[e] = subscribed[e]
  PROVE  Calm(e)'
<1>1. \A s \in Changing(e)' : /\ s \in Changing(e) /\ s # r
                              /\ epc'[s] = epc[s] /\ ereq'[s] = ereq[s]
  BY DEF Changing, Alone
<1>2. \A s \in Changing(e)' : ereq'[s].op = "CreateEvent" => Changing(e)' = {s}
  BY DEF Overlap
<1> QED
  BY <1>1, <1>2 DEF Calm, EventExists

\* A step of r that changes e: what it leaves behind has to be calm, and so has
\* r where it goes.
LEMMA CalmHere ==
  ASSUME NEW r \in EventRequests, NEW e \in AlwaysSubscribed, Calm(e), ~Overlap(e)', Alone(r),
         EventExists(e)' => subscribed'[e] = events'[e],
         (EventExists(e)' => EventExists(e)) \/ Changing(e) \subseteq {r},
         subscribed'[e] = subscribed[e] \/ Changing(e) \subseteq {r},
         r \in Changing(e)' =>
           /\ epc'[r] # "create info"
           /\ epc'[r] \in {"create subscribe", "create exec", "delete unsubscribe"} =>
                ~EventExists(e)'
           /\ epc'[r] = "create exec" => subscribed'[e] = ereq'[r].secret
  PROVE  Calm(e)'
<1>1. \A s \in Changing(e)' : s # r => /\ s \in Changing(e)
                                       /\ epc'[s] = epc[s] /\ ereq'[s] = ereq[s]
  BY DEF Changing, Alone
<1>2. \A s \in Changing(e)' : ereq'[s].op = "CreateEvent" => Changing(e)' = {s}
  BY DEF Overlap
<1> QED
  BY <1>1, <1>2 DEF Calm

LEMMA CalmStep ==
  ASSUME EventsTypeOK, AllPlaced, NEW r \in EventRequests, EventArrives(r) \/ EventStep(r),
         NEW e \in AlwaysSubscribed, Calm(e), ~Overlap(e)', r \in Changing(e) => ~Misread(r)
  PROVE  Calm(e)'
<1>1. Alone(r) /\ e \in Events
  BY ArrivesAlone, StepAlone, SubscribableAssumption DEF EventsTypeOK, AlwaysSubscribed
<1>2. CASE EventArrives(r)
  <2>1. epc[r] = "idle" /\ events'[e] = events[e] /\ subscribed'[e] = subscribed[e]
        /\ epc'[r] \in {"idle", "create exists", "delete exists", "keys", "get exists"}
    BY <1>2, ArrivalsRead DEF EventsTypeOK, redis
  <2>2. EventExists(e) => subscribed[e] = events[e]
    BY DEF Calm
  <2> QED
    BY <1>1, <2>1, <2>2, CalmHere DEF EventExists
<1>3. CASE EventStep(r) /\ r \notin Changing(e)
  BY <1>1, <1>3, StepsElsewhere, CalmElsewhere
<1>4. CASE EventStep(r) /\ r \in Changing(e)
  <2>1. /\ epc[r] # "idle" /\ ereq[r].event = e /\ ereq[r] \in EventRequestRecord
        /\ epc \in [EventRequests -> EventPC] /\ DOMAIN ereq = EventRequests
        /\ events \in [Events -> Secrets \cup {NoEvent}]
        /\ subscribed \in [Events -> Secrets \cup {NoEvent}]
        /\ Placed(r)
    BY <1>4 DEF EventsTypeOK, EventLocalsTypeOK, RedisTypeOK, AllPlaced, Changing
  <2>2. ASSUME NEW next, EventGoto(r, next) PROVE epc'[r] = next /\ ereq'[r] = ereq[r]
    BY <2>1, <2>2 DEF EventGoto
  <2>3. ASSUME NEW result, EventReturn(r, result) PROVE r \notin Changing(e)'
    BY <2>1, <2>3 DEF EventReturn, Changing
  <2>4. /\ epc[r] \in CreateEventPC => Changing(e) = {r}
        /\ epc[r] \notin {"keys", "public keys", "next", "get exists", "get fields"}
    BY <1>4, <2>1 DEF Placed, Changing, Calm, CreateEventPC, DeleteEventPC, EventRequestRecord
  <2>5. /\ EventExists(e) => subscribed[e] = events[e]
        /\ epc[r] # "create info"
        /\ epc[r] \in {"create subscribe", "create exec", "delete unsubscribe"} => ~EventExists(e)
        /\ epc[r] = "create exec" => subscribed[e] = ereq[r].secret
    BY <1>4 DEF Calm
  <2>6. CASE CreateEventExists(r)
    <3>1. events'[e] = events[e] /\ subscribed'[e] = subscribed[e]
          /\ epc'[r] \in {"create get", "create subscribe"}
      BY <2>2, <2>6 DEF CreateEventExists, redis
    <3>2. epc'[r] = "create subscribe" => ~EventExists(e)
      BY <1>4, <2>1, <2>6 DEF CreateEventExists, Misread
    <3> QED
      BY <1>1, <2>5, <3>1, <3>2, CalmHere DEF EventExists
  <2>7. CASE CreateEventGet(r)
    <3>1. events'[e] = events[e] /\ subscribed'[e] = subscribed[e]
          /\ (r \in Changing(e)' => epc'[r] = "create subscribe" /\ ~EventExists(e))
      BY <1>4, <2>1, <2>2, <2>3, <2>7 DEF CreateEventGet, Misread, redis
    <3> QED
      BY <1>1, <2>5, <3>1, CalmHere DEF EventExists
  <2>8. CASE SubscribeToEvent(r)
    <3>1. events'[e] = events[e] /\ ~EventExists(e) /\ Changing(e) = {r}
      BY <2>4, <2>5, <2>8 DEF SubscribeToEvent, CreateEventPC, redis
    <3>2. r \in Changing(e)' =>
            epc'[r] = "create exec" /\ subscribed'[e] = ereq'[r].secret
      BY <1>1, <2>1, <2>2, <2>3, <2>8 DEF SubscribeToEvent, AlwaysSubscribed
    <3> QED
      BY <1>1, <3>1, <3>2, CalmHere DEF EventExists
  <2>9. CASE GetEventInfo(r)
    BY <2>5, <2>9 DEF GetEventInfo
  <2>10. CASE CreateEventExec(r)
    <3>1. /\ events'[e] = ereq[r].secret /\ subscribed'[e] = ereq[r].secret
          /\ Changing(e) = {r} /\ r \notin Changing(e)'
      BY <1>1, <2>1, <2>3, <2>4, <2>5, <2>10 DEF CreateEventExec, StoreEvent, EventExists,
         CreateEventPC
    <3> QED
      BY <1>1, <3>1, CalmHere DEF EventExists
  <2>11. CASE DeleteEventExists(r) \/ DeleteEventAccount(r) \/ DeleteEventRange(r)
    <3>1. events'[e] = events[e] /\ subscribed'[e] = subscribed[e]
          /\ (r \in Changing(e)' =>
                epc'[r] \in {"delete account", "delete range", "delete exec"})
      BY <2>2, <2>3, <2>11 DEF DeleteEventExists, DeleteEventAccount, DeleteEventRange, redis
    <3> QED
      BY <1>1, <2>5, <3>1, CalmHere DEF EventExists
  <2>12. CASE DeleteEventExec(r)
    <3>1. events'[e] = NoEvent /\ subscribed'[e] = subscribed[e]
          /\ (r \in Changing(e)' => epc'[r] = "delete unsubscribe")
      BY <1>1, <2>1, <2>2, <2>3, <2>12 DEF DeleteEventExec, RemoveEvent
    <3> QED
      BY <1>1, <3>1, CalmHere DEF EventExists
  <2>13. CASE UnsubscribeFromEvent(r)
    <3>1. events'[e] = events[e] /\ ~EventExists(e) /\ r \notin Changing(e)'
      BY <2>3, <2>5, <2>13 DEF UnsubscribeFromEvent, redis
    <3>2. \A s \in Changing(e) : ereq[s].op = "CreateEvent" => FALSE
      BY <1>4, <2>1, <2>13 DEF Calm, UnsubscribeFromEvent, Placed, CreateEventPC
    <3>3. \A s \in Changing(e) : epc[s] # "create exec"
      BY <3>2 DEF EventsTypeOK, EventLocalsTypeOK, Changing, CreateEventPC
    <3>4. \A s \in Changing(e)' : s # r => s \in Changing(e) /\ epc'[s] = epc[s]
      BY <1>1 DEF Alone, Changing
    <3>5. \A s \in Changing(e)' : ereq'[s].op = "CreateEvent" => Changing(e)' = {s}
      BY DEF Overlap
    <3> QED
      BY <3>1, <3>3, <3>4, <3>5, <1>4 DEF Calm, EventExists
  <2>14. CASE EventRedisError(r)
    <3>1. events'[e] = events[e] /\ subscribed'[e] = subscribed[e] /\ r \notin Changing(e)'
      BY <2>3, <2>14 DEF EventRedisError, redis
    <3> QED
      BY <1>1, <2>5, <3>1, CalmHere DEF EventExists
  <2> QED
    BY <1>4, <2>4, <2>6, <2>7, <2>8, <2>9, <2>10, <2>11, <2>12, <2>13, <2>14 DEF EventStep,
       GetEventsKeys, GetEventsPublicKeys, GetEventsNext, GetEventsDone, GetEventExists,
       GetEventFields
<1> QED
  BY <1>2, <1>3, <1>4

\* An event that is absent and left alone is calm.
LEMMA CalmAbsent ==
  ASSUME NEW e \in AlwaysSubscribed, Changing(e)' = {}, ~EventExists(e)'
  PROVE  Calm(e)'
  BY DEF Calm

LEMMA CalmIdle ==
  ASSUME NEW e \in AlwaysSubscribed, \A r \in EventRequests : epc'[r] = "idle",
         EventExists(e)' => subscribed'[e] = events'[e]
  PROVE  Calm(e)'
  BY DEF Calm, Changing

LEMMA CalmUnchanged ==
  ASSUME NEW e \in AlwaysSubscribed, Calm(e), UNCHANGED eventVars
  PROVE  Calm(e)'
  BY DEF Calm, Changing, EventExists, eventVars, eventLocals, redis

LEMMA CalmInvNext ==
  ASSUME EventsTypeOK, AllPlaced, CalmInv, [EventHistoryNext]_eventHistoryVars
  PROVE  CalmInv'
<1>1. CASE EventHistoryNext
  <2> SUFFICES ASSUME NEW e \in AlwaysSubscribed, ~disturbed'[e]
               PROVE  Calm(e)'
    BY DEF CalmInv
  <2>1. /\ ~Overlap(e)' /\ \A r \in Changing(e) : ~Misread(r)
        /\ ~disturbed[e] \/ (Changing(e)' = {} /\ ~EventExists(e)')
    BY <1>1 DEF EventHistoryNext, RecordEvents
  <2>2. CASE Changing(e)' = {} /\ ~EventExists(e)'
    BY <2>2, CalmAbsent
  <2>3. CASE ~disturbed[e]
    <3>1. Calm(e)
      BY <2>3 DEF CalmInv
    <3>2. ASSUME NEW r \in EventRequests, EventArrives(r) \/ EventStep(r) PROVE Calm(e)'
      BY <2>1, <3>1, <3>2, CalmStep
    <3>3. CASE EventsCrash
      BY <3>1, <3>3, CalmIdle DEF EventsCrash, EventsReset, Calm, EventExists, redis
    <3> QED
      BY <1>1, <3>2, <3>3 DEF EventHistoryNext, EventsNext
  <2> QED
    BY <2>1, <2>2, <2>3
<1>2. CASE UNCHANGED eventHistoryVars
  BY <1>2, CalmUnchanged DEF CalmInv, eventHistoryVars
<1> QED
  BY <1>1, <1>2

\* Steps with history are steps.
LEMMA HistorySteps ==
  ASSUME [EventHistoryNext]_eventHistoryVars
  PROVE  [EventsNext]_eventVars
  BY DEF EventHistoryNext, eventHistoryVars

LEMMA HistoryStart ==
  ASSUME EventHistoryInit
  PROVE  EventsTypeOK /\ AllPlaced /\ CalmInv
<1>1. EventsTypeOK /\ AllPlaced
  BY EventsTypeInit DEF EventHistoryInit, EventsInit, EventLocalsInit, AllPlaced, Placed
<1>2. ASSUME NEW e \in AlwaysSubscribed PROVE Calm(e)
  <2>1. e \in Events /\ Changing(e) = {}
    BY SubscribableAssumption DEF AlwaysSubscribed, EventHistoryInit, EventsInit,
       EventLocalsInit, Changing
  <2> QED
    BY <2>1 DEF Calm, EventHistoryInit, EventsInit
<1> QED
  BY <1>1, <1>2 DEF CalmInv

LEMMA PlacedAlways == EventHistorySpec => [](EventsTypeOK /\ AllPlaced)
<1>1. EventsTypeOK /\ AllPlaced /\ [EventHistoryNext]_eventHistoryVars
        => EventsTypeOK' /\ AllPlaced'
  BY HistorySteps, EventsTypeNext, AllPlacedNext DEF EventsTypeOK
<1> QED
  BY <1>1, HistoryStart, PTL DEF EventHistorySpec

\* With any events, creators, deleters and failures: a stored event of a provider
\* that takes subscriptions has the secret its provider has, unless a creation
\* of the same event overlapped another change of it or misread it.
THEOREM StoredAsSubscribed == EventHistorySpec => []SubscribedUnlessDisturbed
<1>1. CalmInv => SubscribedUnlessDisturbed
  BY DEF CalmInv, Calm, SubscribedUnlessDisturbed
<1> QED
  BY <1>1, HistoryStart, CalmInvNext, PlacedAlways, PTL DEF EventHistorySpec

-----------------------------------------------------------------------------
(* Listings *)

\* What existed all along exists, and what exists existed at some moment.
Tracked(r) ==
  epc[r] # "idle" => existedAlways[r] \subseteq Existing /\ Existing \subseteq existedEver[r]

Own(r) == {e \in Events : EventAccount[e] = ereq[r].account}

\* What a listing has got, is about to get, and has still to get.
InHand(r) ==
  etodo[r] \cup elisting[r]
    \cup (IF epc[r] \in {"get exists", "get fields"} THEN {ereq[r].event} ELSE {})

\* In its loop a listing has in hand what existed all along, and nothing that
\* never did; before it, it has got nothing.
Listed(r) ==
  /\ epc[r] \in {"idle", "keys", "public keys"} => elisting[r] = {}
  /\ ereq[r].op = "GetEvents" /\ epc[r] = "public keys" =>
       /\ ereq[r].public
       /\ existedAlways[r] \cap Own(r) \subseteq etodo[r]
       /\ etodo[r] \subseteq existedEver[r] \cap Own(r)
  /\ ereq[r].op = "GetEvents" /\ epc[r] \in {"next", "get exists", "get fields"} =>
       /\ existedAlways[r] \cap Listable(r) \subseteq InHand(r)
       /\ InHand(r) \subseteq existedEver[r] \cap Listable(r)

ListedInv == \A r \in EventRequests : Tracked(r) /\ Listed(r)

LEMMA HistoryGrows ==
  ASSUME RecordEvents, NEW r \in EventRequests, epc[r] # "idle", epc'[r] # "idle"
  PROVE  /\ existedAlways'[r] = existedAlways[r] \cap Existing'
         /\ existedEver'[r] = existedEver[r] \cup Existing'
  BY DEF RecordEvents

LEMMA TrackedStep ==
  ASSUME EventLocalsTypeOK, RecordEvents, NEW r \in EventRequests, Tracked(r),
         epc[r] = "idle" /\ epc'[r] # "idle" => Existing' = Existing
  PROVE  Tracked(r)'
<1>1. CASE epc[r] = "idle" /\ epc'[r] # "idle"
  <2>1. existedAlways'[r] = Existing /\ existedEver'[r] = Existing
    BY <1>1 DEF RecordEvents
  <2> QED
    BY <1>1, <2>1 DEF Tracked
<1>2. CASE epc[r] # "idle" /\ epc'[r] # "idle"
  BY <1>2, HistoryGrows DEF Tracked
<1> QED
  BY <1>1, <1>2 DEF Tracked

\* Nothing is listed by a request another one's step leaves where it is.
LEMMA ListedAlone ==
  ASSUME NEW r \in EventRequests, RecordEvents, Listed(r),
         epc'[r] = epc[r], ereq'[r] = ereq[r], etodo'[r] = etodo[r], elisting'[r] = elisting[r]
  PROVE  Listed(r)'
<1>1. CASE epc[r] = "idle"
  BY <1>1 DEF Listed
<1>2. CASE epc[r] # "idle"
  <2>1. existedAlways'[r] \subseteq existedAlways[r] /\ existedEver[r] \subseteq existedEver'[r]
    BY <1>2, HistoryGrows
  <2>2. Listable(r)' = Listable(r) /\ Own(r)' = Own(r) /\ InHand(r)' = InHand(r)
    BY DEF Listable, Own, InHand
  <2> QED
    BY <2>1, <2>2 DEF Listed
<1> QED
  BY <1>1, <1>2

\* A step to where nothing is said of listings.
LEMMA ListedOutside ==
  ASSUME NEW r \in EventRequests,
         epc'[r] \in {"idle", "keys", "public keys"} => elisting'[r] = {},
         epc'[r] \in {"idle", "keys"} \/ ereq'[r].op # "GetEvents"
  PROVE  Listed(r)'
  BY DEF Listed

\* A step of the loop that keeps in hand what it has.
LEMMA ListedLoop ==
  ASSUME NEW r \in EventRequests, RecordEvents, Listed(r), ereq[r].op = "GetEvents",
         epc[r] \in {"next", "get exists", "get fields"},
         epc'[r] \in {"next", "get exists", "get fields"},
         InHand(r)' = InHand(r), Listable(r)' = Listable(r)
  PROVE  Listed(r)'
<1>1. existedAlways'[r] \subseteq existedAlways[r] /\ existedEver[r] \subseteq existedEver'[r]
  BY HistoryGrows
<1> QED
  BY <1>1 DEF Listed

LEMMA ListedArrival ==
  ASSUME EventLocalsTypeOK, NEW r \in EventRequests, Listed(r), EventArrives(r)
  PROVE  Listed(r)'
<1>1. epc[r] = "idle" /\ elisting[r] = {}
  BY ArrivalsRead DEF Listed
<1>2. ASSUME NEW q, NEW next, EventBegin(r, q, next)
      PROVE  epc'[r] = next /\ ereq'[r] = q /\ elisting'[r] = {}
  BY <1>1, <1>2 DEF EventBegin, EventLocalsTypeOK
<1>3. ASSUME NEW result, EventReturn(r, result)
      PROVE  epc'[r] = "idle" /\ elisting'[r] = {}
  BY <1>3 DEF EventReturn, EventLocalsTypeOK
<1>4. ASSUME NEW q, NEW next, EventBegin(r, q, next), next = "keys" \/ q.op # "GetEvents"
      PROVE  Listed(r)'
  BY <1>2, <1>4, ListedOutside
<1>5. CASE CreateEvent(r)
  <2>1. ASSUME NEW account, NEW e, NEW secret,
               EventBegin(r, [op |-> "CreateEvent", account |-> account, event |-> e,
                              secret |-> secret], "create exists")
        PROVE  Listed(r)'
    <3> DEFINE q == [op |-> "CreateEvent", account |-> account, event |-> e,
                     secret |-> secret]
    <3>1. q.op # "GetEvents" /\ EventBegin(r, q, "create exists")
      BY <2>1
    <3> HIDE DEF q
    <3> QED
      BY <1>4, <3>1
  <2> QED
    BY <1>3, <1>5, <2>1, ListedOutside DEF CreateEvent
<1>6. CASE DeleteEvent(r)
  <2>1. PICK account \in Accounts, e \in Events :
          EventBegin(r, [op |-> "DeleteEvent", account |-> account, event |-> e], "delete exists")
    BY <1>6 DEF DeleteEvent
  <2> DEFINE q == [op |-> "DeleteEvent", account |-> account, event |-> e]
  <2>2. q.op # "GetEvents" /\ EventBegin(r, q, "delete exists")
    BY <2>1
  <2> HIDE DEF q
  <2> QED
    BY <1>4, <2>2
<1>7. CASE GetEvents(r)
  <2>1. PICK q : EventBegin(r, q, "keys")
    BY <1>7 DEF GetEvents
  <2> QED
    BY <1>4, <2>1
<1>8. CASE GetEvent(r)
  <2>1. PICK account \in Accounts, e \in Events :
          EventBegin(r, [op |-> "GetEvent", account |-> account, event |-> e], "get exists")
    BY <1>8 DEF GetEvent
  <2> DEFINE q == [op |-> "GetEvent", account |-> account, event |-> e]
  <2>2. q.op # "GetEvents" /\ EventBegin(r, q, "get exists")
    BY <2>1
  <2> HIDE DEF q
  <2> QED
    BY <1>4, <2>2
<1> QED
  BY <1>5, <1>6, <1>7, <1>8 DEF EventArrives

LEMMA ListedStep ==
  ASSUME EventLocalsTypeOK, AllPlaced, NEW r \in EventRequests, EventStep(r), RecordEvents,
         Tracked(r), Listed(r)
  PROVE  Listed(r)'
<1>1. /\ Placed(r) /\ (epc[r] # "idle" => ereq[r] \in EventRequestRecord)
      /\ epc \in [EventRequests -> EventPC] /\ DOMAIN ereq = EventRequests
      /\ etodo \in [EventRequests -> SUBSET Events]
      /\ elisting \in [EventRequests -> SUBSET Events]
  BY DEF AllPlaced, EventLocalsTypeOK
<1>2. ASSUME NEW result, EventReturn(r, result) PROVE Listed(r)'
  <2>1. epc'[r] = "idle" /\ elisting'[r] = {}
    BY <1>2 DEF EventReturn, EventLocalsTypeOK
  <2> QED
    BY <2>1, ListedOutside
<1>3. ASSUME NEW next, EventGoto(r, next)
      PROVE  /\ epc'[r] = next /\ ereq'[r] = ereq[r]
             /\ etodo'[r] = etodo[r] /\ elisting'[r] = elisting[r]
  BY <1>3 DEF EventGoto, EventLocalsTypeOK
<1>4. ASSUME NEW next, EventGoto(r, next), next \notin {"idle", "keys", "public keys"},
             ereq[r].op # "GetEvents"
      PROVE  Listed(r)'
  BY <1>3, <1>4, ListedOutside
<1>5. CASE \/ CreateEventExists(r) \/ CreateEventGet(r) \/ SubscribeToEvent(r)
           \/ GetEventInfo(r) \/ CreateEventExec(r)
  <2>1. ereq[r].op # "GetEvents"
    BY <1>1, <1>5 DEF Placed, CreateEventExists, CreateEventGet, SubscribeToEvent, GetEventInfo,
       CreateEventExec
  <2> QED
    BY <1>2, <1>4, <1>5, <2>1 DEF CreateEventExists, CreateEventGet, SubscribeToEvent,
       GetEventInfo, CreateEventExec
<1>6. CASE \/ DeleteEventExists(r) \/ DeleteEventAccount(r) \/ DeleteEventRange(r)
           \/ DeleteEventExec(r) \/ UnsubscribeFromEvent(r)
  <2>1. ereq[r].op # "GetEvents"
    BY <1>1, <1>6 DEF Placed, DeleteEventExists, DeleteEventAccount, DeleteEventRange,
       DeleteEventExec, UnsubscribeFromEvent
  <2> QED
    BY <1>2, <1>4, <1>6, <2>1 DEF DeleteEventExists, DeleteEventAccount, DeleteEventRange,
       DeleteEventExec, UnsubscribeFromEvent
<1>7. CASE GetEventsDone(r) \/ EventRedisError(r)
  BY <1>2, <1>7 DEF GetEventsDone, EventRedisError
<1>8. CASE GetEventExists(r)
  <2>1. CASE EventGoto(r, "get fields") /\ ereq[r].op = "GetEvents"
    <3>1. InHand(r)' = InHand(r) /\ Listable(r)' = Listable(r)
      BY <1>3, <1>8, <2>1 DEF GetEventExists, InHand, Listable
    <3> QED
      BY <1>3, <1>8, <2>1, <3>1, ListedLoop DEF GetEventExists
  <2> QED
    BY <1>2, <1>4, <1>8, <2>1 DEF GetEventExists
<1>9. CASE GetEventFields(r)
  <2>1. CASE /\ ereq[r].op = "GetEvents"
             /\ epc' = [epc EXCEPT ![r] = "next"]
             /\ elisting' = [elisting EXCEPT ![r] = elisting[r] \cup {ereq[r].event}]
             /\ UNCHANGED <<ereq, etodo, ereply>>
    <3>1. InHand(r)' = InHand(r) /\ Listable(r)' = Listable(r) /\ epc'[r] = "next"
      BY <1>1, <1>9, <2>1 DEF GetEventFields, InHand, Listable
    <3> QED
      BY <1>9, <2>1, <3>1, ListedLoop DEF GetEventFields
  <2>2. CASE EventReturn(r, "not found") \/ EventReturn(r, "ok")
    BY <1>2, <2>2
  <2> QED
    BY <1>1, <1>9, <2>1, <2>2 DEF GetEventFields, Placed, CreateEventPC, DeleteEventPC,
       EventRequestRecord
<1>10. CASE GetEventsNext(r)
  <2>1. PICK e \in etodo[r] :
          /\ epc[r] = "next"
          /\ epc' = [epc EXCEPT ![r] = "get exists"]
          /\ ereq' = [ereq EXCEPT ![r].event = e]
          /\ etodo' = [etodo EXCEPT ![r] = etodo[r] \ {e}]
          /\ UNCHANGED elisting
    BY <1>10 DEF GetEventsNext
  <2>2. ereq[r].op = "GetEvents" /\ ereq[r] \in EventRequestRecord
    BY <1>1, <2>1 DEF Placed, CreateEventPC, DeleteEventPC, EventRequestRecord
  <2>3. /\ ereq'[r].account = ereq[r].account /\ ereq'[r].public = ereq[r].public
        /\ ereq'[r].event = e
    BY <1>1, <2>1, <2>2 DEF EventRequestRecord
  <2>4. InHand(r)' = InHand(r) /\ Listable(r)' = Listable(r) /\ epc'[r] = "get exists"
    BY <1>1, <2>1, <2>3 DEF InHand, Listable
  <2> QED
    BY <2>1, <2>2, <2>4, ListedLoop
<1>11. CASE GetEventsKeys(r) \/ GetEventsPublicKeys(r)
  <2>1. ereq[r].op = "GetEvents" /\ ereq[r] \in EventRequestRecord
    BY <1>1, <1>11 DEF Placed, GetEventsKeys, GetEventsPublicKeys, CreateEventPC, DeleteEventPC,
       EventRequestRecord
  <2>2. /\ epc[r] # "idle" /\ elisting[r] = {} /\ elisting' = elisting /\ ereq' = ereq
        /\ Existing' = Existing /\ epc'[r] \in {"public keys", "next"}
    BY <1>1, <1>11 DEF GetEventsKeys, GetEventsPublicKeys, Listed, redis, Existing, EventExists
  <2>3. /\ existedAlways'[r] \subseteq existedAlways[r] /\ existedAlways'[r] \subseteq Existing
        /\ existedEver[r] \subseteq existedEver'[r] /\ Existing \subseteq existedEver'[r]
    BY <2>2, HistoryGrows
  <2>4. Listable(r)' = Listable(r) /\ Own(r)' = Own(r) /\ ereq[r].public \in BOOLEAN
    BY <2>1, <2>2 DEF Listable, Own, EventRequestRecord
  <2>5. CASE GetEventsKeys(r)
    <3>1. /\ etodo'[r] = Existing \cap Own(r)
          /\ epc'[r] = IF ereq[r].public THEN "public keys" ELSE "next"
      BY <1>1, <2>5 DEF GetEventsKeys, Existing, Own
    <3>2. CASE ereq[r].public
      BY <2>2, <2>3, <2>4, <3>1, <3>2 DEF Listed
    <3>3. CASE ~ereq[r].public
      <4>1. Listable(r) = Own(r) /\ epc'[r] = "next" /\ InHand(r)' = Existing \cap Own(r)
        BY <2>2, <3>1, <3>3 DEF Listable, Own, InHand
      <4> QED
        BY <2>2, <2>3, <2>4, <4>1 DEF Listed
    <3> QED
      BY <2>4, <3>2, <3>3
  <2>6. CASE GetEventsPublicKeys(r)
    <3>1. /\ etodo'[r] = etodo[r] \cup {e \in Existing : EventAccount[e] = Public}
          /\ epc[r] = "public keys" /\ epc'[r] = "next"
      BY <1>1, <2>6 DEF GetEventsPublicKeys, Existing
    <3>2. /\ Listable(r) = Own(r) \cup {e \in Events : EventAccount[e] = Public}
          /\ existedAlways[r] \cap Own(r) \subseteq etodo[r]
          /\ etodo[r] \subseteq existedEver[r] \cap Own(r)
      BY <2>1, <3>1 DEF Listed, Listable, Own
    <3>3. InHand(r)' = etodo'[r]
      BY <2>2, <3>1 DEF InHand
    <3>4. existedAlways'[r] \cap Listable(r) \subseteq etodo'[r]
      BY <2>3, <3>1, <3>2
    <3>5. etodo'[r] \subseteq existedEver'[r] \cap Listable(r)
      BY <2>3, <3>1, <3>2 DEF Existing
    <3> QED
      BY <2>2, <2>4, <3>1, <3>3, <3>4, <3>5 DEF Listed
  <2> QED
    BY <1>11, <2>5, <2>6
<1> QED
  BY <1>5, <1>6, <1>7, <1>8, <1>9, <1>10, <1>11 DEF EventStep

LEMMA ListedInvNext ==
  ASSUME EventLocalsTypeOK, AllPlaced, ListedInv, [EventHistoryNext]_eventHistoryVars
  PROVE  ListedInv'
<1>1. CASE UNCHANGED eventHistoryVars
  <2> SUFFICES ASSUME NEW r \in EventRequests PROVE Tracked(r)' /\ Listed(r)'
    BY DEF ListedInv
  <2>1. Tracked(r) /\ Listed(r)
    BY DEF ListedInv
  <2>2. /\ UNCHANGED <<events, epc, ereq, etodo, elisting, existedAlways, existedEver>>
        /\ Existing' = Existing
    BY <1>1 DEF eventHistoryVars, eventVars, eventLocals, redis, Existing, EventExists
  <2>3. Listable(r)' = Listable(r) /\ Own(r)' = Own(r) /\ InHand(r)' = InHand(r)
    BY <2>2 DEF Listable, Own, InHand
  <2> QED
    BY <2>1, <2>2, <2>3 DEF Tracked, Listed
<1>2. CASE EventsCrash
  BY <1>2 DEF ListedInv, EventsCrash, EventsReset, Tracked, Listed
<1>3. ASSUME NEW r \in EventRequests, EventArrives(r) \/ EventStep(r), RecordEvents
      PROVE  ListedInv'
  <2>1. Alone(r)
    BY <1>3, ArrivesAlone, StepAlone
  <2>2. ASSUME NEW s \in EventRequests PROVE Tracked(s)'
    <3>1. epc[s] = "idle" /\ epc'[s] # "idle" => Existing' = Existing
      <4>1. s = r => \/ epc[s] # "idle"
                     \/ Existing' = Existing
        BY <1>3, ArrivalsRead, StepBusy DEF redis, Existing, EventExists
      <4> QED
        BY <2>1, <4>1 DEF Alone
    <3> QED
      BY <1>3, <3>1, TrackedStep DEF ListedInv
  <2>3. ASSUME NEW s \in EventRequests \ {r} PROVE Listed(s)'
    BY <1>3, <2>1, ListedAlone DEF Alone, ListedInv
  <2>4. Listed(r)'
    BY <1>3, ListedArrival, ListedStep DEF ListedInv
  <2> QED
    BY <2>2, <2>3, <2>4 DEF ListedInv
<1> QED
  BY <1>1, <1>2, <1>3 DEF EventHistoryNext, EventsNext

LEMMA ListedAlways == EventHistorySpec => []ListedInv
<1>1. EventHistoryInit => ListedInv
  BY DEF EventHistoryInit, EventsInit, EventLocalsInit, ListedInv, Tracked, Listed
<1>2. EventsTypeOK /\ AllPlaced /\ ListedInv /\ [EventHistoryNext]_eventHistoryVars => ListedInv'
  BY ListedInvNext DEF EventsTypeOK
<1> QED
  BY <1>1, <1>2, PlacedAlways, PTL DEF EventHistorySpec

\* Where a listing ends, and how.
LEMMA ListingEnds ==
  ASSUME EventsTypeOK, AllPlaced, ListedInv, EventHistoryNext, NEW r \in EventRequests,
         epc[r] # "idle", ereq[r].op = "GetEvents", epc'[r] = "idle"
  PROVE  /\ ereply'[r] = "ok" => epc[r] = "next" /\ etodo[r] = {}
         /\ ereply'[r] = "not found" =>
              epc[r] \in {"get exists", "get fields"} /\ ~EventKeyExists(ereq[r].account, ereq[r].event)
<1>1. /\ Placed(r) /\ ereq[r] \in EventRequestRecord
      /\ epc \in [EventRequests -> EventPC] /\ ereply \in [EventRequests -> EventReply]
  BY DEF AllPlaced, EventsTypeOK, EventLocalsTypeOK
<1>2. epc[r] \in {"keys", "public keys", "next", "get exists", "get fields"}
  BY <1>1 DEF Placed
<1>3. ASSUME NEW result, EventReturn(r, result) PROVE ereply'[r] = result
  BY <1>1, <1>3 DEF EventReturn
<1>4. CASE EventsCrash
  BY <1>4 DEF EventsCrash, EventsReset
<1>5. CASE EventStep(r)
  <2>1. ~EventGoto(r, "get fields")
    BY <1>1 DEF EventGoto
  <2>2. CASE GetEventsKeys(r) \/ GetEventsPublicKeys(r) \/ GetEventsNext(r)
    BY <1>1, <2>2 DEF GetEventsKeys, GetEventsPublicKeys, GetEventsNext
  <2>3. CASE GetEventsDone(r) \/ EventRedisError(r) \/ GetEventExists(r)
    BY <1>3, <2>1, <2>3 DEF GetEventsDone, EventRedisError, GetEventExists
  <2>4. CASE GetEventFields(r)
    BY <1>1, <1>3, <2>4 DEF GetEventFields, EventKeyExists
  <2> QED
    BY <1>2, <1>5, <2>2, <2>3, <2>4 DEF EventStep, CreateEventExists, CreateEventGet,
       SubscribeToEvent, GetEventInfo, CreateEventExec, DeleteEventExists, DeleteEventAccount,
       DeleteEventRange, DeleteEventExec, UnsubscribeFromEvent
<1>6. ASSUME NEW s \in EventRequests, s # r, EventArrives(s) \/ EventStep(s) PROVE FALSE
  BY <1>6, ArrivesAlone, StepAlone DEF Alone, EventsTypeOK
<1>7. ~EventArrives(r)
  BY ArrivalsRead DEF EventsTypeOK
<1> QED
  BY <1>4, <1>5, <1>6, <1>7 DEF EventHistoryNext, EventsNext

\* For any number of requests, events and failures: an answer of GetEvents
\* contains every event that existed while it ran, and none that never did.
THEOREM EventListingsBounded == EventHistorySpec => EventListingBounded
<1>1. ASSUME EventsTypeOK, AllPlaced, ListedInv, EventHistoryNext, NEW r \in EventRequests,
             EventReplies(r, "GetEvents", "ok")
      PROVE  /\ existedAlways[r] \cap Listable(r) \subseteq elisting[r]
             /\ elisting[r] \subseteq existedEver[r] \cap Listable(r)
  <2>1. epc[r] = "next" /\ etodo[r] = {} /\ ereq[r].op = "GetEvents"
    BY <1>1, ListingEnds DEF EventReplies
  <2>2. InHand(r) = elisting[r]
    BY <2>1 DEF InHand
  <2> QED
    BY <1>1, <2>1, <2>2 DEF ListedInv, Listed
<1>2. EventsTypeOK /\ AllPlaced /\ ListedInv /\ [EventHistoryNext]_eventHistoryVars =>
        [\A r \in EventRequests :
           EventReplies(r, "GetEvents", "ok") =>
             /\ existedAlways[r] \cap Listable(r) \subseteq elisting[r]
             /\ elisting[r] \subseteq existedEver[r] \cap Listable(r)]_eventHistoryVars
  BY <1>1
<1> QED
  BY <1>2, PlacedAlways, ListedAlways, PTL DEF EventHistorySpec, EventListingBounded

\* GetEvents answers "not found" only because of a deletion while it ran of an
\* event that it was to list.
THEOREM EventListingsFail == EventHistorySpec => EventListingFailsOnDelete
<1>1. ASSUME EventsTypeOK, AllPlaced, ListedInv, EventHistoryNext, NEW r \in EventRequests,
             EventReplies(r, "GetEvents", "not found")
      PROVE  (existedEver[r] \ existedAlways[r]) \cap Listable(r) # {}
  <2>1. /\ epc[r] \in {"get exists", "get fields"} /\ ereq[r].op = "GetEvents"
        /\ ~EventKeyExists(ereq[r].account, ereq[r].event)
    BY <1>1, ListingEnds DEF EventReplies
  <2>2. ereq[r].event \in InHand(r) /\ InHand(r) \subseteq existedEver[r] \cap Listable(r)
    BY <1>1, <2>1 DEF InHand, ListedInv, Listed
  <2>3. ~EventExists(ereq[r].event)
    BY <2>1, <2>2 DEF EventKeyExists, MatchesAccount, Listable
  <2>4. ereq[r].event \notin existedAlways[r]
    BY <1>1, <2>1, <2>3 DEF ListedInv, Tracked, Existing
  <2> QED
    BY <2>2, <2>4
<1>2. EventsTypeOK /\ AllPlaced /\ ListedInv /\ [EventHistoryNext]_eventHistoryVars =>
        [\A r \in EventRequests :
           EventReplies(r, "GetEvents", "not found") =>
             (existedEver[r] \ existedAlways[r]) \cap Listable(r) # {}]_eventHistoryVars
  BY <1>1
<1> QED
  BY <1>2, PlacedAlways, ListedAlways, PTL DEF EventHistorySpec, EventListingFailsOnDelete
=============================================================================
