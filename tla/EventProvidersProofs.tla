------------------------ MODULE EventProvidersProofs ------------------------
(***************************************************************************)
(* With providers looked up in types that may be reloaded at any moment,   *)
(* the handlers of EventProviders are those of Events, and a stored event  *)
(* is subscribed where its URI leads.  Providers may fail in all of this.  *)
(***************************************************************************)
EXTENDS EventProvidersHistory, EventsProofs, WellFoundedInduction

-----------------------------------------------------------------------------
(* The types *)

LEMMA MinIn ==
  ASSUME NEW S \in SUBSET Nat, S # {}
  PROVE  Min(S) \in S
<1> DEFINE R == {pair \in Nat \X Nat : pair[1] < pair[2]}
<1>1. \A m, n \in Nat : <<m, n>> \in R <=> m < n
  OBVIOUS
<1>2. \E n \in S : \A m \in S : ~(<<m, n>> \in R)
  <2>1. IsWellFoundedOn(R, Nat)
    BY NatLessThanWellFounded DEF OpToRel
  <2> HIDE DEF R
  <2> QED
    BY <2>1, WFMin
<1> HIDE DEF R
<1>3. PICK n \in S : \A m \in S : ~(<<m, n>> \in R)
  BY <1>2
<1>4. \A m \in S : n <= m
  <2> SUFFICES ASSUME NEW m \in S PROVE n <= m
    OBVIOUS
  <2>1. m \in Nat /\ n \in Nat /\ ~(m < n)
    BY <1>1, <1>3
  <2> QED
    BY <2>1
<1> QED
  BY <1>4 DEF Min

\* What MatchType returns is the service of a type that matches the event.
LEMMA MatchTypeFinds ==
  ASSUME types \in TypesLists, NEW e, MatchType(e) # NoService
  PROVE  \E type \in ToSet(types) : e \in type.matches /\ type.service = MatchType(e)
<1> DEFINE I == {i \in 1..Len(types) : e \in types[i].matches}
<1>1. types \in Seq(TypeRecord)
  <2>1. << >> \in Seq(TypeRecord)
    OBVIOUS
  <2> QED
    BY <2>1, TypesAssumption DEF TypesLists
<1>2. Min(I) \in I /\ MatchType(e) = types[Min(I)].service
  <2>1. SelectInSeq(types, LAMBDA type : e \in type.matches) = IF I # {} THEN Min(I) ELSE 0
    BY DEF SelectInSeq
  <2>2. I # {}
    BY <2>1 DEF MatchType
  <2>3. Min(I) \in I /\ Min(I) # 0
    <3>1. I \in SUBSET Nat /\ 0 \notin I
      BY <1>1
    <3> HIDE DEF I
    <3> QED
      BY <2>2, <3>1, MinIn
  <2> QED
    BY <2>1, <2>2, <2>3 DEF MatchType
<1> QED
  <2> DEFINE first == Min(I)
  <2>1. first \in 1..Len(types) /\ e \in types[first].matches
    BY <1>2
  <2>2. types[first].service = MatchType(e)
    BY <1>2
  <2> HIDE DEF first
  <2>3. types[first] \in ToSet(types)
    BY <1>1, <2>1 DEF ToSet
  <2> QED
    BY <2>1, <2>2, <2>3

\* What is matched is known to be subscribable or describable.
LEMMA MatchTypeOffers ==
  ASSUME types \in TypesLists, NEW e, MatchType(e) # NoService
  PROVE  /\ MatchType(e) \in Services
         /\ IF MatchType(e) \in Implementing THEN e \in Subscribable ELSE e \in Describable
<1>1. PICK type \in ToSet(types) : e \in type.matches /\ type.service = MatchType(e)
  BY MatchTypeFinds
<1>2. types # NoTypes
  BY <1>1, TypesAssumption DEF ToSet
<1>3. types \in Configs /\ types \in Seq(TypeRecord)
  BY <1>2, TypesAssumption DEF TypesLists
<1>4. type \in TypeRecord
  BY <1>1, <1>3 DEF ToSet
<1> QED
  BY <1>1, <1>3, <1>4, SubscriptionsAssumption DEF TypeRecord

-----------------------------------------------------------------------------
(* The handlers are those of Events *)

\* A request that is calling a provider may do so.
MayCall(r) ==
  Calling(r) =>
    /\ epc[r] \in ProviderCalls
    /\ IF service[r] \in Implementing THEN ereq[r].event \in Subscribable
                                      ELSE ereq[r].event \in Describable

ProvidersInv == ProvidersTypeOK /\ \A r \in EventRequests : MayCall(r)

LEMMA ProviderStepSimulates ==
  ASSUME ProvidersInv, "provider" \in EventFaults, NEW r \in EventRequests, ProviderStep(r)
  PROVE  EventStep(r)
<1>1. MayCall(r) /\ Calling(r) /\ UNCHANGED redis
  BY DEF ProvidersInv, ProviderStep, SubscribeAt, DescribeAt, UnsubscribeAt, Answered
<1>2. CASE SubscribeAt(r)
  BY <1>1, <1>2 DEF MayCall, SubscribeAt, Subscribe, NoSubscription, EventStep, SubscribeToEvent
<1>3. CASE DescribeAt(r)
  BY <1>1, <1>3 DEF DescribeAt, NoSubscription, EventStep, GetEventInfo
<1>4. CASE UnsubscribeAt(r)
  <2>1. CASE Unsubscribe(service[r], ereq[r].event)
    <3>1. subscribed' = [subscribed EXCEPT ![ereq[r].event] = NoEvent] \/ subscribed' = subscribed
      BY <2>1 DEF Unsubscribe, ProvidersInv, ProvidersTypeOK, EventsTypeOK
    <3> QED
      BY <1>1, <1>4, <3>1 DEF UnsubscribeAt, EventStep, UnsubscribeFromEvent
  <2>2. CASE NoSubscription
    BY <1>1, <1>4, <2>2 DEF UnsubscribeAt, NoSubscription, EventStep, UnsubscribeFromEvent
  <2> QED
    BY <1>4, <2>1, <2>2 DEF UnsubscribeAt
<1> QED
  BY <1>2, <1>3, <1>4 DEF ProviderStep

LEMMA MatchProviderSimulates ==
  ASSUME "provider" \in EventFaults, NEW r \in EventRequests, MatchProvider(r)
  PROVE  EventStep(r) \/ UNCHANGED eventVars
<1>1. CASE UNCHANGED eventLocals
  BY <1>1 DEF MatchProvider, eventVars
<1>2. CASE EventReturn(r, "error")
  BY <1>2 DEF MatchProvider, ProviderCalls, EventStep, SubscribeToEvent, GetEventInfo,
     UnsubscribeFromEvent
<1> QED
  BY <1>1, <1>2 DEF MatchProvider

\* Whose step it is: of one request, of the types, or the end of the process.
LEMMA ProvidersSimulate ==
  ASSUME ProvidersInv, "provider" \in EventFaults, [ProvidersNext]_providerVars
  PROVE  [EventsNext]_eventVars
<1>1. CASE UNCHANGED providerVars
  BY <1>1 DEF providerVars
<1>2. ASSUME NEW r \in EventRequests, TypedArrival(r) \/ RedisStep(r) PROVE EventsNext
  BY <1>2 DEF TypedArrival, RedisStep, EventsNext
<1>3. ASSUME NEW r \in EventRequests, MatchProvider(r) \/ ProviderStep(r)
      PROVE  [EventsNext]_eventVars
  BY <1>3, MatchProviderSimulates, ProviderStepSimulates DEF EventsNext
<1>4. CASE Reloads
  BY <1>4 DEF Reloads
<1>5. CASE ProvidersCrash
  BY <1>5 DEF ProvidersCrash, EventsNext
<1> QED
  BY <1>1, <1>2, <1>3, <1>4, <1>5 DEF ProvidersNext

\* Only the request that makes a step moves, or calls.
LEMMA ProvidersAlone ==
  ASSUME ProvidersInv, "provider" \in EventFaults, NEW r \in EventRequests,
         TypedArrival(r) \/ RedisStep(r) \/ MatchProvider(r) \/ ProviderStep(r)
  PROVE  Alone(r) /\ \A q \in EventRequests \ {r} : service'[q] = service[q]
<1>1. EventLocalsTypeOK /\ service \in [EventRequests -> Services \cup {NoService}]
  BY DEF ProvidersInv, ProvidersTypeOK, EventsTypeOK
<1>2. UNCHANGED eventVars => Alone(r)
  BY DEF eventVars, eventLocals, Alone
<1>3. Alone(r)
  BY <1>1, <1>2, ArrivesAlone, StepAlone, MatchProviderSimulates, ProviderStepSimulates
     DEF TypedArrival, RedisStep
<1>4. \A q \in EventRequests \ {r} : service'[q] = service[q]
  BY <1>1 DEF TypedArrival, RedisStep, MatchProvider, ProviderStep, SubscribeAt, DescribeAt,
     UnsubscribeAt, Answered
<1> QED
  BY <1>3, <1>4

LEMMA ServiceType ==
  ASSUME ProvidersInv, [ProvidersNext]_providerVars
  PROVE  /\ service' \in [EventRequests -> Services \cup {NoService}]
         /\ EventTypesTypeOK'
         /\ secretAt' \in [Services -> [Events -> Secrets \cup {NoEvent}]]
<1>1. /\ service \in [EventRequests -> Services \cup {NoService}]
      /\ EventTypesTypeOK
      /\ secretAt \in [Services -> [Events -> Secrets \cup {NoEvent}]]
  BY DEF ProvidersInv, ProvidersTypeOK
<1>2. CASE UNCHANGED providerVars
  BY <1>1, <1>2 DEF providerVars, typesVars, EventTypesTypeOK
<1>3. ASSUME NEW r \in EventRequests, TypedArrival(r) \/ RedisStep(r)
      PROVE  UNCHANGED <<typesVars, service, secretAt>>
  BY <1>3 DEF TypedArrival, RedisStep
<1>4. ASSUME NEW r \in EventRequests, MatchProvider(r)
      PROVE  /\ UNCHANGED <<typesVars, secretAt>>
             /\ service' \in [EventRequests -> Services \cup {NoService}]
  <2>1. CASE MatchType(ereq[r].event) = NoService
    BY <1>1, <1>4, <2>1 DEF MatchProvider
  <2>2. CASE MatchType(ereq[r].event) # NoService
    BY <1>1, <1>4, <2>2, MatchTypeOffers DEF MatchProvider, EventTypesTypeOK
  <2> QED
    BY <2>1, <2>2
<1>5. ASSUME NEW r \in EventRequests, ProviderStep(r)
      PROVE  /\ UNCHANGED typesVars
             /\ service' \in [EventRequests -> Services \cup {NoService}]
             /\ secretAt' \in [Services -> [Events -> Secrets \cup {NoEvent}]]
  <2>1. UNCHANGED typesVars /\ service' = [service EXCEPT ![r] = NoService]
    BY <1>5 DEF ProviderStep, SubscribeAt, DescribeAt, UnsubscribeAt, Answered
  <2>2. epc[r] = "create subscribe" => ereq[r].secret \in Secrets
    BY DEF ProvidersInv, ProvidersTypeOK, EventsTypeOK, EventLocalsTypeOK, CreateEventPC,
       EventRequestRecord
  <2>3. secretAt' \in [Services -> [Events -> Secrets \cup {NoEvent}]]
    <3>1. ASSUME NEW s \in Services, NEW e, NEW secret \in Secrets \cup {NoEvent},
                 secretAt' = [secretAt EXCEPT ![s][e] = secret]
          PROVE  secretAt' \in [Services -> [Events -> Secrets \cup {NoEvent}]]
      BY <1>1, <3>1
    <3>2. service[r] \in Services
      BY <1>1, <1>5 DEF ProviderStep, SubscribeAt, DescribeAt, UnsubscribeAt, Calling
    <3>3. CASE secretAt' = secretAt
      BY <1>1, <3>3
    <3>4. CASE epc[r] = "create subscribe" /\ Subscribe(service[r], ereq[r].event, ereq[r].secret)
      BY <2>2, <3>1, <3>2, <3>4 DEF Subscribe
    <3>5. CASE Unsubscribe(service[r], ereq[r].event)
      BY <3>1, <3>2, <3>5 DEF Unsubscribe
    <3> QED
      BY <1>5, <3>3, <3>4, <3>5 DEF ProviderStep, SubscribeAt, DescribeAt, UnsubscribeAt,
         NoSubscription
  <2> QED
    BY <1>1, <2>1, <2>3
<1>6. CASE Reloads
  BY <1>1, <1>6 DEF Reloads, TypesStep, FirstLoad, BeginReload, EndReload, EventTypesTypeOK
<1>7. CASE ProvidersCrash
  BY <1>1, <1>7 DEF ProvidersCrash, EventTypesTypeOK, TypesLists
<1> QED
  BY <1>1, <1>2, <1>3, <1>4, <1>5, <1>6, <1>7 DEF ProvidersNext, typesVars, EventTypesTypeOK

LEMMA MayCallNext ==
  ASSUME ProvidersInv, "provider" \in EventFaults, [ProvidersNext]_providerVars,
         NEW q \in EventRequests
  PROVE  MayCall(q)'
<1>1. /\ MayCall(q) /\ types \in TypesLists
      /\ service \in [EventRequests -> Services \cup {NoService}]
  BY DEF ProvidersInv, ProvidersTypeOK, EventTypesTypeOK
<1>2. ASSUME epc'[q] = epc[q], ereq'[q] = ereq[q], service'[q] = service[q] PROVE MayCall(q)'
  BY <1>1, <1>2 DEF MayCall, Calling
<1>3. CASE UNCHANGED providerVars \/ Reloads
  BY <1>2, <1>3 DEF Reloads, providerVars, eventVars, eventLocals
<1>4. CASE ProvidersCrash
  BY <1>4 DEF ProvidersCrash, MayCall, Calling
<1>5. ASSUME NEW r \in EventRequests, r # q,
             TypedArrival(r) \/ RedisStep(r) \/ MatchProvider(r) \/ ProviderStep(r)
      PROVE  MayCall(q)'
  BY <1>2, <1>5, ProvidersAlone DEF Alone
<1>6. CASE TypedArrival(q) \/ RedisStep(q)
  <2>1. service'[q] = service[q] /\ epc[q] \notin ProviderCalls
    BY <1>6, ArrivalsRead DEF TypedArrival, RedisStep, ProviderCalls, ProvidersInv,
       ProvidersTypeOK, EventsTypeOK
  <2> QED
    BY <1>1, <2>1 DEF MayCall, Calling
<1>7. CASE MatchProvider(q)
  <2>1. CASE MatchType(ereq[q].event) = NoService
    BY <1>7, <2>1 DEF MatchProvider, MayCall, Calling
  <2>2. CASE MatchType(ereq[q].event) # NoService
    <3>1. /\ epc[q] \in ProviderCalls /\ epc' = epc /\ ereq' = ereq
          /\ service'[q] = MatchType(ereq[q].event)
      BY <1>1, <1>7, <2>2 DEF MatchProvider, eventLocals
    <3> QED
      BY <1>1, <2>2, <3>1, MatchTypeOffers DEF MayCall
  <2> QED
    BY <2>1, <2>2
<1>8. CASE ProviderStep(q)
  BY <1>1, <1>8 DEF ProviderStep, SubscribeAt, DescribeAt, UnsubscribeAt, Answered, MayCall,
     Calling
<1> QED
  BY <1>3, <1>4, <1>5, <1>6, <1>7, <1>8 DEF ProvidersNext

LEMMA ProvidersInvNext ==
  ASSUME ProvidersInv, "provider" \in EventFaults, [ProvidersNext]_providerVars
  PROVE  ProvidersInv'
<1>1. EventsTypeOK'
  BY ProvidersSimulate, EventsTypeNext DEF ProvidersInv, ProvidersTypeOK
<1> QED
  BY <1>1, ServiceType, MayCallNext DEF ProvidersInv, ProvidersTypeOK

LEMMA ProvidersStart ==
  ASSUME ProvidersInit
  PROVE  ProvidersInv /\ EventsInit
<1>1. RedisFilled
  <2>1. NoFilters \in [{} -> Expressions] /\ {} \in SUBSET FilterNames
    BY DEF NoFilters, NoFields
  <2>2. NoFilters \in FilterMaps
    BY <2>1 DEF FilterMaps
  <2> QED
    BY <2>2 DEF ProvidersInit, RedisEmpty, RedisFilled
<1>2. EventsInit
  BY <1>1, SubscribableAssumption DEF ProvidersInit, EventsInit, RedisEmpty, AlwaysSubscribed
<1>3. EventsTypeOK
  BY <1>2, EventsTypeInit
<1> QED
  BY <1>2, <1>3 DEF ProvidersInit, ProvidersInv, ProvidersTypeOK, EventTypesInit,
     EventTypesTypeOK, TypesLists, MayCall, Calling

\* Types, and what providers know, whatever is reloaded at any moment.
THEOREM ProvidersTyped ==
  ASSUME "provider" \in EventFaults
  PROVE  ProvidersSpec => []ProvidersTypeOK
<1>1. ProvidersInit => ProvidersInv
  BY ProvidersStart
<1>2. ProvidersInv /\ [ProvidersNext]_providerVars => ProvidersInv'
  BY ProvidersInvNext
<1>3. ProvidersInv => ProvidersTypeOK
  BY DEF ProvidersInv
<1> QED
  BY <1>1, <1>2, <1>3, PTL DEF ProvidersSpec

\* For any configurations, services and requests: handlers that look a provider
\* up in the types of the moment, and wait for it as long as it takes, do what
\* the handlers of Events do.
THEOREM ProvidersAreEvents ==
  ASSUME "provider" \in EventFaults
  PROVE  ProvidersSpec => ImplementsEvents
<1>1. ProvidersInit => ProvidersInv /\ EventsInit
  BY ProvidersStart
<1>2. ProvidersInv /\ [ProvidersNext]_providerVars => ProvidersInv' /\ [EventsNext]_eventVars
  BY ProvidersInvNext, ProvidersSimulate
<1> QED
  BY <1>1, <1>2, PTL DEF ProvidersSpec, ImplementsEvents, EventsSpec

-----------------------------------------------------------------------------
(* Where an event is subscribed *)

\* A request calls a provider that the types matched its event with.
CallsMatched ==
  \A e \in Events : \A r \in Changing(e) : Calling(r) => service[r] \in matched[e]

\* What holds of an event that is not disturbed and was matched with s only.
\* Past its reads a creation knows the event to be absent, and is alone with it;
\* when it stores the event, s has its secret.
CalmAt(e, s) ==
  /\ EventExists(e) => secretAt[s][e] = events[e]
  /\ \A r \in Changing(e) :
       /\ epc[r] # "create info"
       /\ epc[r] \in {"create subscribe", "create exec", "delete unsubscribe"} =>
            ~EventExists(e)
       /\ epc[r] = "create exec" => secretAt[s][e] = ereq[r].secret
       /\ ereq[r].op = "CreateEvent" => Changing(e) = {r}

CalmAtInv ==
  \A e \in Events : \A s \in Implementing :
    disturbed[e] \/ ~(matched[e] \subseteq {s}) \/ CalmAt(e, s)

PlacesInv == ProvidersInv /\ AllPlaced /\ CallsMatched /\ CalmAtInv

LEMMA MatchTypeStays ==
  ASSUME UNCHANGED types, NEW e
  PROVE  MatchType(e)' = MatchType(e)
  BY DEF MatchType, SelectInSeq, Min

LEMMA CallsMatchedNext ==
  ASSUME ProvidersInv, AllPlaced, CallsMatched, "provider" \in EventFaults,
         [ProviderHistoryNext]_providerHistoryVars
  PROVE  CallsMatched'
<1>1. CASE UNCHANGED providerHistoryVars
  BY <1>1 DEF providerHistoryVars, providerVars, eventVars, eventLocals, CallsMatched, Changing,
     Calling
<1>2. CASE ProvidersNext /\ RecordProviders
  <2> SUFFICES ASSUME NEW e \in Events, NEW q \in Changing(e)', Calling(q)'
               PROVE  service'[q] \in matched'[e]
    BY DEF CallsMatched
  <2>1. /\ q \in EventRequests
        /\ matched'[e] = matched[e] \cup ({MatchType(e)'} \ {NoService})
    BY <1>2 DEF RecordProviders, Absent, Changing
  <2>2. ASSUME q \in Changing(e), service'[q] = service[q] PROVE service'[q] \in matched'[e]
    BY <2>1, <2>2 DEF CallsMatched, Calling
  <2>3. /\ MayCall(q) /\ EventsTypeOK /\ EventLocalsTypeOK
        /\ service \in [EventRequests -> Services \cup {NoService}]
    BY <2>1 DEF ProvidersInv, ProvidersTypeOK, EventsTypeOK
  <2>4. ASSUME epc'[q] = epc[q], ereq'[q] = ereq[q], service'[q] = service[q]
        PROVE  service'[q] \in matched'[e]
    BY <2>2, <2>4 DEF Changing
  <2>5. CASE Reloads
    BY <2>4, <2>5 DEF Reloads, eventVars, eventLocals
  <2>6. CASE ProvidersCrash
    BY <2>1, <2>6 DEF ProvidersCrash, Calling
  <2>7. ASSUME NEW r \in EventRequests, r # q,
               TypedArrival(r) \/ RedisStep(r) \/ MatchProvider(r) \/ ProviderStep(r)
        PROVE  service'[q] \in matched'[e]
    BY <2>1, <2>4, <2>7, ProvidersAlone DEF Alone
  <2>8. CASE TypedArrival(q) \/ RedisStep(q)
    <3>1. service'[q] = service[q] /\ epc[q] \notin ProviderCalls
      BY <2>1, <2>3, <2>8, ArrivalsRead DEF TypedArrival, RedisStep, ProviderCalls
    <3> QED
      BY <2>3, <3>1 DEF MayCall, Calling
  <2>9. CASE MatchProvider(q)
    <3>1. /\ MatchType(ereq[q].event) # NoService /\ epc' = epc /\ ereq' = ereq
          /\ service'[q] = MatchType(ereq[q].event) /\ UNCHANGED types
      BY <2>1, <2>3, <2>9 DEF MatchProvider, eventLocals, typesVars, Calling
    <3>2. ereq[q].event = e
      BY <3>1 DEF Changing
    <3>3. MatchType(e)' = MatchType(e)
      BY <3>1, MatchTypeStays
    <3> QED
      BY <2>1, <3>1, <3>2, <3>3
  <2>10. CASE ProviderStep(q)
    BY <2>1, <2>3, <2>10 DEF ProviderStep, SubscribeAt, DescribeAt, UnsubscribeAt, Answered,
       Calling
  <2> QED
    BY <1>2, <2>5, <2>6, <2>7, <2>8, <2>9, <2>10 DEF ProvidersNext
<1> QED
  BY <1>1, <1>2 DEF ProviderHistoryNext

\* A step of r that leaves e alone: it changes nothing of e and its requests.
LEMMA CalmAtElsewhere ==
  ASSUME NEW r \in EventRequests, NEW e \in Events, NEW s, CalmAt(e, s), ~Overlap(e)', Alone(r),
         r \notin Changing(e), r \notin Changing(e)',
         events'[e] = events[e], secretAt'[s][e] = secretAt[s][e]
  PROVE  CalmAt(e, s)'
<1>1. \A q \in Changing(e)' : /\ q \in Changing(e) /\ q # r
                              /\ epc'[q] = epc[q] /\ ereq'[q] = ereq[q]
  BY DEF Changing, Alone
<1>2. \A q \in Changing(e)' : ereq'[q].op = "CreateEvent" => Changing(e)' = {q}
  BY DEF Overlap
<1> QED
  BY <1>1, <1>2 DEF CalmAt, EventExists

\* A step of r that changes e: what it leaves behind has to be calm, and so has
\* r where it goes.
LEMMA CalmAtHere ==
  ASSUME NEW r \in EventRequests, NEW e \in Events, NEW s, CalmAt(e, s), ~Overlap(e)', Alone(r),
         EventExists(e)' => secretAt'[s][e] = events'[e],
         (EventExists(e)' => EventExists(e)) \/ Changing(e) \subseteq {r},
         secretAt'[s][e] = secretAt[s][e] \/ Changing(e) \subseteq {r},
         r \in Changing(e)' =>
           /\ epc'[r] # "create info"
           /\ epc'[r] \in {"create subscribe", "create exec", "delete unsubscribe"} =>
                ~EventExists(e)'
           /\ epc'[r] = "create exec" => secretAt'[s][e] = ereq'[r].secret
  PROVE  CalmAt(e, s)'
<1>1. \A q \in Changing(e)' : q # r => /\ q \in Changing(e)
                                       /\ epc'[q] = epc[q] /\ ereq'[q] = ereq[q]
  BY DEF Changing, Alone
<1>2. \A q \in Changing(e)' : ereq'[q].op = "CreateEvent" => Changing(e)' = {q}
  BY DEF Overlap
<1> QED
  BY <1>1, <1>2 DEF CalmAt

\* Calls of Redis, and arrivals.
LEMMA CalmAtRedis ==
  ASSUME ProvidersInv, AllPlaced, "provider" \in EventFaults, NEW r \in EventRequests,
         TypedArrival(r) \/ RedisStep(r), NEW e \in Events, NEW s \in Implementing,
         CalmAt(e, s), ~Overlap(e)', r \in Changing(e) => ~Misread(r)
  PROVE  CalmAt(e, s)'
<1>1. Alone(r) /\ EventsTypeOK /\ secretAt' = secretAt
  BY ProvidersAlone DEF ProvidersInv, ProvidersTypeOK, TypedArrival, RedisStep
<1>2. CASE TypedArrival(r)
  <2>1. epc[r] = "idle" /\ events'[e] = events[e]
        /\ epc'[r] \in {"idle", "create exists", "delete exists", "keys", "get exists"}
    BY <1>1, <1>2, ArrivalsRead DEF TypedArrival, EventsTypeOK, redis
  <2>2. EventExists(e) => secretAt[s][e] = events[e]
    BY DEF CalmAt
  <2> QED
    BY <1>1, <2>1, <2>2, CalmAtHere DEF EventExists
<1>3. CASE RedisStep(r) /\ r \notin Changing(e)
  <2>1. EventStep(r)
    BY <1>3 DEF RedisStep
  <2> QED
    BY <1>1, <1>3, <2>1, StepsElsewhere, CalmAtElsewhere
<1>4. CASE RedisStep(r) /\ r \in Changing(e)
  <2>1. /\ epc[r] # "idle" /\ ereq[r].event = e /\ ereq[r] \in EventRequestRecord
        /\ epc \in [EventRequests -> EventPC] /\ DOMAIN ereq = EventRequests
        /\ events \in [Events -> Secrets \cup {NoEvent}]
        /\ Placed(r)
    BY <1>1, <1>4 DEF EventsTypeOK, EventLocalsTypeOK, RedisTypeOK, AllPlaced, Changing
  <2>2. ASSUME NEW next, EventGoto(r, next) PROVE epc'[r] = next /\ ereq'[r] = ereq[r]
    BY <2>1, <2>2 DEF EventGoto
  <2>3. ASSUME NEW result, EventReturn(r, result) PROVE r \notin Changing(e)'
    BY <2>1, <2>3 DEF EventReturn, Changing
  <2>4. /\ epc[r] \in CreateEventPC => Changing(e) = {r}
        /\ epc[r] \notin {"keys", "public keys", "next", "get exists", "get fields"}
        /\ epc[r] \notin ProviderCalls /\ EventStep(r)
    BY <1>4, <2>1 DEF Placed, Changing, CalmAt, CreateEventPC, DeleteEventPC,
       EventRequestRecord, RedisStep
  <2>5. /\ EventExists(e) => secretAt[s][e] = events[e]
        /\ epc[r] \in {"create subscribe", "create exec", "delete unsubscribe"} => ~EventExists(e)
        /\ epc[r] = "create exec" => secretAt[s][e] = ereq[r].secret
    BY <1>4 DEF CalmAt
  <2>6. CASE CreateEventExists(r)
    <3>1. events'[e] = events[e] /\ epc'[r] \in {"create get", "create subscribe"}
      BY <2>2, <2>6 DEF CreateEventExists, redis
    <3>2. epc'[r] = "create subscribe" => ~EventExists(e)
      BY <1>4, <2>1, <2>6 DEF CreateEventExists, Misread
    <3> QED
      BY <1>1, <2>5, <3>1, <3>2, CalmAtHere DEF EventExists
  <2>7. CASE CreateEventGet(r)
    <3>1. events'[e] = events[e]
          /\ (r \in Changing(e)' => epc'[r] = "create subscribe" /\ ~EventExists(e))
      BY <1>4, <2>1, <2>2, <2>3, <2>7 DEF CreateEventGet, Misread, redis
    <3> QED
      BY <1>1, <2>5, <3>1, CalmAtHere DEF EventExists
  <2>8. CASE CreateEventExec(r)
    <3>1. /\ events'[e] = ereq[r].secret /\ secretAt'[s][e] = ereq[r].secret
          /\ Changing(e) = {r} /\ r \notin Changing(e)'
      BY <1>1, <2>1, <2>3, <2>4, <2>5, <2>8 DEF CreateEventExec, StoreEvent, EventExists,
         CreateEventPC
    <3> QED
      BY <1>1, <3>1, CalmAtHere DEF EventExists
  <2>9. CASE DeleteEventExists(r) \/ DeleteEventAccount(r) \/ DeleteEventRange(r)
    <3>1. events'[e] = events[e]
          /\ (r \in Changing(e)' =>
                epc'[r] \in {"delete account", "delete range", "delete exec"})
      BY <2>2, <2>3, <2>9 DEF DeleteEventExists, DeleteEventAccount, DeleteEventRange, redis
    <3> QED
      BY <1>1, <2>5, <3>1, CalmAtHere DEF EventExists
  <2>10. CASE DeleteEventExec(r)
    <3>1. events'[e] = NoEvent /\ (r \in Changing(e)' => epc'[r] = "delete unsubscribe")
      BY <2>1, <2>2, <2>3, <2>10 DEF DeleteEventExec, RemoveEvent
    <3> QED
      BY <1>1, <3>1, CalmAtHere DEF EventExists
  <2>11. CASE EventRedisError(r)
    <3>1. events'[e] = events[e] /\ r \notin Changing(e)'
      BY <2>3, <2>11 DEF EventRedisError, redis
    <3> QED
      BY <1>1, <2>5, <3>1, CalmAtHere DEF EventExists
  <2> QED
    BY <2>4, <2>6, <2>7, <2>8, <2>9, <2>10, <2>11 DEF EventStep, ProviderCalls,
       SubscribeToEvent, GetEventInfo, UnsubscribeFromEvent, GetEventsKeys,
       GetEventsPublicKeys, GetEventsNext, GetEventsDone, GetEventExists, GetEventFields
<1> QED
  BY <1>2, <1>3, <1>4

\* Calls of providers.
LEMMA CalmAtProvider ==
  ASSUME ProvidersInv, AllPlaced, CallsMatched, "provider" \in EventFaults,
         NEW r \in EventRequests, MatchProvider(r) \/ ProviderStep(r),
         NEW e \in Events, NEW s \in Implementing, CalmAt(e, s), ~Overlap(e)',
         matched[e] \subseteq {s}
  PROVE  CalmAt(e, s)'
<1>1. /\ Alone(r) /\ EventsTypeOK /\ Placed(r) /\ UNCHANGED redis
      /\ epc \in [EventRequests -> EventPC] /\ DOMAIN ereq = EventRequests
      /\ secretAt \in [Services -> [Events -> Secrets \cup {NoEvent}]]
      /\ Implementing \subseteq Services /\ epc[r] # "idle"
      /\ ereq[r] \in EventRequestRecord
  BY ProvidersAlone, ServicesAssumption DEF ProvidersInv, ProvidersTypeOK, EventsTypeOK,
     EventLocalsTypeOK, AllPlaced, MatchProvider, ProviderCalls, ProviderStep, SubscribeAt,
     DescribeAt, UnsubscribeAt, Answered
<1>2. events'[e] = events[e]
  BY <1>1 DEF redis
<1>3. ASSUME NEW result, EventReturn(r, result) PROVE r \notin Changing(e)'
  BY <1>1, <1>3 DEF EventReturn, Changing
<1>4. ASSUME NEW next, EventGoto(r, next) PROVE epc'[r] = next /\ ereq'[r] = ereq[r]
  BY <1>1, <1>4 DEF EventGoto
<1>5. /\ EventExists(e) => secretAt[s][e] = events[e]
      /\ r \in Changing(e) =>
           /\ epc[r] # "create info"
           /\ epc[r] \in {"create subscribe", "create exec", "delete unsubscribe"} =>
                ~EventExists(e)
           /\ epc[r] = "create exec" => secretAt[s][e] = ereq[r].secret
  BY DEF CalmAt
<1>6. CASE MatchProvider(r)
  <2>1. secretAt' = secretAt
    BY <1>6 DEF MatchProvider
  <2>2. CASE EventReturn(r, "error")
    BY <1>1, <1>2, <1>3, <1>5, <2>1, <2>2, CalmAtHere DEF EventExists
  <2>3. CASE UNCHANGED eventLocals
    <3>1. epc' = epc /\ ereq' = ereq /\ (r \in Changing(e)' => r \in Changing(e))
      BY <2>3 DEF eventLocals, Changing
    <3> QED
      BY <1>1, <1>2, <1>5, <2>1, <3>1, CalmAtHere DEF EventExists
  <2> QED
    BY <1>6, <2>2, <2>3 DEF MatchProvider
<1>7. CASE ProviderStep(r) /\ r \notin Changing(e)
  <2>1. EventStep(r) /\ ereq[r].event # e
    BY <1>1, <1>7, ProviderStepSimulates DEF Changing, Placed, ProviderStep, SubscribeAt,
       DescribeAt, UnsubscribeAt, CreateEventPC, DeleteEventPC, EventRequestRecord
  <2>2. secretAt'[s][e] = secretAt[s][e]
    <3>1. ASSUME NEW t, NEW other, other # e, NEW secret,
                 secretAt' = [secretAt EXCEPT ![t][other] = secret]
          PROVE  secretAt'[s][e] = secretAt[s][e]
      BY <1>1, <3>1
    <3>2. ASSUME NEW t, Unsubscribe(t, ereq[r].event)
          PROVE  secretAt'[s][e] = secretAt[s][e]
      BY <2>1, <3>1, <3>2 DEF Unsubscribe
    <3>3. ASSUME NEW t, NEW secret, Subscribe(t, ereq[r].event, secret)
          PROVE  secretAt'[s][e] = secretAt[s][e]
      BY <2>1, <3>1, <3>3 DEF Subscribe
    <3> QED
      BY <1>7, <3>2, <3>3 DEF ProviderStep, SubscribeAt, DescribeAt, UnsubscribeAt,
         NoSubscription
  <2> QED
    BY <1>1, <1>7, <2>1, <2>2, StepsElsewhere, CalmAtElsewhere
<1>8. CASE ProviderStep(r) /\ r \in Changing(e)
  <2>1. ereq[r].event = e /\ service[r] = s
    BY <1>8 DEF Changing, CallsMatched, ProviderStep, SubscribeAt, DescribeAt, UnsubscribeAt
  <2>2. CASE SubscribeAt(r)
    <3>1. ~EventExists(e) /\ Changing(e) = {r}
      BY <1>1, <1>5, <1>8, <2>2 DEF SubscribeAt, CalmAt, Placed, Changing, CreateEventPC,
         DeleteEventPC
    <3>2. r \in Changing(e)' => epc'[r] = "create exec" /\ secretAt'[s][e] = ereq'[r].secret
      <4>1. CASE EventGoto(r, "create exec") /\ Subscribe(s, e, ereq[r].secret)
        <5>1. secretAt'[s][e] = ereq[r].secret
          BY <1>1, <4>1 DEF Subscribe
        <5> QED
          BY <1>4, <4>1, <5>1
      <4>2. CASE EventReturn(r, "error")
        BY <1>3, <4>2
      <4>3. s \in Implementing
        OBVIOUS
      <4>4. ~EventGoto(r, "create info") \/ service[r] \in Implementing
        BY <2>1, <4>3
      <4> QED
        BY <2>1, <2>2, <4>1, <4>2, <4>3, <4>4 DEF SubscribeAt
    <3> QED
      BY <1>1, <1>2, <3>1, <3>2, CalmAtHere DEF EventExists
  <2>3. CASE DescribeAt(r)
    BY <1>5, <1>8, <2>3 DEF DescribeAt
  <2>4. CASE UnsubscribeAt(r)
    <3>1. epc[r] = "delete unsubscribe" /\ ~EventExists(e) /\ r \notin Changing(e)'
      BY <1>3, <1>5, <1>8, <2>4 DEF UnsubscribeAt
    <3>2. \A q \in Changing(e) : ereq[q].op # "CreateEvent"
      BY <1>1, <1>8, <3>1 DEF CalmAt, Placed, CreateEventPC
    <3>3. \A q \in Changing(e) : epc[q] # "create exec"
      BY <1>1, <3>2 DEF EventsTypeOK, EventLocalsTypeOK, Changing, CreateEventPC
    <3>4. \A q \in Changing(e)' : q # r => q \in Changing(e) /\ epc'[q] = epc[q]
      BY <1>1 DEF Alone, Changing
    <3>5. \A q \in Changing(e)' : ereq'[q].op = "CreateEvent" => Changing(e)' = {q}
      BY DEF Overlap
    <3> QED
      BY <1>2, <3>1, <3>3, <3>4, <3>5 DEF CalmAt, EventExists
  <2> QED
    BY <1>8, <2>2, <2>3, <2>4 DEF ProviderStep
<1> QED
  BY <1>6, <1>7, <1>8

LEMMA CalmAtInvNext ==
  ASSUME PlacesInv, "provider" \in EventFaults, [ProviderHistoryNext]_providerHistoryVars
  PROVE  CalmAtInv'
<1>1. CASE UNCHANGED providerHistoryVars
  <2> SUFFICES ASSUME NEW e \in Events, NEW s \in Implementing, ~disturbed'[e],
                      matched'[e] \subseteq {s}
               PROVE  CalmAt(e, s)'
    BY DEF CalmAtInv
  <2>1. /\ UNCHANGED <<events, epc, ereq, secretAt, matched, disturbed>>
        /\ Changing(e)' = Changing(e)
    BY <1>1 DEF providerHistoryVars, providerVars, eventVars, eventLocals, redis, Changing
  <2>2. CalmAt(e, s)
    BY <2>1 DEF PlacesInv, CalmAtInv
  <2> QED
    BY <2>1, <2>2 DEF CalmAt, EventExists
<1>2. CASE ProvidersNext /\ RecordProviders
  <2> SUFFICES ASSUME NEW e \in Events, NEW s \in Implementing, ~disturbed'[e],
                      matched'[e] \subseteq {s}
               PROVE  CalmAt(e, s)'
    BY DEF CalmAtInv
  <2>1. CASE Absent(e)'
    BY <2>1 DEF Absent, CalmAt
  <2>2. CASE ~Absent(e)'
    <3>1. /\ ~Overlap(e)' /\ \A r \in Changing(e) : ~Misread(r)
          /\ ~disturbed[e] /\ matched[e] \subseteq {s}
      BY <1>2, <2>2 DEF RecordProviders
    <3>2. CalmAt(e, s)
      BY <3>1 DEF PlacesInv, CalmAtInv
    <3>3. CASE Reloads
      BY <3>2, <3>3 DEF Reloads, eventVars, eventLocals, redis, CalmAt, Changing, EventExists
    <3>4. CASE ProvidersCrash
      BY <3>2, <3>4 DEF ProvidersCrash, EventsCrash, EventsReset, redis, CalmAt, Changing,
         EventExists
    <3>5. ASSUME NEW r \in EventRequests, TypedArrival(r) \/ RedisStep(r)
          PROVE  CalmAt(e, s)'
      BY <3>1, <3>2, <3>5, CalmAtRedis DEF PlacesInv
    <3>6. ASSUME NEW r \in EventRequests, MatchProvider(r) \/ ProviderStep(r)
          PROVE  CalmAt(e, s)'
      BY <3>1, <3>2, <3>6, CalmAtProvider DEF PlacesInv
    <3> QED
      BY <1>2, <3>3, <3>4, <3>5, <3>6 DEF ProvidersNext
  <2> QED
    BY <2>1, <2>2
<1> QED
  BY <1>1, <1>2 DEF ProviderHistoryNext

LEMMA PlacesInvNext ==
  ASSUME PlacesInv, "provider" \in EventFaults, [ProviderHistoryNext]_providerHistoryVars
  PROVE  PlacesInv'
<1>1. [ProvidersNext]_providerVars
  BY DEF ProviderHistoryNext, providerHistoryVars
<1>2. ProvidersInv'
  BY <1>1, ProvidersInvNext DEF PlacesInv
<1>3. AllPlaced'
  BY <1>1, ProvidersSimulate, AllPlacedNext DEF PlacesInv, ProvidersInv, ProvidersTypeOK,
     EventsTypeOK
<1>4. CallsMatched'
  BY CallsMatchedNext DEF PlacesInv
<1> QED
  BY <1>2, <1>3, <1>4, CalmAtInvNext DEF PlacesInv

LEMMA PlacesStart ==
  ASSUME ProviderHistoryInit
  PROVE  PlacesInv
<1>1. ProvidersInv /\ \A r \in EventRequests : epc[r] = "idle"
  BY ProvidersStart DEF ProviderHistoryInit, ProvidersInit, EventLocalsInit
<1>2. \A e \in Events : Changing(e) = {} /\ ~EventExists(e)
  BY <1>1 DEF ProviderHistoryInit, ProvidersInit, RedisEmpty, Changing, EventExists
<1> QED
  BY <1>1, <1>2 DEF PlacesInv, AllPlaced, Placed, CallsMatched, CalmAtInv, CalmAt

\* For any configurations, reloads and requests: a stored event is subscribed
\* with its secret at the only provider the types ever matched it with, unless
\* a creation of it overlapped another change of it or misread it.
THEOREM StoredAtItsProviderAlways ==
  ASSUME "provider" \in EventFaults
  PROVE  ProviderHistorySpec => []StoredAtItsProvider
<1>1. ProviderHistoryInit => PlacesInv
  BY PlacesStart
<1>2. PlacesInv /\ [ProviderHistoryNext]_providerHistoryVars => PlacesInv'
  BY PlacesInvNext
<1>3. PlacesInv => StoredAtItsProvider
  BY DEF PlacesInv, CalmAtInv, CalmAt, StoredAtItsProvider
<1> QED
  BY <1>1, <1>2, <1>3, PTL DEF ProviderHistorySpec
=============================================================================
