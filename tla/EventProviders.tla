--------------------------- MODULE EventProviders ---------------------------
(***************************************************************************)
(* The handlers of Events over the event types of EventTypes: which        *)
(* provider is called is looked up in the types of the moment, under their *)
(* lock, each time a provider is called (MatchType in                      *)
(* pkg/provider/discovery.go), and the call itself is made without it.     *)
(*                                                                         *)
(* A configuration is the sequence of its types.  Of a type it keeps the   *)
(* service behind it and the events that its template can construct and    *)
(* that its pattern matches; a pattern that is not a regular expression    *)
(* matches none.                                                           *)
(***************************************************************************)
EXTENDS Events, EventTypes, Sequences, SequencesExt

CONSTANTS
  Services,      \* the URLs of event providers
  Implementing,  \* those that take subscriptions; the others answer 501
  Kinds,         \* pairs of a type and a kind, the key of GetType
  NoService      \* no type matches

TypeRecord == [kind: Kinds, service: Services, constructs: SUBSET Events, matches: SUBSET Events]

ASSUME ServicesAssumption == Implementing \subseteq Services /\ NoService \notin Services
ASSUME TypesAssumption == Configs \subseteq Seq(TypeRecord) /\ NoTypes = << >>
ASSUME SubscriptionsAssumption ==
  \A config \in Configs : \A type \in ToSet(config) : \A e \in type.matches :
    IF type.service \in Implementing THEN e \in Subscribable ELSE e \in Describable

VARIABLES
  service,   \* service[r]: the provider that request r is calling
  secretAt   \* secretAt[s][e]: the secret provider s has e subscribed with (external)

providerVars == <<eventVars, typesVars, service, secretAt>>

ProvidersTypeOK ==
  /\ EventsTypeOK
  /\ EventTypesTypeOK
  /\ service \in [EventRequests -> Services \cup {NoService}]
  /\ secretAt \in [Services -> [Events -> Secrets \cup {NoEvent}]]

\* Redis is empty, the process has just been started.
ProvidersInit ==
  /\ RedisEmpty
  /\ subscribed = [e \in Events |-> NoEvent]
  /\ EventLocalsInit
  /\ EventTypesInit
  /\ service = [r \in EventRequests |-> NoService]
  /\ secretAt = [s \in Services |-> [e \in Events |-> NoEvent]]

-----------------------------------------------------------------------------
(* The types *)

\* MatchType: the service of the first type whose pattern matches.
MatchType(e) ==
  LET first == SelectInSeq(types, LAMBDA type : e \in type.matches)
  IN IF first = 0 THEN NoService ELSE types[first].service

\* GetType finds the first type of a kind; ConstructEventURI fills in its
\* template and checks the result against the pattern of that very type.
Constructible(e) ==
  \E kind \in Kinds :
    LET first == SelectInSeq(types, LAMBDA type : type.kind = kind)
    IN first # 0 /\ e \in types[first].constructs \cap types[first].matches

-----------------------------------------------------------------------------
(* Calls of a provider *)

ProviderCalls == {"create subscribe", "create info", "delete unsubscribe"}

\* r is waiting for the answer of a provider.
Calling(r) == service[r] # NoService

\* As MatchProvider, with the lock kept for the time of the call.
MatchProviderLocked(r) ==
  /\ epc[r] \in ProviderCalls
  /\ lock = "free" /\ \A q \in EventRequests : ~Calling(q)
  /\ LET s == MatchType(ereq[r].event)
     IN IF s = NoService THEN EventReturn(r, "error") /\ UNCHANGED service
        ELSE service' = [service EXCEPT ![r] = s] /\ UNCHANGED eventLocals
  /\ UNCHANGED <<redis, subscribed, typesVars, secretAt>>

\* As MatchProvider, with a creation that goes on when no type matches.
MatchProviderOrStore(r) ==
  /\ epc[r] \in ProviderCalls /\ ~Calling(r)
  /\ lock = "free"
  /\ LET s == MatchType(ereq[r].event)
     IN IF s = NoService THEN EventGoto(r, "create exec") /\ UNCHANGED service
        ELSE service' = [service EXCEPT ![r] = s] /\ UNCHANGED eventLocals
  /\ UNCHANGED <<redis, subscribed, typesVars, secretAt>>

\* MatchType, under the lock.  No match is an error, for DeleteEvent too.
MatchProvider(r) ==
  /\ epc[r] \in ProviderCalls /\ ~Calling(r)
  /\ lock = "free"
  /\ LET s == MatchType(ereq[r].event)
     IN IF s = NoService THEN EventReturn(r, "error") /\ UNCHANGED service
        ELSE service' = [service EXCEPT ![r] = s] /\ UNCHANGED eventLocals
  /\ UNCHANGED <<redis, subscribed, typesVars, secretAt>>

\* The call of r returns.
Answered(r) ==
  /\ service' = [service EXCEPT ![r] = NoService]
  /\ UNCHANGED <<redis, typesVars>>

\* As Subscribe, with the event URI sent in the place of the secret.
SubscribeSwapped(s, e, secret) ==
  /\ secretAt' = [secretAt EXCEPT ![s][e] = e]
  /\ subscribed' = [subscribed EXCEPT ![e] = e]

Subscribe(s, e, secret) ==
  /\ secretAt' = [secretAt EXCEPT ![s][e] = secret]
  /\ subscribed' = [subscribed EXCEPT ![e] = secret]

\* subscribed tells of the last subscription, as long as there is one anywhere.
Unsubscribe(s, e) ==
  /\ secretAt' = [secretAt EXCEPT ![s][e] = NoEvent]
  /\ subscribed' = [subscribed EXCEPT ![e] =
                      IF \A t \in Services : secretAt'[t][e] = NoEvent THEN NoEvent ELSE @]

NoSubscription == UNCHANGED <<secretAt, subscribed>>

\* As SubscribeAt, with the event stored whatever the provider answers.
SubscribeAtIgnoreErrors(r) ==
  /\ epc[r] = "create subscribe" /\ Calling(r)
  /\ \/ service[r] \in Implementing /\ Subscribe(service[r], ereq[r].event, ereq[r].secret)
     \/ "provider" \in EventFaults /\ NoSubscription
  /\ EventGoto(r, "create exec")
  /\ Answered(r)

SubscribeAt(r) ==
  /\ epc[r] = "create subscribe" /\ Calling(r)
  /\ \/ /\ service[r] \in Implementing
        /\ Subscribe(service[r], ereq[r].event, ereq[r].secret)
        /\ \/ EventGoto(r, "create exec")
           \/ "provider" \in EventFaults /\ EventReturn(r, "error")
     \/ service[r] \notin Implementing /\ EventGoto(r, "create info") /\ NoSubscription
     \/ "provider" \in EventFaults /\ EventReturn(r, "error") /\ NoSubscription
  /\ Answered(r)

DescribeAt(r) ==
  /\ epc[r] = "create info" /\ Calling(r)
  /\ \/ EventGoto(r, "create exec")
     \/ "provider" \in EventFaults /\ EventReturn(r, "error")
  /\ NoSubscription
  /\ Answered(r)

\* Errors of the provider, 501 among them, are logged and dropped.
UnsubscribeAt(r) ==
  /\ epc[r] = "delete unsubscribe" /\ Calling(r)
  /\ \/ service[r] \in Implementing /\ Unsubscribe(service[r], ereq[r].event)
     \/ service[r] \notin Implementing /\ NoSubscription
     \/ "provider" \in EventFaults /\ NoSubscription
  /\ EventReturn(r, "ok")
  /\ Answered(r)

ProviderStep(r) == SubscribeAt(r) \/ DescribeAt(r) \/ UnsubscribeAt(r)

-----------------------------------------------------------------------------
(* The rest of the handlers *)

\* Requests are served once the manager is made.  An event that is to be
\* created has a URI that the types of the moment construct.
TypedArrival(r) ==
  /\ lock # "new"
  /\ EventArrives(r)
  /\ epc'[r] \in CreateEventPC => lock = "free" /\ Constructible(ereq'[r].event)
  /\ UNCHANGED <<typesVars, service, secretAt>>

\* Calls of Redis and the control around them.
RedisStep(r) ==
  /\ epc[r] \notin ProviderCalls
  /\ EventStep(r)
  /\ UNCHANGED <<typesVars, service, secretAt>>

Reloads == TypesStep /\ UNCHANGED <<eventVars, service, secretAt>>

\* The process is restarted and makes its manager anew.
ProvidersCrash ==
  /\ EventsCrash
  /\ types' = NoTypes /\ lock' = "new"
  /\ service' = [r \in EventRequests |-> NoService]
  /\ UNCHANGED secretAt

ProvidersNext ==
  \/ \E r \in EventRequests :
       TypedArrival(r) \/ RedisStep(r) \/ MatchProvider(r) \/ ProviderStep(r)
  \/ Reloads
  \/ ProvidersCrash

ProvidersSpec == ProvidersInit /\ [][ProvidersNext]_providerVars

\* Goroutines are scheduled fairly, Redis answers, files are read in the end,
\* and a sync.RWMutex is handed over to who waits for long.  A provider may
\* never answer: the client of pkg/provider/api.go has no timeout.
ProvidersFairSpec ==
  /\ ProvidersSpec
  /\ \A r \in EventRequests : WF_providerVars(RedisStep(r)) /\ SF_providerVars(MatchProvider(r))
  /\ WF_providerVars(Reloads /\ FirstLoad) /\ WF_providerVars(Reloads /\ EndReload)

-----------------------------------------------------------------------------
(* Properties *)

\* Wherever the types send the calls, and whenever they are reloaded, the
\* handlers behave as those of Events.
ImplementsEvents == EventsSpec

\* A request is answered unless its own provider never answers: a provider that
\* hangs holds up no other request and no reload of the types.
AnsweredUnlessHung ==
  \A r \in EventRequests : []<>(epc[r] = "idle") \/ <>[]Calling(r)
=============================================================================
