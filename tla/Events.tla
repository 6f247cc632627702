------------------------------- MODULE Events -------------------------------
(***************************************************************************)
(* The handlers of trigger events (CreateEvent, GetEvent, GetEvents and    *)
(* DeleteEvent of pkg/backend/redis.go, behind pkg/controller/event.go)    *)
(* and the subscriptions they make at the event providers through          *)
(* pkg/provider/discovery.go and pkg/provider/api.go.                      *)
(*                                                                         *)
(* As in Triggers, a request goes through its handler one remote call at   *)
(* a time.  ConstructEventURI ends a URI with the hash of the account (the *)
(* public one for a public event), so a request names the URI itself.      *)
(* A provider that does not implement subscriptions answers 501.  Which    *)
(* provider an event has is up to the types (see EventProviders): it may   *)
(* have one of either kind at different calls.                             *)
(***************************************************************************)
EXTENDS RedisStore

CONSTANTS
  EventRequests,     \* goroutines serving requests about events
  EventFaults,       \* the services that may fail: "redis", "provider", "crash"
  Subscribable,      \* events that some provider takes subscriptions of
  Describable        \* events that some provider can only describe

ASSUME EventFaultsAssumption == EventFaults \subseteq {"redis", "provider", "crash"}
ASSUME SubscribableAssumption ==
  Subscribable \subseteq Events /\ Describable \subseteq Events

\* Events that are stored with a subscription only.
AlwaysSubscribed == Subscribable \ Describable

VARIABLES
  subscribed,  \* the secret an event is subscribed with at its provider (external)
  epc,         \* the next call of the request's handler
  ereq,        \* the arguments of the request
  etodo,       \* events the loop of GetEvents has still to get
  elisting,    \* events it has got
  ereply       \* how the last handler of the goroutine ended

eventLocals == <<epc, ereq, etodo, elisting, ereply>>
eventVars == <<redis, subscribed, eventLocals>>

NoEventRequest == [op |-> "none"]

EventRequestRecord ==
  [op: {"CreateEvent"}, account: Accounts, event: Events, secret: Secrets]
  \cup [op: {"GetEvent", "DeleteEvent"}, account: Accounts, event: Events]
  \cup [op: {"GetEvents"}, account: Accounts, event: Events, public: BOOLEAN]

EventReply == {"none", "ok", "not found", "linked", "error", "reset"}

EventPC ==
  {"idle", "create exists", "create get", "create subscribe", "create info", "create exec",
   "delete exists", "delete account", "delete range", "delete exec", "delete unsubscribe",
   "keys", "public keys", "next", "get exists", "get fields"}

CreateEventPC ==
  {"create exists", "create get", "create subscribe", "create info", "create exec"}

EventLocalsTypeOK ==
  /\ epc \in [EventRequests -> EventPC]
  /\ ereq \in [EventRequests -> EventRequestRecord \cup {NoEventRequest}]
  /\ \A r \in EventRequests : epc[r] # "idle" => ereq[r] \in EventRequestRecord
  /\ \A r \in EventRequests : epc[r] \in CreateEventPC => ereq[r].op = "CreateEvent"
  /\ etodo \in [EventRequests -> SUBSET Events]
  /\ elisting \in [EventRequests -> SUBSET Events]
  /\ ereply \in [EventRequests -> EventReply]

EventsTypeOK ==
  /\ RedisTypeOK
  /\ subscribed \in [Events -> Secrets \cup {NoEvent}]
  /\ EventLocalsTypeOK

EventLocalsInit ==
  /\ epc = [r \in EventRequests |-> "idle"]
  /\ ereq = [r \in EventRequests |-> NoEventRequest]
  /\ etodo = [r \in EventRequests |-> {}]
  /\ elisting = [r \in EventRequests |-> {}]
  /\ ereply = [r \in EventRequests |-> "none"]

\* Redis may hold any events, subscribed as they are stored, and triggers.
EventsInit ==
  /\ RedisFilled
  /\ subscribed = [e \in Events |-> IF e \in AlwaysSubscribed THEN events[e] ELSE NoEvent]
  /\ EventLocalsInit

-----------------------------------------------------------------------------
(* Control of one request *)

\* As EventBegin, with the arguments not taken over.
EventBeginStale(r, q, next) ==
  /\ epc[r] = "idle"
  /\ epc' = [epc EXCEPT ![r] = next]
  /\ ereply' = [ereply EXCEPT ![r] = "none"]
  /\ UNCHANGED <<ereq, etodo, elisting>>

EventBegin(r, q, next) ==
  /\ epc[r] = "idle"
  /\ epc' = [epc EXCEPT ![r] = next]
  /\ ereq' = [ereq EXCEPT ![r] = q]
  /\ ereply' = [ereply EXCEPT ![r] = "none"]
  /\ UNCHANGED <<etodo, elisting>>

EventGoto(r, next) ==
  /\ epc' = [epc EXCEPT ![r] = next]
  /\ UNCHANGED <<ereq, etodo, elisting, ereply>>

EventReturn(r, result) ==
  /\ epc' = [epc EXCEPT ![r] = "idle"]
  /\ ereq' = [ereq EXCEPT ![r] = NoEventRequest]
  /\ etodo' = [etodo EXCEPT ![r] = {}]
  /\ elisting' = [elisting EXCEPT ![r] = {}]
  /\ ereply' = [ereply EXCEPT ![r] = result]

\* getEventKey: for an event of another account the key gets a second hash,
\* and there is nothing under it.
EventKeyExists(account, e) == MatchesAccount(account, e) /\ EventExists(e)

EventExecResults ==
  {"ok"} \cup (IF "redis" \in EventFaults THEN {"error"} ELSE {})

-----------------------------------------------------------------------------
(* CreateEvent *)

\* The event is the account's own or, with the public flag, a public one.
\* ConstructEventURI may refuse the values before anything is read.
CreateEvent(r) ==
  /\ \/ \E account \in Accounts, e \in Events, secret \in Secrets :
          /\ MatchesAccount(account, e)
          /\ EventBegin(r, [op |-> "CreateEvent", account |-> account, event |-> e,
                            secret |-> secret], "create exists")
     \/ epc[r] = "idle" /\ EventReturn(r, "error")
  /\ UNCHANGED <<redis, subscribed>>

\* GetEvent: an event that exists is returned as it is; on a missing event,
\* and on an error, the creation goes on.
CreateEventExists(r) ==
  /\ epc[r] = "create exists"
  /\ \/ EventExists(ereq[r].event) /\ EventGoto(r, "create get")
     \/ ~EventExists(ereq[r].event) /\ EventGoto(r, "create subscribe")
     \/ "redis" \in EventFaults /\ EventGoto(r, "create subscribe")
  /\ UNCHANGED <<redis, subscribed>>

\* As CreateEventGet, with the creation going on for an event that exists.
CreateEventGetAgain(r) ==
  /\ epc[r] = "create get"
  /\ EventGoto(r, "create subscribe")
  /\ UNCHANGED <<redis, subscribed>>

CreateEventGet(r) ==
  /\ epc[r] = "create get"
  /\ \/ EventExists(ereq[r].event) /\ EventReturn(r, "ok")
     \/ ~EventExists(ereq[r].event) /\ EventGoto(r, "create subscribe")
     \/ "redis" \in EventFaults /\ EventGoto(r, "create subscribe")
  /\ UNCHANGED <<redis, subscribed>>

\* As SubscribeToEvent, with errors other than "not implemented" ignored.
SubscribeToEventIgnoreErrors(r) ==
  /\ epc[r] = "create subscribe"
  /\ \/ /\ ereq[r].event \in Subscribable
        /\ subscribed' = [subscribed EXCEPT ![ereq[r].event] = ereq[r].secret]
        /\ EventGoto(r, "create exec")
     \/ /\ "provider" \in EventFaults \/ ereq[r].event \in Describable
        /\ EventGoto(r, "create exec")
        /\ UNCHANGED subscribed
  /\ UNCHANGED redis

\* SubscribeToEvent: the provider takes the secret events will be signed with.
\* An error may be reported of a subscription that was made, by a provider
\* that answers 200 with an empty body for instance.
SubscribeToEvent(r) ==
  /\ epc[r] = "create subscribe"
  /\ \/ /\ ereq[r].event \in Subscribable
        /\ subscribed' = [subscribed EXCEPT ![ereq[r].event] = ereq[r].secret]
        /\ \/ EventGoto(r, "create exec")
           \/ "provider" \in EventFaults /\ EventReturn(r, "error")
     \/ /\ ereq[r].event \in Describable
        /\ EventGoto(r, "create info")
        /\ UNCHANGED subscribed
     \/ /\ "provider" \in EventFaults
        /\ EventReturn(r, "error")
        /\ UNCHANGED subscribed
  /\ UNCHANGED redis

\* The fallback when the provider does not implement subscriptions.
GetEventInfo(r) ==
  /\ epc[r] = "create info"
  /\ \/ EventGoto(r, "create exec")
     \/ "provider" \in EventFaults /\ EventReturn(r, "error")
  /\ UNCHANGED <<redis, subscribed>>

CreateEventExec(r) ==
  /\ epc[r] = "create exec"
  /\ StoreEvent(ereq[r].event, ereq[r].secret)
  /\ \E result \in EventExecResults : EventReturn(r, result)
  /\ UNCHANGED subscribed

-----------------------------------------------------------------------------
(* DeleteEvent *)

DeleteEvent(r) ==
  /\ \E account \in Accounts, e \in Events :
       EventBegin(r, [op |-> "DeleteEvent", account |-> account, event |-> e],
                  "delete exists")
  /\ UNCHANGED <<redis, subscribed>>

DeleteEventExists(r) ==
  /\ epc[r] = "delete exists"
  /\ IF EventKeyExists(ereq[r].account, ereq[r].event)
       THEN EventGoto(r, "delete account")
       ELSE EventReturn(r, "not found")
  /\ UNCHANGED <<redis, subscribed>>

\* HGET of the account: it is the one the URI ends with, or nothing when the
\* event was deleted since.
DeleteEventAccount(r) ==
  /\ epc[r] = "delete account"
  /\ IF EventExists(ereq[r].event) THEN EventGoto(r, "delete range")
                                   ELSE EventReturn(r, "not found")
  /\ UNCHANGED <<redis, subscribed>>

\* As DeleteEventRange, with the linked pipelines not looked at.
DeleteEventRangeUnchecked(r) ==
  /\ epc[r] = "delete range"
  /\ EventGoto(r, "delete exec")
  /\ UNCHANGED <<redis, subscribed>>

\* An event with linked pipelines is not deleted.
DeleteEventRange(r) ==
  /\ epc[r] = "delete range"
  /\ IF triggers[ereq[r].event] = {} THEN EventGoto(r, "delete exec")
                                     ELSE EventReturn(r, "linked")
  /\ UNCHANGED <<redis, subscribed>>

DeleteEventExec(r) ==
  /\ epc[r] = "delete exec"
  /\ RemoveEvent(ereq[r].event)
  /\ \/ EventGoto(r, "delete unsubscribe")
     \/ "redis" \in EventFaults /\ EventReturn(r, "error")
  /\ UNCHANGED subscribed

\* UnsubscribeFromEvent: errors of the provider are logged and dropped; only a
\* URI that matches no event type (any more) is an error.
UnsubscribeFromEvent(r) ==
  /\ epc[r] = "delete unsubscribe"
  /\ \/ /\ subscribed' = [subscribed EXCEPT ![ereq[r].event] = NoEvent]
        /\ EventReturn(r, "ok")
     \/ /\ "provider" \in EventFaults
        /\ \E result \in {"ok", "error"} : EventReturn(r, result)
        /\ UNCHANGED subscribed
  /\ UNCHANGED redis

-----------------------------------------------------------------------------
(* GetEvents and GetEvent *)

\* With an empty filter: KEYS of the account's events.  event is the loop
\* variable; the type and kind filters are left out.
GetEvents(r) ==
  /\ \E account \in Accounts, public \in BOOLEAN :
       EventBegin(r, [op |-> "GetEvents", account |-> account, event |-> AnyEvent,
                      public |-> public], "keys")
  /\ UNCHANGED <<redis, subscribed>>

\* As GetEventsKeys, with the account missing in the pattern of KEYS.
GetEventsAllKeys(r) ==
  /\ epc[r] = "keys"
  /\ etodo' = [etodo EXCEPT ![r] = {e \in Events : EventExists(e)}]
  /\ epc' = [epc EXCEPT ![r] = IF ereq[r].public THEN "public keys" ELSE "next"]
  /\ UNCHANGED <<redis, subscribed, ereq, elisting, ereply>>

GetEventsKeys(r) ==
  /\ epc[r] = "keys"
  /\ etodo' = [etodo EXCEPT ![r] =
                 {e \in Events : EventExists(e) /\ EventAccount[e] = ereq[r].account}]
  /\ epc' = [epc EXCEPT ![r] = IF ereq[r].public THEN "public keys" ELSE "next"]
  /\ UNCHANGED <<redis, subscribed, ereq, elisting, ereply>>

\* As GetEventsPublicKeys, with the account's own keys replaced.
GetEventsOnlyPublicKeys(r) ==
  /\ epc[r] = "public keys"
  /\ etodo' = [etodo EXCEPT ![r] =
                 {e \in Events : EventExists(e) /\ EventAccount[e] = Public}]
  /\ epc' = [epc EXCEPT ![r] = "next"]
  /\ UNCHANGED <<redis, subscribed, ereq, elisting, ereply>>

GetEventsPublicKeys(r) ==
  /\ epc[r] = "public keys"
  /\ etodo' = [etodo EXCEPT ![r] =
                 @ \cup {e \in Events : EventExists(e) /\ EventAccount[e] = Public}]
  /\ epc' = [epc EXCEPT ![r] = "next"]
  /\ UNCHANGED <<redis, subscribed, ereq, elisting, ereply>>

GetEventsNext(r) ==
  /\ epc[r] = "next"
  /\ \E e \in etodo[r] :
       /\ epc' = [epc EXCEPT ![r] = "get exists"]
       /\ ereq' = [ereq EXCEPT ![r].event = e]
       /\ etodo' = [etodo EXCEPT ![r] = @ \ {e}]
       /\ UNCHANGED <<redis, subscribed, elisting, ereply>>

GetEventsDone(r) ==
  /\ epc[r] = "next"
  /\ etodo[r] = {}
  /\ EventReturn(r, "ok")
  /\ UNCHANGED <<redis, subscribed>>

GetEvent(r) ==
  /\ \E account \in Accounts, e \in Events :
       EventBegin(r, [op |-> "GetEvent", account |-> account, event |-> e], "get exists")
  /\ UNCHANGED <<redis, subscribed>>

GetEventExists(r) ==
  /\ epc[r] = "get exists"
  /\ IF EventKeyExists(ereq[r].account, ereq[r].event)
       THEN EventGoto(r, "get fields")
       ELSE EventReturn(r, "not found")
  /\ UNCHANGED <<redis, subscribed>>

\* An event deleted since EXISTS has no fields left: not found, and for
\* GetEvents the end of the whole listing.
GetEventFields(r) ==
  /\ epc[r] = "get fields"
  /\ IF ~EventExists(ereq[r].event) THEN EventReturn(r, "not found")
     ELSE IF ereq[r].op = "GetEvent" THEN EventReturn(r, "ok")
     ELSE /\ epc' = [epc EXCEPT ![r] = "next"]
          /\ elisting' = [elisting EXCEPT ![r] = @ \cup {ereq[r].event}]
          /\ UNCHANGED <<ereq, etodo, ereply>>
  /\ UNCHANGED <<redis, subscribed>>

-----------------------------------------------------------------------------
(* Failures *)

\* A command that reads, or one before EXEC in a transaction, fails.  The
\* reads of CreateEvent are not among them: it goes on.
EventRedisError(r) ==
  /\ "redis" \in EventFaults
  /\ epc[r] \in {"create exec", "delete exists", "delete account", "delete range",
                 "delete exec", "keys", "public keys", "get exists", "get fields"}
  /\ EventReturn(r, "error")
  /\ UNCHANGED <<redis, subscribed>>

EventsReset ==
  /\ epc' = [r \in EventRequests |-> "idle"]
  /\ ereq' = [r \in EventRequests |-> NoEventRequest]
  /\ etodo' = [r \in EventRequests |-> {}]
  /\ elisting' = [r \in EventRequests |-> {}]
  /\ ereply' = [r \in EventRequests |-> IF epc[r] = "idle" THEN ereply[r] ELSE "reset"]

EventsCrash ==
  /\ "crash" \in EventFaults
  /\ EventsReset
  /\ UNCHANGED <<redis, subscribed>>

-----------------------------------------------------------------------------
EventArrives(r) ==
  \/ CreateEvent(r)
  \/ DeleteEvent(r)
  \/ GetEvents(r)
  \/ GetEvent(r)

EventStep(r) ==
  \/ CreateEventExists(r)
  \/ CreateEventGet(r)
  \/ SubscribeToEvent(r)
  \/ GetEventInfo(r)
  \/ CreateEventExec(r)
  \/ DeleteEventExists(r)
  \/ DeleteEventAccount(r)
  \/ DeleteEventRange(r)
  \/ DeleteEventExec(r)
  \/ UnsubscribeFromEvent(r)
  \/ GetEventsKeys(r)
  \/ GetEventsPublicKeys(r)
  \/ GetEventsNext(r)
  \/ GetEventsDone(r)
  \/ GetEventExists(r)
  \/ GetEventFields(r)
  \/ EventRedisError(r)

EventsNext ==
  \/ \E r \in EventRequests : EventArrives(r) \/ EventStep(r)
  \/ EventsCrash

EventsSpec == EventsInit /\ [][EventsNext]_eventVars

-----------------------------------------------------------------------------
(* What can part a stored event and its subscription *)

\* The requests that are creating or deleting e.
Changing(e) ==
  {r \in EventRequests :
     /\ epc[r] # "idle"
     /\ ereq[r].op \in {"CreateEvent", "DeleteEvent"}
     /\ ereq[r].event = e}

\* One of them is creating it while another one is there.
Overlap(e) ==
  \E r, s \in Changing(e) : r # s /\ ereq[r].op = "CreateEvent"

\* CreateEvent failed to read an event that exists, and goes on.
Misread(r) ==
  /\ epc[r] \in {"create exists", "create get"} /\ epc'[r] = "create subscribe"
  /\ EventExists(ereq[r].event)

-----------------------------------------------------------------------------
(* Properties *)

\* The secret Redis keeps for a stored event, which RunTrigger validates
\* incoming events with, is the one the provider was last subscribed with.
\* With one handler at work it holds through failed calls of the provider and
\* crashes between the calls.  A failed read of Redis breaks it: CreateEvent
\* then subscribes anew to an event that exists.
StoredIsSubscribed ==
  \A e \in AlwaysSubscribed : EventExists(e) => subscribed[e] = events[e]

\* The secret of a stored event stays until the event is deleted: creators
\* that race store it once (HSETNX).
SecretKept ==
  [][\A e \in Events :
       events[e] # NoEvent /\ events'[e] # NoEvent => events'[e] = events[e]]_eventVars

\* The event CreateEvent returns carries the secret "used for event validation"
\* (pkg/model/event.go:37): the one that is stored.
CreatedSecretIsStored ==
  [][\A r \in EventRequests :
       epc[r] = "create exec" /\ epc'[r] = "idle" /\ ereply'[r] = "ok"
         => events'[ereq[r].event] = ereq[r].secret]_eventVars
=============================================================================
