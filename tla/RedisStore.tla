----------------------------- MODULE RedisStore -----------------------------
(***************************************************************************)
(* The data the trigger manager keeps in Redis and the four transactions   *)
(* (MULTI .. EXEC) that write it (pkg/backend/redis.go).                   *)
(*                                                                         *)
(*   event:{uri}           hash   the trigger event, here: its secret      *)
(*   trigger:{uri}         zset   the pipelines linked to the event        *)
(*   pipeline:{uid}        zset   the events linked to the pipeline        *)
(*   filter:{uri}-{uid}    hash   the filters of one link                  *)
(*                                                                         *)
(* Events are full URIs: the account hash at the end of a URI is part of   *)
(* it, and EventAccount tells which account it is the hash of.  Redis has  *)
(* no empty sets or hashes: an empty value here is an absent key there.    *)
(* The scores of the sorted sets are all 0 and are left out.               *)
(***************************************************************************)
EXTENDS Hashes

CONSTANTS
  Accounts,         \* Codefresh accounts
  Public,           \* model.PublicAccount, the pseudo account of public events
  Events,           \* event URIs
  EventAccount,     \* the account whose hash ends the URI
  Pipelines,        \* pipeline UIDs
  PipelineAccount,  \* the account that owns the pipeline in Codefresh
  FilterNames,      \* names a filter can be set on
  Expressions,      \* filter expressions
  Secrets,          \* event secrets
  NoEvent           \* the value of an absent event key

ASSUME AccountsAssumption == Public \notin Accounts
ASSUME EventsAssumption == EventAccount \in [Events -> Accounts \cup {Public}]
ASSUME EventsNonEmpty == Events # {}
ASSUME PipelinesNonEmpty == Pipelines # {}
ASSUME PipelinesAssumption == PipelineAccount \in [Pipelines -> Accounts]
ASSUME SecretsAssumption == NoEvent \notin Secrets

VARIABLES
  events,     \* event:{uri}
  triggers,   \* trigger:{uri}
  pipelines,  \* pipeline:{uid}
  filters     \* filter:{uri}-{uid}

redis == <<events, triggers, pipelines, filters>>

\* The hashes of filters a link can have: partial functions from names.
FilterMaps == UNION {[names -> Expressions] : names \in SUBSET FilterNames}

NoFilters == NoFields

\* The loop variable of a handler before its loop.
AnyEvent == CHOOSE e \in Events : TRUE
AnyPipeline == CHOOSE p \in Pipelines : TRUE

RedisTypeOK ==
  /\ events \in [Events -> Secrets \cup {NoEvent}]
  /\ triggers \in [Events -> SUBSET Pipelines]
  /\ pipelines \in [Pipelines -> SUBSET Events]
  /\ filters \in [Events \X Pipelines -> FilterMaps]

\* Redis before the first request.
RedisEmpty ==
  /\ events = [e \in Events |-> NoEvent]
  /\ triggers = [e \in Events |-> {}]
  /\ pipelines = [p \in Pipelines |-> {}]
  /\ filters = [link \in Events \X Pipelines |-> NoFilters]

\* Any events and triggers that were made one after the other.
RedisFilled ==
  /\ events \in [Events -> Secrets \cup {NoEvent}]
  /\ triggers \in [Events -> SUBSET Pipelines]
  /\ pipelines = [p \in Pipelines |-> {e \in Events : p \in triggers[e]}]
  /\ \A e \in Events : \A p \in triggers[e] : EventAccount[e] \in {PipelineAccount[p], Public}
  /\ filters \in [Events \X Pipelines -> FilterMaps]
  /\ \A e \in Events, p \in Pipelines : filters[<<e, p>>] # NoFilters => p \in triggers[e]

\* EXISTS on the event and on the pipeline key.
EventExists(e) == events[e] # NoEvent
PipelineExists(p) == pipelines[p] # {}

\* model.MatchPublicAccount(event) || model.MatchAccount(account, event)
MatchesAccount(account, e) == EventAccount[e] \in {account, Public}

Links == {link \in Events \X Pipelines : link[1] \in pipelines[link[2]]}

(***************************************************************************)
(* Transactions.  Redis executes the commands queued between MULTI and     *)
(* EXEC with nothing in between.                                           *)
(***************************************************************************)

\* As StoreTrigger, with the ZADD of the pipeline key forgotten.
StoreTriggerOneWay(e, p, newFilters) ==
  /\ triggers' = [triggers EXCEPT ![e] = @ \cup {p}]
  /\ filters' = [filters EXCEPT ![<<e, p>>] = HSet(@, newFilters)]
  /\ UNCHANGED <<events, pipelines>>

\* CreateTrigger: ZADD both sets, then one HSET per filter of the request.
\* The filter hash is not deleted first: names the request does not set keep
\* the expressions they had.
StoreTrigger(e, p, newFilters) ==
  /\ pipelines' = [pipelines EXCEPT ![p] = @ \cup {e}]
  /\ triggers' = [triggers EXCEPT ![e] = @ \cup {p}]
  /\ filters' = [filters EXCEPT ![<<e, p>>] = HSet(@, newFilters)]
  /\ UNCHANGED events

\* As RemoveTrigger, with the DEL of the filters forgotten.
RemoveTriggerKeepFilters(e, p) ==
  /\ triggers' = [triggers EXCEPT ![e] = @ \ {p}]
  /\ pipelines' = [pipelines EXCEPT ![p] = @ \ {e}]
  /\ UNCHANGED <<events, filters>>

\* DeleteTrigger: ZREM from both sets, DEL the filters.
RemoveTrigger(e, p) ==
  /\ triggers' = [triggers EXCEPT ![e] = @ \ {p}]
  /\ pipelines' = [pipelines EXCEPT ![p] = @ \ {e}]
  /\ filters' = [filters EXCEPT ![<<e, p>>] = NoFilters]
  /\ UNCHANGED events

\* As StoreEvent, with HSET in the place of HSETNX.
StoreEventOver(e, secret) ==
  /\ events' = [events EXCEPT ![e] = secret]
  /\ UNCHANGED <<triggers, pipelines, filters>>

\* CreateEvent: HSETNX of every field of the event.
StoreEvent(e, secret) ==
  /\ events' = [events EXCEPT ![e] = IF @ = NoEvent THEN secret ELSE @]
  /\ UNCHANGED <<triggers, pipelines, filters>>

\* DeleteEvent: DEL the event and its set of pipelines.  The sets of events of
\* those pipelines, and the filters, are left as they are.
RemoveEvent(e) ==
  /\ events' = [events EXCEPT ![e] = NoEvent]
  /\ triggers' = [triggers EXCEPT ![e] = {}]
  /\ UNCHANGED <<pipelines, filters>>

(***************************************************************************)
(* Consistency of the keys.                                                *)
(***************************************************************************)

\* A pipeline the event would run lists the event among its own: what runs is
\* visible to GetPipelineTriggers and can be unlinked by DeleteTrigger.
TriggersMirrored ==
  \A e \in Events, p \in Pipelines : p \in triggers[e] => e \in pipelines[p]

\* Filters are stored for links only, so none is left behind to narrow a link
\* made later.
FiltersBelongToLinks ==
  \A e \in Events, p \in Pipelines :
    filters[<<e, p>>] # NoFilters => e \in pipelines[p]

\* A pipeline is linked to events of its own account and to public ones only:
\* the suffix check of CreateTrigger and the owner that cfapi reports agree.
AccountIsolation ==
  \A e \in Events, p \in Pipelines :
    e \in pipelines[p] => EventAccount[e] \in {PipelineAccount[p], Public}

\* DeleteEvent says it aborts if pipelines are linked to the event
\* (pkg/backend/redis.go:931): no event goes away with pipelines linked to it.
LinkedEventStays ==
  [][\A e \in Events : EventExists(e) /\ events'[e] = NoEvent => triggers[e] = {}]_redis
=============================================================================
