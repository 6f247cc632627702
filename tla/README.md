# Verification of the trigger manager (Hermes)

TLA+ specifications of the code in `src/`, model-checked with TLC on small
instances and, for the central properties, proved with TLAPS for every instance.
Line numbers below refer to the files of this commit.

## 1. The system

Hermes links *trigger events* (a push to a registry, a cron tick, ...) to
Codefresh *pipelines*. A REST server (`cmd/server.go`) serves every request in a
goroutine of its own. All durable state is in one Redis. Events are created at
*event providers*, which later post *normalized events* to Hermes; Hermes then
runs the linked pipelines through the Codefresh API (*cfapi*).

| Part | Code | State | Operations |
|---|---|---|---|
| Redis data | `pkg/backend/redis.go` | `event:{uri}` hash, `trigger:{uri}` zset of pipelines, `pipeline:{uid}` zset of events, `filter:{uri}-{uid}` hash | four `MULTI .. EXEC` transactions |
| Triggers | `redis.go` 294-568, `controller/trigger.go` | none of its own | CreateTrigger, DeleteTrigger, DeleteAllTriggersByPipeline, GetPipelineTriggers, GetEventTriggers, GetTriggers |
| Trigger events | `redis.go` 662-986, `controller/event.go` | subscriptions at the providers | CreateEvent, DeleteEvent, GetEvents, GetEvent |
| Runs | `controller/runner.go`, `backend/{runner,secret,publisher}.go`, `redis.go` 570-660 | none | RunTrigger: GetEvent, Validate, Publish, GetTriggerPipelines, Run |
| Event types | `provider/discovery.go`, `util/watcher.go` | `eventTypes`, the watch of the file, `lastWriteEvent` | first load, watch, reload, GetType(s), MatchType, ConstructEventURI |
| Provider client | `provider/api.go` | none | subscribe, unsubscribe, info |
| cfapi client | `codefresh/pipeline.go` | none | GetPipeline, RunPipeline, PublishEvent |
| Variables of a build | `controller/runner.go` 78-84, `codefresh/pipeline.go` 75-95, `redis.go` 608-640 | the map of variables | add the payload, filter, rename for each build |
| Helpers | `util/*.go`, `model/*.go` | the generator of `random.go` | DiffStrings, MergeStrings, StringSliceToMap, RandomString, account hashes |
| Command line | `cmd/{trigger,event,runner}.go` | none | the operations of the server, from another process over the same Redis |

How they interact: handlers share nothing but Redis, the providers and cfapi.
A handler is a sequence of remote calls; between any two of them other handlers
take steps. Nothing (no lock, no `WATCH`) ties the reads of a handler to its
transaction. The reload callback and the readers of the types share a mutex; the
calls of a provider are made without it, so the types may be others by the next
call of the same request.

What is hard, and what makes each part correct:

* **Two indexes of one relation.** `trigger:` and `pipeline:` keys say the same
  thing from two sides, and `filter:` keys hang on the pair. They must agree
  whatever fails (`IndexesAgree`, `TriggersMirrored`, `FiltersBelongToLinks`,
  `ImplementsTriggerLinks`).
* **Accounts.** The URI's suffix and cfapi are two separate checks, made before
  the transaction; a link never crosses accounts (`AccountIsolation`).
* **Listings and loops over what was read before** (`ListingBounded`,
  `EventTriggersBounded`, `DeleteAllComplete`, `EventListingBounded`,
  `EventListingFailsOnDelete`).
* **State in two systems.** An event is stored in Redis and subscribed at a
  provider with a secret, by two separate steps, in either order, any of which
  may fail or be the last one before a crash (`SubscribedUnlessDisturbed`,
  `StoredIsSubscribed`, `SecretKept`, `CreatedSecretIsStored`).
* **Which provider?** It is looked up in the types of the moment for each call,
  and the types are reloaded at any moment (`StoredAtItsProvider`,
  `ImplementsEvents`). A provider may never answer (`AnsweredUnlessHung`).
* **Check, then act.** DeleteEvent (`LinkedEventStays`), RunTrigger
  (`RunsNeedSecret`, `StayingLinksAreFiltered`, `RunsBounded`).
* **A file that is replaced under its watcher** (`EventuallyCurrent`,
  `WatchedUpdatesNotLost`), and types that change as a whole and under their
  lock only (`ImplementsEventTypes`).
* **Maps without order.** Variables are renamed for each build by a loop over a
  Go map, while filters saw the names as they came (`BuildsAlike`,
  `VariablesArrive`, `PayloadArrives`, `FilteredAsBuilt`).

`PROJECT.json` lists every hazard at its line, with the properties that cover
it, or the reason why none does.

## 2. The modules

| Module | Models | Built on |
|---|---|---|
| `Hashes` | `HSET` on Redis hashes and Go maps | |
| `RedisStore` | the keys, the four transactions, their consistency | `Hashes` |
| `Triggers` | the trigger handlers | `RedisStore` |
| `TriggerLinks` | abstract: a set of links with filters | `Hashes` |
| `TriggersHistory` | `Triggers` with what was linked while a request ran | `Triggers` |
| `Events` | the event handlers and the subscriptions | `RedisStore` |
| `EventsHistory` | `Events` with what existed while a request ran, and whether something disturbed the creation of an event | `Events` |
| `EventTypes` | abstract: the types of events and their lock | |
| `EventProviders` | `Events` with the provider of each call looked up in `EventTypes` | `Events`, `EventTypes` |
| `EventProvidersHistory` | `EventProviders` with the providers that types matched an event with | `EventProviders` |
| `Filters` | filters of a trigger (`SKIP:`, bad expressions, empty values) | |
| `Runs` | RunTrigger | `RedisStore`, `Filters` |
| `BuildVariables` | the variables of an event on their way into the builds | `Filters`, `Hashes` |
| `Hermes` | the three kinds of handlers over one Redis in one process | `Triggers`, `Events`, `Runs` |
| `RunsHistory` | `Hermes` with what was linked and due while an event was served | `Hermes` |
| `CommandLine` | `Hermes` with the commands next to the server, one process at work at a time | `Hermes` |
| `TypesWatcher` | first load, `FileWatcher.run`, the reload; implements `EventTypes` | `EventTypes` |
| `TriggersProofs`, `TriggersHistoryProofs`, `EventsProofs`, `EventsHistoryProofs`, `EventProvidersProofs`, `BuildVariablesProofs`, `TypesWatcherProofs` | proofs | the module of that name (`EventProvidersProofs`: `EventProvidersHistory`) |
| `HermesProofs` | proofs | `Hermes`, `RunsHistory`, `CommandLine` |
| `MC*` | small instances for TLC | |

### Correspondence with the code

**State.** `events`, `triggers`, `pipelines` and `filters` are the four kinds of
keys; an empty value is an absent key, as in Redis. Of an event only its secret
is kept: it is the field other components depend on. An event stands for its
full URI, so the account suffix is a function `EventAccount` of it. `subscribed`
(the secret the provider has; `secretAt` where there are several) and `cfapi`
(the pipelines that exist) are external. The rest is local to a goroutine: `pc`,
`epc`, `rpc` say which remote call is next; `req`, `todo`, `listing` and their
like are the handler's local variables that are still needed.

**Actions.** One action per Redis command that reads, per transaction and per
remote call, named after the handler and the call: `DeleteEventRange` is the
`ZRANGE` of DeleteEvent with the test that follows it. What a handler does
between two calls touches local variables only and is part of the step of the
call before. The commands queued between `MULTI` and `EXEC` change nothing until
`EXEC`, so a transaction is one step; a failure before `EXEC` is
`RedisError`, and an `EXEC` that ran but whose answer was lost is the result
"error" of the step itself. Definitions whose comment says "As X, with ..." are
variants of X that no specification uses: the bugs the properties are checked against.

**Failures.** The constants `TriggerFaults`, `EventFaults` and `RunFaults` name
what may fail: "redis" (any command), "cfapi", "provider" (any call, a
subscription that was made but reported as failed included) and "crash" (the
process ends, with every request in flight; `log.Fatal` in `newPool` and a
restart of the pod are the same to the state). Redis keeps its data: persistence of Redis itself is
outside the code.

**Abstractions.** The order of a loop over a Redis set or a Go map is any order.
A regular expression is the set of the values it matches. An HMAC signature is
knowing the secret. Replies are results of the store, not HTTP statuses
(the controllers compare with `ErrTriggerNotFound` only, so that
`ErrEventNotFound` is answered with 500). Requests whose JSON cannot be parsed
end before any call and are left out. `GetEvents` has an empty filter; its type
and kind filters, which look at what was read, are left out. `GetEventTriggers`
is asked for a full URI or for "*", and `KEYS` takes it as a glob pattern
(`redis.go` 310, 316): `Globs[e]` is the set of events whose URIs the URI of `e`
matches. For most URIs it is that event alone. For one with `*` or `?` in it, as the cron
type of the chart allows, there may be others, and their triggers are listed too; a URI
with `[` or `\` need not match itself. All that is assumed of
`Globs` is that the hash at the end of a URI matches itself only, so that no
event of another account is found.

**Providers.** A configuration is a sequence of types; of a type `EventProviders` keeps the
service behind it, the URIs its template constructs and those its pattern
matches. `MatchProvider` is MatchType under the lock; `SubscribeAt`,
`DescribeAt` and `UnsubscribeAt` are the answers, which need not come. `TypedArrival`
is ConstructEventURI at the arrival of a creation: the other calls of
that request look the provider up anew.

**TypesWatcher.** The file is a symlink of a mounted ConfigMap. `ReplaceFile`
is the atomic replacement by Kubernetes: the watched inode goes, with a Remove
event, and the watch with it; `TakeRemove` watches the name again. `queue` is the
queue of inotify, `pending` is `lastWriteEvent # nil`, and `Tick`/`Reload` are the
two halves of the callback: take the lock and read the file, then replace the types.

**BuildVariables.** A name is a word, in upper case or not, with the prefix
`EVENT_` or not: what preprocessVariables tells apart. Each step of its loop is
an action, since the order of the loop decides which of two values stays.

**CommandLine.** A command is a process that makes one call of the store and
ends. `trigger-event delete` makes its store without an event provider, so that
UnsubscribeFromEvent panics once the deletion is committed
(`CommandDeleteEventExec`); `run` reads the pipelines before the event, asks for
no secret and does not publish.

Reading the code for these modules showed more that a user of the API should
know, none of which is a property: `DELETE .../:event/*context` gets a context
that always starts with "/", so that DeleteEvent never has the credentials that are passed
in it; GetEvents for the public account with `public=true` lists each event twice
(a set in the model).

## 3. What TLC checks

| Run | Module, configuration | Shows |
|---|---|---|
| `triggers` | `MCTriggers` | types; the two indexes agree, filters belong to links, accounts are isolated, and the handlers implement `TriggerLinks`, under every fault |
| `triggers_history` | `MCTriggersHistory` | listings of a pipeline, and of the events a URI matches as a pattern, contain what was linked all along and nothing that never was; after a DeleteAll that answers 200 only links made meanwhile are left; every request is answered |
| `events` | `MCEventsHistory` | types; a stored event is subscribed with its secret unless its creation overlapped another change of it or misread it; a stored secret is not overwritten; DeleteEvent respects links while none is made; bounds of GetEvents, and the only reason it says "not found" |
| `providers` | `MCEventProviders` | types; the handlers over reloadable types implement `Events`; a stored event is subscribed at the provider its URI matches; a provider that hangs holds up its own callers only |
| `hermes` | `MCRunsHistory`, `MCHermes.cfg` | triggers, events and runs together, every fault: what would run is listed, and nothing runs without a secret the event had meanwhile |
| `hermes_serial` | `MCCommandLine` | server and commands, one at a time, with provider errors, restarts, killed commands and the panic of the command that deletes an event: indexes, subscriptions, deletions and the secrets that are answered are right, so what the findings show is due to overlapping requests |
| `runs` | `MCRunsHistory` | which pipelines run: all that were due all along, none that was never linked, and filters hold for links that stay; a normalized event is answered |
| `variables` | `MCBuildVariables` | every variable arrives in every build, builds are alike, the payload is the original one and filters judge what is built, except for names that clash |
| `types` | `MCTypesWatcher` | the types follow the file unless it is absent for a while; no update is lost while the watch is there; types change under the lock, which is always given back |

Runs that must find a violation, each a disagreement of the code with what a
comment says of it (details in `findings` of `PROJECT.json`):

| Run | Module, configuration | What happens |
|---|---|---|
| `events_secret` | `MCEvents` | two creators: the answer's secret is not the stored one, and the provider signs with the other |
| `hermes_delete` | `MCHermes`, `MCHermesDelete.cfg` | an event is deleted together with a trigger just made for it |
| `types_early` | `MCTypesWatcher`, `MCTypesWatcherEarly.cfg` | a change between first load and watch is missed |

Several properties name the case they except; these cases do happen, and
are hazards of the code:

* `SubscribedUnlessDisturbed`: a CreateEvent that runs between the EXEC of a
  DeleteEvent and its unsubscribe (`redis.go` 960-976) leaves a stored event
  without subscription, and so does one that goes on after a failed read of an
  event that exists (`redis.go` 692);
* `StayingLinksAreFiltered`: a trigger deleted between the `ZRANGE` and the
  `HGETALL` of GetTriggerPipelines (`redis.go` 602, 613) may run although its
  filter rejects the event;
* `StoredAtItsProvider`: when a reload moves an event to another provider, the
  old one keeps its subscription (`discovery.go` 259);
* `BuildsAlike`, `FilteredAsBuilt`: of two variables that become one name, any
  may stay, another one in each build (`pipeline.go` 82);
* `EventTriggersBounded`: what is asked for is what the URI matches, so the listing of one
  cron event may show triggers of another (`redis.go` 310). The comment of
  GetEventTriggers says "for specified event", the flag of the command "event filter".

Deadlock is checked in all runs but those of `TypesWatcher`, which stops when the
file has changed `MaxUpdates` times and everything is taken.

### Bounds

Two accounts where isolation matters, one private and one public event (and
another account's in `MCTriggers`; in `triggers_history` two public ones, the URI of
one a pattern that matches the other), one pipeline (two in `runs`), one filter
name, one or two secrets, two requests at a time, one of each kind in the composed runs. A
request goroutine serves any number of requests one after the other. Every
hazard listed is an interplay of two handlers on one event and one pipeline, so
this is what two requests need; loops need two events (the listings) or two
pipelines (`RunsBounded`), which those runs have. `providers` has one event, two
services, of which one answers 501, and three configurations: the event at
one service, at the other, and constructed by one type while matched by another.
Symmetry over the identical requests is used in the safety runs `triggers` and
`events`, never with liveness. `hermes_serial` has at most one request or
command at work (`OneAtATime`). `variables` has two words, one of them the payload's, in all four spellings,
and up to `MaxVariables` = 2 variables besides the payload: two clash, or one
clashes with the payload. `MaxUpdates` bounds the changes of the file in
`TypesWatcher`: three configurations and four changes are enough for a change
before, during and after a reload, twice. Nothing else is bounded. Configurations differ in their faults where the
full product does not fit five minutes: `triggers_history` leaves out Redis errors
(they end a listing without an answer 200) and `runs` leaves out restarts, which
`hermes` has.

### Fairness

`WF(TriggerStep(r))`, `WF(RunStep(r))`, `WF(RedisStep(r))` for every request `r`
of the kind the property is about: the Go scheduler runs every goroutine, and
Redis and cfapi return, with an answer or an error. The latter is an assumption: no
call of the code has a timeout. Of providers it is not assumed: they may never
answer. `SF(MatchProvider(r))`: the lock of the types is free again and
again, and the `sync.RWMutex` of Go 1.10 (the version of the Dockerfile) hands itself to a waiter in the
end. `WF` of `FirstLoad` and `EndReload`: a file is read in the end.
`WF(WatcherStep)`: the watcher's goroutine is scheduled, the ticker ticks, and the
file stops changing (that is `MaxUpdates`); a Go `select` with a ready ticker and
a finite number of events takes both in the end. No fairness is assumed of
arrivals, crashes or the outside world, and none of a choice among outcomes.
Loops end because they run over lists that were read once.

## 4. What is proved

All for arbitrary sets of accounts, events, pipelines, names, expressions,
secrets, requests, services and configurations and for any faults, from the
assumptions named in the modules: `Public` is not an account, `EventAccount` and
`PipelineAccount` are functions of the right types, there is an event, `NoEvent`
is not a secret, each set of faults names known services, and an event that
types match can be subscribed or described at the service behind them, and a URI
matches, as a pattern, events of its own account only. The
theorems of `EventProvidersProofs` assume besides that providers may fail: a
type that vanished is to `Events` an error of the provider.

**Triggers** (`TriggersProofs`). None of the invariants is inductive alone. The
inductive one is `TriggersInv`: the store is typed and consistent (`StoreInv`), the locals
are typed and a request that is about to link has passed both checks of
CreateTrigger (`CreatePermitted`, in `LocalsInv`), `cfapi` contains pipelines
only, and the indexes agree. `CreatePermitted` is what carries the early checks
over the interleaving to the transaction: accounts and owners do not change, so a
check that was right stays right. `NextLinks` says that every step is a
transaction on a permitted pair or leaves Redis alone; from it and the lemmas
on `StoreTrigger` and `RemoveTrigger` follow

* `TriggersTyped`, `TriggersIndexesAgree`, `TriggersFilters`, `TriggersIsolated`,
* `TriggersImplementLinks`: `TriggersSpec => Abstract!LinksSpec`.

**TriggersHistory** (`TriggersHistoryProofs`). A listing reads a set, then visits
its members while links come and go, so nothing of what it holds need be so now.
`ListingInv` relates it to the history of the request instead. `Tracked`: what was
linked all along is linked, and what is linked was at some moment. `Collected`, place by
place: what was linked all along is listed already or still in hand (read and
not visited, or being visited), and what is in hand was linked at some moment;
between the two `KEYS` of a listing of events the own ones are in hand. Events found for a URI
are of its account (`GlobsAssumption`), whatever else the URI matches.
`Deleted`: in DeleteAllTriggersByPipeline, by the owner of the
pipeline and with a Redis that answers, what was linked all along is still to be
unlinked. `Placed` keeps a request in its operation. For any number of links and
requests follow `ListingsBounded`, `EventTriggerListingsBounded` and
`DeleteAllCompletes`.

**Events** (`EventsProofs`). `EventsTypeOK` is inductive once it says that a
request in CreateEvent is a CreateEvent request, with a secret
(`EventsTyped`). `EventsKeepSecrets` shows that every step is a `StoreEvent`, a
`RemoveEvent` or leaves Redis alone, and that neither replaces a secret by
another. `EventsLinkedStay` rests on `RangeChecked` (a request about to delete an
event has found no pipeline linked to it): true as long as nothing links, since the handlers
of events change `trigger:` keys in RemoveEvent only, and there delete nothing. `AllPlaced` (a request is at a place of its own operation) and
`StepAlone` (a step touches the locals of one request) are for the modules built on it.

**EventsHistory** (`EventsHistoryProofs`). `StoredAsSubscribed` rests on `Calm`:
an event that is undisturbed and stored is subscribed with its secret, a
request that creates it is the only one that changes it, and has it subscribed before it stores. Whatever
overlaps a creation, or goes on after a misread, sets `disturbed`. For the listings the inductive
statement follows an event through the loop of GetEvents: what existed all along
is listed already or still in hand, and what is in hand existed at some moment
(`EventListingsBounded`, `EventListingsFail`).

**EventProviders** (`EventProvidersProofs`). `ProvidersAreEvents`: each step is a
step of `Events` or a stutter; `MayCall` (a request waits for a service only
where `Events` calls the provider, and for one that can answer what it is asked)
is the invariant it needs. `StoredAtItsProviderAlways` repeats the argument
of `Calm` per service: while only one service was ever matched, calls in flight
are calls of that one (`CallsMatched`). That MatchType
returns the first match needs a least index, from the well-foundedness of the naturals.

**BuildVariables** (`BuildVariablesProofs`). The loop of preprocessVariables needs no
induction over its map, as each visit is a step of the model. `BuildInv` says that the map
under construction is `Prepared` from the variables visited so far: its
names are their canonical names and each value is that of a variable of that name. So are
the builds, from all variables; the payload is among these, and the
pipelines that are selected or built have filters that reject none of them
(`Passed`). From `Prepared` two builds of one event differ only where two variables of
one name do: `AllBuiltAlike`, `AllVariablesArrive`, `PayloadsArrive`,
`AllFilteredAsBuilt`, `VariablesTyped`.

**Hermes** (`HermesProofs`). With DeleteEvent the indexes no longer agree, and `IndexesAgree`
is false (that is the finding of `hermes_delete`). What survives is one direction, proved in
`HermesMirrored`, with `HermesFilters`, `HermesIsolated` and `HermesImplementsLinks`;
stored secrets stay, too (`HermesKeepsSecrets`).
`HermesInv` is `TriggersInv` with `TriggersMirrored` in the place of the
equivalence, and the types of the event handlers.

**Runs** (`HermesProofs`, second part). `RunsInv` says of each place of RunTrigger what has been
established there: the sender knew a secret the event had (`RunsSecret`), what was due all along is still
unread, selected or run, and what is in hand was linked at some moment
(`RunsComplete`), and of the links that stay it was due (`RunsFiltered`).

**CommandLine** (`HermesProofs`, third part). What the findings `hermes_delete` and
`events_secret` violate holds when requests and commands do not overlap, so it does
take an overlap. `SerialInv` adds to `HermesInv` that one request or command is at
work, that the indexes agree and `RangeChecked`, which survives the handlers of
triggers because none is at work between the check and the transaction:
`SerialIndexesAgree`, `SerialLinkedStay`. `SubscriptionInv` adds `Undisturbed`: a
creation past its reads finds no event stored, and has subscribed the one it is about
to store; a deletion that still has to unsubscribe has removed its event. From it
`SerialSubscribed` and `SerialCreatedSecret`, both under the hypothesis that Redis
answers (`"redis" \notin EventFaults`): CreateEvent goes on when it fails to read an
event that exists, and then subscribes it anew, which breaks either without any overlap.

**TypesWatcher** (`TypesWatcherProofs`). `WatchedUpdatesSurvive`: with the file
never changed before it is watched, `WatcherInv` (when the types, or during the callback what was
loaded, differ from the watched file, something is pending or queued) is inductive
for any number of changes. `UpdatesSurvive`: if the file is never absent either,
a lost watch always comes with a queued Remove (`RewatchInv`), so no update is lost at all.
`TypesChangeUnderLock`: the safety part of `ImplementsEventTypes`, and `WatcherTyped`.

Only model-checked: liveness and everything under fairness (`RequestsAnswered`,
`RunsAnswered`, `AnsweredUnlessHung`, `EventuallyCurrent`, the fair part of
`ImplementsEventTypes`), which the prover cannot do. Every other property of a
run that passes is a theorem. TLC checked `ListingInv`, `BuildInv` and
`SubscriptionInv` with `RangeChecked` as invariants of the small instances before they were proved.

## 5. Not modelled

Redis, providers, cfapi and inotify are external and modelled from their use.
Not modelled at all, and why:

* the generator that `RandomString` shares between goroutines without a lock: what a data
  race yields is up to the build; secrets are any members of `Secrets`, equal ones included;
* short URIs and the prefixes of keys: every event is its full URI;
* a `[` in a URI that is not closed: as a pattern it takes in the hash of the account;
* a filter read of `GetEventTriggers` that finds the trigger deleted: what is listed is
  the link, not its filters;
* the subscription that stays at the old provider when a type moves: nothing in the code
  remembers it, `StoredAtItsProvider` excepts it;
* types from JSON of a wrong shape: a file can be parsed or gives no types;
* the Errors channel of fsnotify, which nobody reads, and the pool without a
  limit: resources of libraries;
* the status, ping and types endpoints and the commands on trigger types: reads
  without state of their own;
* formatting of answers, flags, logging, NewRelic, mocks and the Helm chart.

## 6. Plan

Done: the store, triggers, events, runs, their composition, the watcher, the
types and providers, variables, the command line, and their proofs as far as
section 4 says. Left:

1. `Keys`: getPrefixKey, getAccountSuffixKey, the four key functions and
   MatchAccount over full, short and prefixed URIs as pure operators, checked
   against a reference (one key per event and account), and where the filter key differs.
2. What the caller of a cfapi that never answers holds up (as `providers` does for providers).
