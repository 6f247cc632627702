--------------------------- MODULE BuildVariables ---------------------------
(***************************************************************************)
(* The variables of an event on their way into the builds of its           *)
(* pipelines: RunTrigger adds the payload (pkg/controller/runner.go),      *)
(* GetTriggerPipelines judges them by the filters of each trigger, and     *)
(* runPipeline renames them for each build anew (preprocessVariables in    *)
(* pkg/codefresh/pipeline.go).  A command (hermes run, src/cmd/runner.go)  *)
(* starts with the variables of its command line and has no payload.       *)
(*                                                                         *)
(* Go visits the entries of a map in any order, another one at each loop.  *)
(***************************************************************************)
EXTENDS Naturals, FiniteSets, Hashes, Filters

CONSTANTS
  Words,        \* the names of variables, up to case and the prefix EVENT_
  PayloadWord,  \* the one of EVENT_PAYLOAD
  Linked,       \* the pipelines linked to the event
  TriggerFilters, \* the filters a trigger may have
  MaxVariables  \* bound on the variables that come with an event

Names == [word: Words, upper: BOOLEAN, prefixed: BOOLEAN]

Named(word) == [word |-> word, upper |-> TRUE, prefixed |-> TRUE]
PayloadName == Named(PayloadWord)

IsMap(map, names, values) ==
  DOMAIN map \subseteq names /\ \A name \in DOMAIN map : map[name] \in values

ASSUME PayloadAssumption == PayloadWord \in Words
ASSUME TriggerFiltersAssumption == \A map \in TriggerFilters : IsMap(map, Names, Expression)

VARIABLES
  vpc,       \* what the process does next
  vars,      \* the variables pipelines are selected with
  payload,   \* the original payload, NoValue for a command
  filters,   \* the filters of each trigger
  selected,  \* pipelines to run
  current,   \* the pipeline whose build is being prepared
  left,      \* variables that preprocessVariables has still to visit
  newVars,   \* the map it makes
  builds     \* the variables each build was started with

variableVars == <<vpc, vars, payload, filters, selected, current, left, newVars, builds>>

IsBuildMap(map) == IsMap(map, {Named(word) : word \in Words}, Values)

VariablesTypeOK ==
  /\ vpc \in {"idle", "select", "run", "prepare"}
  /\ IsMap(vars, Names, Values)
  /\ payload \in Values \cup {NoValue}
  /\ filters \in [Linked -> TriggerFilters]
  /\ selected \subseteq Linked
  /\ current \in Linked
  /\ left \subseteq DOMAIN vars
  /\ IsBuildMap(newVars)
  /\ DOMAIN builds \subseteq Linked /\ \A p \in DOMAIN builds : IsBuildMap(builds[p])

VariablesInit ==
  /\ vpc = "idle"
  /\ vars = NoFields
  /\ payload = NoValue
  /\ filters \in [Linked -> TriggerFilters]
  /\ selected = {}
  /\ current \in Linked
  /\ left = {}
  /\ newVars = NoFields
  /\ builds = NoFields

\* The variables an event may come with.
Given ==
  UNION {[some -> Values] : some \in {names \in SUBSET Names : Cardinality(names) <= MaxVariables}}

-----------------------------------------------------------------------------
\* As RunTrigger, with the payload left to a variable that came with the event.
RunTriggerKeep ==
  /\ vpc = "idle"
  /\ \E given \in Given, original \in Values :
       /\ payload' = original
       /\ vars' = HSet(Field(PayloadName, original), given)
  /\ vpc' = "select"
  /\ builds' = NoFields
  /\ UNCHANGED <<filters, selected, current, left, newVars>>

\* The variables are copied and the payload is set.
RunTrigger ==
  /\ vpc = "idle"
  /\ \E given \in Given, original \in Values :
       /\ payload' = original
       /\ vars' = HSet(given, Field(PayloadName, original))
  /\ vpc' = "select"
  /\ builds' = NoFields
  /\ UNCHANGED <<filters, selected, current, left, newVars>>

RunCommand ==
  /\ vpc = "idle"
  /\ \E given \in Given : vars' = given
  /\ payload' = NoValue
  /\ vpc' = "select"
  /\ builds' = NoFields
  /\ UNCHANGED <<filters, selected, current, left, newVars>>

\* The value of a variable as it was given, if it was.
Value(name) == IF name \in DOMAIN vars THEN vars[name] ELSE NoValue

\* As GetTriggerPipelines, with the names looked up that the builds will have.
GetTriggerPipelinesRenamed ==
  /\ vpc = "select"
  /\ selected' = {p \in Linked :
                    ~Rejected(filters[p], [name \in Names |->
                       IF name.upper /\ name.prefixed THEN Value(name) ELSE NoValue])}
  /\ vpc' = "run"
  /\ UNCHANGED <<vars, payload, filters, current, left, newVars, builds>>

\* Filters look up the names as they came with the event.
GetTriggerPipelines ==
  /\ vpc = "select"
  /\ selected' = {p \in Linked : ~Rejected(filters[p], [name \in Names |-> Value(name)])}
  /\ vpc' = "run"
  /\ UNCHANGED <<vars, payload, filters, current, left, newVars, builds>>

\* Run calls RunPipeline for each pipeline, which starts a map of its own.
RunPipeline ==
  /\ vpc = "run"
  /\ \E p \in selected :
       /\ selected' = selected \ {p}
       /\ current' = p
  /\ left' = DOMAIN vars
  /\ newVars' = NoFields
  /\ vpc' = "prepare"
  /\ UNCHANGED <<vars, payload, filters, builds>>

\* As Canonical, with the prefix added to names in lower case only.
CanonicalLower(name) ==
  [name EXCEPT !.upper = TRUE, !.prefixed = @ \/ ~name.upper]

\* Each key is converted to upper case, then prefixed with EVENT_ unless it is.
Canonical(name) == [name EXCEPT !.upper = TRUE, !.prefixed = TRUE]

PreprocessVariable ==
  /\ vpc = "prepare"
  /\ \E name \in left :
       /\ newVars' = HSet(newVars, Field(Canonical(name), vars[name]))
       /\ left' = left \ {name}
  /\ UNCHANGED <<vpc, vars, payload, filters, selected, current, builds>>

\* As StartBuild, with the loop cut short.
StartBuildEarly ==
  /\ vpc = "prepare"
  /\ builds' = HSet(builds, Field(current, newVars))
  /\ vpc' = "run"
  /\ UNCHANGED <<vars, payload, filters, selected, current, left, newVars>>

\* The map is complete and is sent to cfapi.
StartBuild ==
  /\ vpc = "prepare"
  /\ left = {}
  /\ builds' = HSet(builds, Field(current, newVars))
  /\ vpc' = "run"
  /\ UNCHANGED <<vars, payload, filters, selected, current, left, newVars>>

RunEnds ==
  /\ vpc = "run"
  /\ selected = {}
  /\ vpc' = "idle"
  /\ vars' = NoFields
  /\ payload' = NoValue
  /\ newVars' = NoFields
  /\ builds' = NoFields
  /\ UNCHANGED <<filters, selected, current, left>>

VariablesNext ==
  \/ RunTrigger
  \/ RunCommand
  \/ GetTriggerPipelines
  \/ RunPipeline
  \/ PreprocessVariable
  \/ StartBuild
  \/ RunEnds

VariablesSpec == VariablesInit /\ [][VariablesNext]_variableVars

-----------------------------------------------------------------------------
(* Properties *)

\* Another variable that becomes the same name, with another value.
Clashes(name) ==
  \E other \in DOMAIN vars :
    /\ other # name
    /\ Canonical(other) = Canonical(name)
    /\ vars[other] # vars[name]

\* All the pipelines of an event are run with the same variables, although each
\* build visits the map in an order of its own: only names that differ in case
\* or by the prefix, with different values, let builds differ.
BuildsAlike ==
  \A p, q \in DOMAIN builds :
    builds[p] = builds[q] \/ \E name \in DOMAIN vars : Clashes(name)

\* No variable is lost on the way and none is made up: a build has each of them
\* under its canonical name, with a value that came under such a name.
VariablesArrive ==
  \A p \in DOMAIN builds :
    /\ \A name \in DOMAIN vars : Canonical(name) \in DOMAIN builds[p]
    /\ \A name \in DOMAIN builds[p] :
         \E from \in DOMAIN vars :
           name = Named(from.word) /\ builds[p][name] = vars[from]

\* Every build of an event has the original payload as EVENT_PAYLOAD, whatever
\* variable of that name came with it, unless one of another spelling clashes.
PayloadArrives ==
  payload # NoValue =>
    \A p \in DOMAIN builds :
      \/ builds[p][PayloadName] = payload
      \/ \E name \in DOMAIN vars \ {PayloadName} : name.word = PayloadWord

\* Filters see the names as they were given and builds see the renamed ones:
\* still no pipeline is built with a value that its filter on that variable
\* rejects, unless the variable clashes with another one.
FilteredAsBuilt ==
  \A p \in DOMAIN builds : \A name \in DOMAIN filters[p] \cap DOMAIN vars :
    Rejects(filters[p][name], builds[p][Canonical(name)]) => Clashes(name)
=============================================================================
