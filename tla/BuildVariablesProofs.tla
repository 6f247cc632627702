------------------------ MODULE BuildVariablesProofs ------------------------
(***************************************************************************)
(* The variables of an event arrive in its builds.                         *)
(***************************************************************************)
EXTENDS BuildVariables, TLAPS

-----------------------------------------------------------------------------
(* The inductive invariant *)

\* A map that the loop of preprocessVariables has made of the variables it has
\* visited, in whatever order: their canonical names, each with the value of
\* one of the variables of that name.
Prepared(map, given, visited) ==
  /\ map = [name \in {Canonical(from) : from \in visited} |-> map[name]]
  /\ \A name \in DOMAIN map :
       \E from \in visited : Canonical(from) = name /\ map[name] = given[from]

\* The filters of p reject none of the variables as they came.
Passed(p) ==
  \A name \in DOMAIN filters[p] \cap DOMAIN vars : ~Rejects(filters[p][name], vars[name])

BuildInv ==
  /\ VariablesTypeOK
  /\ vpc = "prepare" => Prepared(newVars, vars, DOMAIN vars \ left) /\ Passed(current)
  /\ vpc # "prepare" => left = {}
  /\ vpc \in {"idle", "select"} => selected = {} /\ DOMAIN builds = {}
  /\ payload # NoValue => PayloadName \in DOMAIN vars /\ vars[PayloadName] = payload
  /\ \A p \in DOMAIN builds : Prepared(builds[p], vars, DOMAIN vars)
  /\ \A p \in selected \cup DOMAIN builds : Passed(p)
-----------------------------------------------------------------------------
(* Maps *)

LEMMA CanonicalNamed ==
  ASSUME NEW name \in Names
  PROVE  /\ Canonical(name) = Named(name.word) /\ Canonical(name) \in Names
         /\ Canonical(name) \in {Named(word) : word \in Words}
<1> DEFINE upper == [name EXCEPT !.upper = TRUE]
<1>1. upper \in Names /\ upper.word = name.word /\ upper.upper = TRUE
  BY DEF Names
<1>2. Canonical(name) = [upper EXCEPT !.prefixed = TRUE]
  BY Zenon DEF Canonical
<1> HIDE DEF upper
<1>3. Canonical(name) = Named(name.word) /\ name.word \in Words
  BY <1>1, <1>2 DEF Named, Names
<1>4. Named(name.word) \in Names
  BY <1>3 DEF Named, Names
<1> QED
  BY <1>3, <1>4

LEMMA PayloadCanonical == PayloadName \in Names /\ Canonical(PayloadName) = PayloadName
<1>1. PayloadName \in Names /\ Named(PayloadName.word) = PayloadName
  BY PayloadAssumption DEF PayloadName, Named, Names
<1> QED
  BY <1>1, CanonicalNamed

\* Setting one entry of a map.
LEMMA SetEntryMap ==
  ASSUME NEW names, NEW values, NEW map, IsMap(map, names, values),
         NEW key \in names, NEW value \in values
  PROVE  IsMap(HSet(map, Field(key, value)), names, values)
<1> DEFINE new == HSet(map, Field(key, value))
<1>1. /\ DOMAIN new = DOMAIN map \cup {key} /\ new[key] = value
      /\ \A name \in DOMAIN map \ {key} : new[name] = map[name]
  BY DEF HSet, Field
<1> HIDE DEF new
<1>2. IsMap(new, names, values)
  BY <1>1 DEF IsMap
<1> QED
  BY <1>2 DEF new

LEMMA NoFieldsMap == \A names, values : IsMap(NoFields, names, values)
  BY DEF NoFields, IsMap

\* The loop before its first visit, and at each one.
LEMMA PreparedNone == \A given : Prepared(NoFields, given, {})
  BY DEF Prepared, NoFields

LEMMA PreparedMore ==
  ASSUME NEW map, NEW given, NEW visited, Prepared(map, given, visited), NEW name
  PROVE  Prepared(HSet(map, Field(Canonical(name), given[name])), given, visited \cup {name})
<1> DEFINE key == Canonical(name)
           new == HSet(map, Field(key, given[name]))
           names(seen) == {Canonical(from) : from \in seen}
<1>1. /\ DOMAIN map = names(visited)
      /\ \A k \in DOMAIN map : \E from \in visited : Canonical(from) = k /\ map[k] = given[from]
  BY DEF Prepared
<1>2. /\ new = [k \in DOMAIN map \cup {key} |-> new[k]]
      /\ new[key] = given[name]
      /\ \A k \in DOMAIN map \ {key} : new[k] = map[k]
  BY DEF HSet, Field
<1>3. DOMAIN map \cup {key} = names(visited \cup {name})
  BY <1>1
<1> HIDE DEF new
<1>4. ASSUME NEW k \in DOMAIN new
      PROVE  \E from \in visited \cup {name} : Canonical(from) = k /\ new[k] = given[from]
  <2>1. k \in DOMAIN map \cup {key}
    BY <1>2
  <2>2. CASE k = key
    BY <1>2, <2>2
  <2>3. CASE k # key
    BY <1>1, <1>2, <2>1, <2>3
  <2> QED
    BY <2>2, <2>3
<1>5. Prepared(new, given, visited \cup {name})
  BY <1>2, <1>3, <1>4 DEF Prepared
<1> QED
  BY <1>5 DEF new

-----------------------------------------------------------------------------
(* Every step *)

LEMMA GivenMap ==
  ASSUME NEW given \in Given
  PROVE  IsMap(given, Names, Values)
  BY DEF Given, IsMap

LEMMA RunTriggerInv ==
  ASSUME BuildInv, RunTrigger
  PROVE  BuildInv'
<1>1. PICK given \in Given, original \in Values :
        payload' = original /\ vars' = HSet(given, Field(PayloadName, original))
  BY DEF RunTrigger
<1>2. /\ vpc' = "select" /\ builds' = NoFields /\ selected = {} /\ left = {}
      /\ UNCHANGED <<filters, selected, current, left, newVars>> /\ VariablesTypeOK
  BY DEF RunTrigger, BuildInv, VariablesTypeOK
<1>3. IsMap(vars', Names, Values)
  BY <1>1, GivenMap, PayloadCanonical, SetEntryMap
<1>4. PayloadName \in DOMAIN vars' /\ vars'[PayloadName] = payload'
  BY <1>1 DEF HSet, Field
<1> QED
  BY <1>1, <1>2, <1>3, <1>4 DEF BuildInv, VariablesTypeOK, NoFields

LEMMA RunCommandInv ==
  ASSUME BuildInv, RunCommand
  PROVE  BuildInv'
<1>1. PICK given \in Given : vars' = given
  BY DEF RunCommand
<1>2. /\ vpc' = "select" /\ builds' = NoFields /\ selected = {} /\ left = {}
      /\ payload' = NoValue /\ VariablesTypeOK
      /\ UNCHANGED <<filters, selected, current, left, newVars>>
  BY DEF RunCommand, BuildInv, VariablesTypeOK
<1>3. IsMap(vars', Names, Values)
  BY <1>1, GivenMap
<1> QED
  BY <1>2, <1>3 DEF BuildInv, VariablesTypeOK, NoFields

LEMMA GetTriggerPipelinesInv ==
  ASSUME BuildInv, GetTriggerPipelines
  PROVE  BuildInv'
<1>1. /\ vpc' = "run" /\ DOMAIN builds = {} /\ left = {} /\ selected' \subseteq Linked
      /\ UNCHANGED <<vars, payload, filters, current, left, newVars, builds>>
  BY DEF GetTriggerPipelines, BuildInv
<1>2. ASSUME NEW p \in selected' PROVE Passed(p)
  <2>1. p \in Linked /\ ~Rejected(filters[p], [name \in Names |-> Value(name)])
    BY <1>2 DEF GetTriggerPipelines
  <2>2. DOMAIN filters[p] \subseteq Names
    BY <2>1, TriggerFiltersAssumption DEF BuildInv, VariablesTypeOK, IsMap
  <2> QED
    BY <2>1, <2>2 DEF Rejected, Passed, Value
<1>3. \A p \in selected' \cup DOMAIN builds' : Passed(p)'
  BY <1>1, <1>2 DEF Passed
<1> QED
  BY <1>1, <1>3 DEF BuildInv, VariablesTypeOK

LEMMA RunPipelineInv ==
  ASSUME BuildInv, RunPipeline
  PROVE  BuildInv'
<1>1. PICK p \in selected : selected' = selected \ {p} /\ current' = p
  BY DEF RunPipeline
<1>2. /\ vpc' = "prepare" /\ left' = DOMAIN vars /\ newVars' = NoFields
      /\ UNCHANGED <<vars, payload, filters, builds>>
      /\ BuildInv /\ VariablesTypeOK
  BY DEF RunPipeline, BuildInv
<1>3. Prepared(newVars, vars, DOMAIN vars \ left)'
  <2>1. DOMAIN vars' \ left' = {}
    BY <1>2
  <2> QED
    BY <1>2, <2>1, PreparedNone
<1>4. VariablesTypeOK'
  BY <1>1, <1>2, NoFieldsMap DEF VariablesTypeOK, IsBuildMap
<1>5. \A q \in {current'} \cup selected' \cup DOMAIN builds' : Passed(q)'
  BY <1>1, <1>2 DEF BuildInv, Passed
<1>6. \A q \in DOMAIN builds' : Prepared(builds[q], vars, DOMAIN vars)'
  BY <1>2 DEF BuildInv
<1> QED
  BY <1>2, <1>3, <1>4, <1>5, <1>6 DEF BuildInv

LEMMA PreprocessVariableInv ==
  ASSUME BuildInv, PreprocessVariable
  PROVE  BuildInv'
<1>1. PICK name \in left :
        /\ newVars' = HSet(newVars, Field(Canonical(name), vars[name]))
        /\ left' = left \ {name}
  BY DEF PreprocessVariable
<1>2. /\ UNCHANGED <<vpc, vars, payload, filters, selected, current, builds>>
      /\ vpc = "prepare" /\ BuildInv /\ VariablesTypeOK
  BY DEF PreprocessVariable, BuildInv
<1>3. name \in DOMAIN vars /\ name \in Names /\ vars[name] \in Values
  BY <1>1, <1>2 DEF VariablesTypeOK, IsMap
<1>4. VariablesTypeOK'
  <2>1. IsBuildMap(newVars')
    BY <1>1, <1>2, <1>3, CanonicalNamed, SetEntryMap DEF VariablesTypeOK, IsBuildMap
  <2> QED
    BY <1>1, <1>2, <2>1 DEF VariablesTypeOK, IsBuildMap, IsMap
<1>5. Prepared(newVars, vars, DOMAIN vars \ left)'
  <2>1. Prepared(newVars, vars, DOMAIN vars \ left)
    BY <1>2 DEF BuildInv
  <2>2. Prepared(newVars', vars, (DOMAIN vars \ left) \cup {name})
    BY <1>1, <2>1, PreparedMore
  <2>3. (DOMAIN vars \ left) \cup {name} = DOMAIN vars' \ left'
    BY <1>1, <1>2, <1>3
  <2> QED
    BY <1>2, <2>2, <2>3
<1>6. \A q \in {current'} \cup selected' \cup DOMAIN builds' : Passed(q)'
  BY <1>2 DEF BuildInv, Passed
<1>7. \A q \in DOMAIN builds' : Prepared(builds[q], vars, DOMAIN vars)'
  BY <1>2 DEF BuildInv
<1> QED
  BY <1>2, <1>4, <1>5, <1>6, <1>7 DEF BuildInv

LEMMA StartBuildInv ==
  ASSUME BuildInv, StartBuild
  PROVE  BuildInv'
<1>1. /\ builds' = HSet(builds, Field(current, newVars)) /\ left = {} /\ vpc' = "run"
      /\ vpc = "prepare"
      /\ UNCHANGED <<vars, payload, filters, selected, current, left, newVars>>
      /\ BuildInv /\ VariablesTypeOK
  BY DEF StartBuild, BuildInv
<1>2. /\ DOMAIN builds' = DOMAIN builds \cup {current} /\ builds'[current] = newVars
      /\ \A p \in DOMAIN builds \ {current} : builds'[p] = builds[p]
  BY <1>1 DEF HSet, Field
<1>3. VariablesTypeOK'
  BY <1>1, <1>2 DEF VariablesTypeOK, IsBuildMap
<1>4. \A q \in DOMAIN builds' : Prepared(builds[q], vars, DOMAIN vars)'
  <2>1. Prepared(newVars, vars, DOMAIN vars)
    BY <1>1 DEF BuildInv
  <2> QED
    BY <1>1, <1>2, <2>1 DEF BuildInv
<1>5. \A q \in selected' \cup DOMAIN builds' : Passed(q)'
  BY <1>1, <1>2 DEF BuildInv, Passed
<1> QED
  BY <1>1, <1>3, <1>4, <1>5 DEF BuildInv

LEMMA RunEndsInv ==
  ASSUME BuildInv, RunEnds
  PROVE  BuildInv'
<1>1. /\ vpc' = "idle" /\ vars' = NoFields /\ payload' = NoValue /\ newVars' = NoFields
      /\ builds' = NoFields /\ selected = {} /\ left = {}
      /\ UNCHANGED <<filters, selected, current, left>> /\ VariablesTypeOK
  BY DEF RunEnds, BuildInv
<1>2. VariablesTypeOK'
  BY <1>1, NoFieldsMap DEF VariablesTypeOK, IsBuildMap, NoFields
<1> QED
  BY <1>1, <1>2 DEF BuildInv, NoFields

LEMMA BuildInit ==
  ASSUME VariablesInit
  PROVE  BuildInv
<1>1. VariablesTypeOK
  BY NoFieldsMap DEF VariablesInit, VariablesTypeOK, IsBuildMap, NoFields
<1> QED
  BY <1>1 DEF VariablesInit, BuildInv, NoFields

LEMMA BuildNext ==
  ASSUME BuildInv, [VariablesNext]_variableVars
  PROVE  BuildInv'
<1>1. CASE UNCHANGED variableVars
  BY <1>1 DEF variableVars, BuildInv, VariablesTypeOK, Passed
<1> QED
  BY <1>1, RunTriggerInv, RunCommandInv, GetTriggerPipelinesInv, RunPipelineInv,
     PreprocessVariableInv, StartBuildInv, RunEndsInv DEF VariablesNext

LEMMA BuildInvariant == VariablesSpec => []BuildInv
  BY BuildInit, BuildNext, PTL DEF VariablesSpec

-----------------------------------------------------------------------------
(* Theorems *)

\* The maps have names and values for entries, builds those of canonical names.
THEOREM VariablesTyped == VariablesSpec => []VariablesTypeOK
<1>1. BuildInv => VariablesTypeOK
  BY DEF BuildInv
<1> QED
  BY <1>1, BuildInvariant, PTL

\* A value in a build came under a name that becomes the one it has there.
LEMMA BuiltFrom ==
  ASSUME BuildInv, NEW p \in DOMAIN builds, NEW name \in DOMAIN builds[p]
  PROVE  \E from \in DOMAIN vars :
           /\ from \in Names /\ Canonical(from) = name /\ builds[p][name] = vars[from]
<1>1. Prepared(builds[p], vars, DOMAIN vars) /\ DOMAIN vars \subseteq Names
  BY DEF BuildInv, VariablesTypeOK, IsMap
<1> QED
  BY <1>1 DEF Prepared

LEMMA BuiltNames ==
  ASSUME BuildInv, NEW p \in DOMAIN builds
  PROVE  /\ DOMAIN builds[p] = {Canonical(from) : from \in DOMAIN vars}
         /\ builds[p] = [name \in {Canonical(from) : from \in DOMAIN vars} |-> builds[p][name]]
  BY DEF BuildInv, Prepared

\* Whatever the names and values and however many variables come with an event,
\* in whatever order each build visits them: the builds get the same map, unless
\* two variables of one canonical name have different values.
THEOREM AllBuiltAlike == VariablesSpec => []BuildsAlike
<1>1. ASSUME BuildInv PROVE BuildsAlike
  <2> SUFFICES ASSUME NEW p \in DOMAIN builds, NEW q \in DOMAIN builds,
                      \A name \in DOMAIN vars : ~Clashes(name)
               PROVE  builds[p] = builds[q]
    BY DEF BuildsAlike
  <2> DEFINE names == {Canonical(from) : from \in DOMAIN vars}
  <2>1. DOMAIN builds[p] = names /\ DOMAIN builds[q] = names
    BY <1>1, BuiltNames
  <2>2. ASSUME NEW name \in names PROVE builds[p][name] = builds[q][name]
    <3>1. PICK a \in DOMAIN vars : Canonical(a) = name /\ builds[p][name] = vars[a]
      BY <1>1, <2>1, BuiltFrom
    <3>2. PICK b \in DOMAIN vars : Canonical(b) = name /\ builds[q][name] = vars[b]
      BY <1>1, <2>1, BuiltFrom
    <3> QED
      BY <3>1, <3>2 DEF Clashes
  <2>3. builds[p] = [name \in names |-> builds[p][name]]
        /\ builds[q] = [name \in names |-> builds[q][name]]
    BY <1>1, BuiltNames
  <2> HIDE DEF names
  <2> QED
    BY <2>2, <2>3
<1> QED
  BY <1>1, BuildInvariant, PTL

\* .. every variable arrives, and nothing else does,
THEOREM AllVariablesArrive == VariablesSpec => []VariablesArrive
<1>1. ASSUME BuildInv PROVE VariablesArrive
  <2> SUFFICES ASSUME NEW p \in DOMAIN builds
               PROVE  /\ \A name \in DOMAIN vars : Canonical(name) \in DOMAIN builds[p]
                      /\ \A name \in DOMAIN builds[p] :
                           \E from \in DOMAIN vars :
                             name = Named(from.word) /\ builds[p][name] = vars[from]
    BY DEF VariablesArrive
  <2>1. \A name \in DOMAIN vars : Canonical(name) \in DOMAIN builds[p]
    BY <1>1, BuiltNames
  <2>2. ASSUME NEW name \in DOMAIN builds[p]
        PROVE  \E from \in DOMAIN vars :
                 name = Named(from.word) /\ builds[p][name] = vars[from]
    BY <1>1, BuiltFrom, CanonicalNamed
  <2> QED
    BY <2>1, <2>2
<1> QED
  BY <1>1, BuildInvariant, PTL

\* .. EVENT_PAYLOAD is the payload, although a variable of that name may come
\* with the event,
THEOREM PayloadsArrive == VariablesSpec => []PayloadArrives
<1>1. ASSUME BuildInv PROVE PayloadArrives
  <2> SUFFICES ASSUME payload # NoValue, NEW p \in DOMAIN builds
               PROVE  \/ builds[p][PayloadName] = payload
                      \/ \E name \in DOMAIN vars \ {PayloadName} : name.word = PayloadWord
    BY DEF PayloadArrives
  <2>1. PayloadName \in DOMAIN vars /\ vars[PayloadName] = payload
    BY <1>1 DEF BuildInv
  <2>2. PayloadName \in DOMAIN builds[p]
    BY <1>1, <2>1, BuiltNames, PayloadCanonical
  <2>3. PICK from \in DOMAIN vars :
          /\ from \in Names /\ Canonical(from) = PayloadName
          /\ builds[p][PayloadName] = vars[from]
    BY <1>1, <2>2, BuiltFrom
  <2>4. from.word = PayloadWord
    <3>1. Named(from.word) = Named(PayloadWord)
      BY <2>3, CanonicalNamed DEF PayloadName
    <3> QED
      BY <3>1 DEF Named
  <2> QED
    BY <2>1, <2>3, <2>4
<1> QED
  BY <1>1, BuildInvariant, PTL

\* .. and a pipeline is built with no value that its filter on that variable
\* rejects.
THEOREM AllFilteredAsBuilt == VariablesSpec => []FilteredAsBuilt
<1>1. ASSUME BuildInv PROVE FilteredAsBuilt
  <2> SUFFICES ASSUME NEW p \in DOMAIN builds, NEW name \in DOMAIN filters[p] \cap DOMAIN vars,
                      Rejects(filters[p][name], builds[p][Canonical(name)])
               PROVE  Clashes(name)
    BY DEF FilteredAsBuilt
  <2>1. ~Rejects(filters[p][name], vars[name])
    BY <1>1 DEF BuildInv, Passed
  <2>2. Canonical(name) \in DOMAIN builds[p]
    BY <1>1, BuiltNames
  <2>3. PICK from \in DOMAIN vars :
          Canonical(from) = Canonical(name) /\ builds[p][Canonical(name)] = vars[from]
    BY <1>1, <2>2, BuiltFrom
  <2> QED
    BY <2>1, <2>3 DEF Clashes
<1> QED
  BY <1>1, BuildInvariant, PTL
=============================================================================
