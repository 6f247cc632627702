----------------------------- MODULE EventTypes -----------------------------
(***************************************************************************)
(* What EventProviderManager of pkg/provider/discovery.go promises about   *)
(* its event types: they are loaded before anything is served and replaced *)
(* as a whole, by the content of some configuration, while the lock is     *)
(* held that every reader takes.                                           *)
(***************************************************************************)
CONSTANTS
  Configs,  \* configurations that can be parsed
  NoTypes   \* the empty list of types

VARIABLES
  types,    \* eventTypes of the manager
  lock      \* its mutex: "new" before the manager is made, "held" by the
            \* callback of the watcher, or "free"

typesVars == <<types, lock>>

TypesLists == Configs \cup {NoTypes}

EventTypesTypeOK ==
  /\ types \in TypesLists
  /\ lock \in {"new", "free", "held"}

EventTypesInit == types = NoTypes /\ lock = "new"

\* NewEventProviderManager: nothing else runs yet.
FirstLoad ==
  /\ lock = "new"
  /\ types' \in TypesLists
  /\ lock' = "free"

\* The callback takes the lock, reads the file ..
BeginReload ==
  /\ lock = "free"
  /\ lock' = "held"
  /\ UNCHANGED types

\* .. and replaces the types by what it read, an error notwithstanding.
EndReload ==
  /\ lock = "held"
  /\ types' \in TypesLists
  /\ lock' = "free"

TypesStep == FirstLoad \/ BeginReload \/ EndReload

EventTypesSpec == EventTypesInit /\ [][TypesStep]_typesVars

\* Files are read in the end: no one waits for the types for ever.
EventTypesFairSpec ==
  EventTypesSpec /\ WF_typesVars(FirstLoad) /\ WF_typesVars(EndReload)
=============================================================================
