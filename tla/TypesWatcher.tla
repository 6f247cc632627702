---------------------------- MODULE TypesWatcher ----------------------------
(***************************************************************************)
(* The configuration of event types and its reload: the file watcher of    *)
(* pkg/util/watcher.go and EventProviderManager of                         *)
(* pkg/provider/discovery.go.  The file is a mounted ConfigMap: an update  *)
(* replaces it, and the watch of a replaced file is gone with it.          *)
(*                                                                         *)
(* The file system and fsnotify are external.  Events that arrive while    *)
(* the watcher is busy wait in the queue of inotify.                       *)
(***************************************************************************)
EXTENDS Naturals, Sequences

CONSTANTS
  Configs,    \* configurations that can be parsed
  Broken,     \* the content of a file that cannot be parsed
  Missing,    \* the content of a file that is not there
  NoTypes,    \* the empty list of types
  Hazards,    \* "early": the file changes before it is watched
              \* "gap": the file is absent for a while when it is updated
              \* "broken": the file holds something that cannot be parsed
  MaxUpdates  \* bound on the number of changes of the file

ASSUME ConfigsAssumption ==
  /\ Configs # {}
  /\ Broken \notin Configs /\ Missing \notin Configs /\ NoTypes \notin Configs
  /\ Broken # Missing
ASSUME HazardsAssumption == Hazards \subseteq {"early", "gap", "broken"}
ASSUME MaxUpdatesAssumption == MaxUpdates \in Nat

VARIABLES
  file,     \* content of the file
  updates,  \* changes of the file so far
  watched,  \* the file that is there now is watched
  queue,    \* file events not yet taken by the watcher
  wpc,      \* what NewEventProviderManager, then the watcher does next
  pending,  \* lastWriteEvent # nil
  loaded,   \* result of loadEventHandlerTypes in the callback
  types     \* eventTypes of the manager

fileVars == <<file, updates, queue, watched>>
watcherVars == <<file, updates, watched, queue, wpc, pending, loaded, types>>

Contents == Configs \cup {Missing} \cup {Broken}

WatcherTypeOK ==
  /\ file \in Contents
  /\ updates \in 0..MaxUpdates
  /\ watched \in BOOLEAN
  /\ queue \in Seq({"Write", "Remove"})
  /\ wpc \in {"load", "add", "select", "callback"}
  /\ pending \in BOOLEAN
  /\ loaded \in Configs \cup {NoTypes}
  /\ types \in Configs \cup {NoTypes}

\* loadEventHandlerTypes: no types when the file cannot be read or parsed.
Load(content) == IF content \in Configs THEN content ELSE NoTypes

WatcherInit ==
  /\ file \in Configs
  /\ updates = 0
  /\ watched = FALSE
  /\ queue = << >>
  /\ wpc = "load"
  /\ pending = FALSE
  /\ loaded = NoTypes
  /\ types = NoTypes

-----------------------------------------------------------------------------
(* The file *)

Watching == wpc \in {"select", "callback"}

Update ==
  /\ updates < MaxUpdates
  /\ updates' = updates + 1
  /\ Watching \/ "early" \in Hazards
  /\ UNCHANGED <<wpc, pending, loaded, types>>

\* inotify queues an event of the watched file.
Notify(event) == queue' = IF watched THEN Append(queue, event) ELSE queue

NewContents == Configs \cup (IF "broken" \in Hazards THEN {Broken} ELSE {})

WriteFile ==
  /\ file # Missing
  /\ Update
  /\ file' \in NewContents
  /\ Notify("Write")
  /\ UNCHANGED watched

\* Another file takes the place of this one at once, as Kubernetes does it.
ReplaceFile ==
  /\ file # Missing
  /\ Update
  /\ file' \in NewContents
  /\ Notify("Remove")
  /\ watched' = FALSE

RemoveFile ==
  /\ "gap" \in Hazards
  /\ file # Missing
  /\ Update
  /\ file' = Missing
  /\ Notify("Remove")
  /\ watched' = FALSE

CreateFile ==
  /\ file = Missing
  /\ Update
  /\ file' \in NewContents
  /\ UNCHANGED <<queue, watched>>

-----------------------------------------------------------------------------
(* NewEventProviderManager *)

\* The types are loaded first ..
LoadFirst ==
  /\ wpc = "load"
  /\ types' = Load(file)
  /\ wpc' = "add"
  /\ UNCHANGED <<fileVars, pending, loaded>>

\* .. then WatchFile adds the watch, ignoring an error, and starts run.
WatchFile ==
  /\ wpc = "add"
  /\ watched' = (file # Missing)
  /\ wpc' = "select"
  /\ UNCHANGED <<file, updates, queue, pending, loaded, types>>

-----------------------------------------------------------------------------
(* FileWatcher.run *)

\* As TakeRemove, with the file not watched again.
TakeRemoveOnce ==
  /\ wpc = "select" /\ queue # << >> /\ Head(queue) = "Remove"
  /\ queue' = Tail(queue)
  /\ pending' = TRUE
  /\ UNCHANGED <<file, updates, watched, wpc, loaded, types>>

\* The removed file is watched again under its name; an error is ignored.
TakeRemove ==
  /\ wpc = "select" /\ queue # << >> /\ Head(queue) = "Remove"
  /\ queue' = Tail(queue)
  /\ watched' = (file # Missing)
  /\ pending' = TRUE
  /\ UNCHANGED <<file, updates, wpc, loaded, types>>

TakeWrite ==
  /\ wpc = "select" /\ queue # << >> /\ Head(queue) = "Write"
  /\ queue' = Tail(queue)
  /\ pending' = TRUE
  /\ UNCHANGED <<file, updates, watched, wpc, loaded, types>>

\* As Tick, with what was read taken for types although it cannot be parsed.
TickUnparsed ==
  /\ wpc = "select"
  /\ pending
  /\ loaded' = file
  /\ wpc' = "callback"
  /\ UNCHANGED <<fileVars, pending, types>>

\* As Tick, with the types replaced before the lock is taken.
TickUnlocked ==
  /\ wpc = "select"
  /\ pending
  /\ loaded' = Load(file)
  /\ types' = loaded'
  /\ wpc' = "callback"
  /\ UNCHANGED <<fileVars, pending>>

\* The callback reads the file with the lock of the manager held ..
Tick ==
  /\ wpc = "select"
  /\ pending
  /\ loaded' = Load(file)
  /\ wpc' = "callback"
  /\ UNCHANGED <<fileVars, pending, types>>

\* As Reload, with the events that came meanwhile taken for handled.
ReloadDrain ==
  /\ wpc = "callback"
  /\ types' = loaded
  /\ pending' = FALSE
  /\ queue' = << >>
  /\ wpc' = "select"
  /\ UNCHANGED <<file, updates, watched, loaded>>

\* .. and replaces the types by what it read, an error notwithstanding.
Reload ==
  /\ wpc = "callback"
  /\ types' = loaded
  /\ pending' = FALSE
  /\ wpc' = "select"
  /\ UNCHANGED <<fileVars, loaded>>

-----------------------------------------------------------------------------
FileNext == WriteFile \/ ReplaceFile \/ RemoveFile \/ CreateFile

WatcherStep == LoadFirst \/ WatchFile \/ TakeRemove \/ TakeWrite \/ Tick \/ Reload

WatcherNext == FileNext \/ WatcherStep

WatcherSpec == WatcherInit /\ [][WatcherNext]_watcherVars

\* select takes a case that is ready: with events coming to an end the ticker
\* gets its turn.
WatcherFairSpec == WatcherSpec /\ WF_watcherVars(WatcherStep)

-----------------------------------------------------------------------------
(* Properties *)

\* With no hazard, while the manager has types that are not those of the file,
\* something in the watcher will lead to a reload: no update falls between the
\* events, the de-duplication of writes and the reads of the callback.
UpdatesNotLost ==
  /\ Watching
  /\ types # Load(file)
  => pending \/ queue # << >>

\* The same for the file that is watched, although it may be absent for a while
\* or hold something that cannot be parsed: as long as its watch is not lost,
\* no update of it is.
WatchedUpdatesNotLost ==
  /\ Watching /\ watched
  /\ types # Load(file)
  => pending \/ queue # << >>

\* "Watch the file for modification and update the config manager with the new
\* config when it's available" (pkg/provider/discovery.go:135): when the file,
\* always there, no longer changes, the types become those of the file.
EventuallyCurrent == [](file # Missing) => <>[](types = Load(file))

\* The watcher implements the types that requests read under the lock: they are
\* loaded first, replaced by one configuration as a whole while the lock is
\* held, and the lock is held for the time of a reload only.
TheTypes == INSTANCE EventTypes WITH
  lock <- IF wpc = "load" THEN "new" ELSE IF wpc = "callback" THEN "held" ELSE "free"

ImplementsEventTypes == TheTypes!EventTypesFairSpec
=============================================================================
