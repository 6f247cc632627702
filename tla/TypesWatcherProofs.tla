------------------------- MODULE TypesWatcherProofs -------------------------
(***************************************************************************)
(* No update of the file of event types is lost by the watcher, for any    *)
(* number of updates, as long as the file is watched when it changes.      *)
(***************************************************************************)
EXTENDS TypesWatcher, SequenceTheorems, TLAPS

\* While the callback runs, what it read is what the file holds, or an event of
\* the file waits: the writes that are de-duplicated are read by the callback
\* to come.
WatcherInv ==
  /\ WatcherTypeOK
  /\ watched => file # Missing
  /\ wpc = "add" => types = Load(file)
  /\ wpc \in {"load", "add"} => ~watched
  /\ wpc = "callback" => pending
  /\ wpc = "callback" /\ watched /\ loaded # Load(file) => queue # << >>
  /\ WatchedUpdatesNotLost

LEMMA WatcherInitInv ==
  ASSUME WatcherInit
  PROVE  WatcherInv
<1>1. WatcherTypeOK
  <2>1. 0 \in 0..MaxUpdates
    BY MaxUpdatesAssumption
  <2>2. << >> \in Seq({"Write", "Remove"})
    OBVIOUS
  <2> QED
    BY <2>1, <2>2 DEF WatcherInit, WatcherTypeOK, Contents
<1> QED
  BY <1>1 DEF WatcherInit, WatcherInv, Watching, WatchedUpdatesNotLost

LEMMA LoadType ==
  ASSUME NEW content
  PROVE  Load(content) \in Configs \cup {NoTypes}
  BY DEF Load

\* A change of a watched file queues an event.
LEMMA NotifyQueue ==
  ASSUME WatcherTypeOK, NEW event \in {"Write", "Remove"}, Notify(event)
  PROVE  /\ queue' \in Seq({"Write", "Remove"})
         /\ watched => queue' # << >>
         /\ queue # << >> => queue' # << >>
<1>1. queue \in Seq({"Write", "Remove"})
  BY DEF WatcherTypeOK
<1>2. Append(queue, event) \in Seq({"Write", "Remove"}) /\ Append(queue, event) # << >>
  BY <1>1, AppendProperties
<1> QED
  BY <1>1, <1>2 DEF Notify

\* An update of the file.
LEMMA FileInv ==
  ASSUME WatcherInv, "early" \notin Hazards, FileNext
  PROVE  WatcherInv'
<1>1. /\ Watching /\ UNCHANGED <<wpc, pending, loaded, types>>
      /\ updates' \in 0..MaxUpdates
  BY MaxUpdatesAssumption DEF FileNext, WriteFile, ReplaceFile, RemoveFile, CreateFile, Update,
     WatcherInv, WatcherTypeOK
<1>2. file' \in Contents
  BY DEF FileNext, WriteFile, ReplaceFile, RemoveFile, CreateFile, NewContents, Contents
<1>3. CASE WriteFile
  <2>1. /\ queue' \in Seq({"Write", "Remove"})
        /\ watched => queue' # << >>
        /\ watched' = watched
    BY <1>3, NotifyQueue DEF WriteFile, WatcherInv
  <2>2. file' # Missing
    BY <1>3, ConfigsAssumption DEF WriteFile, NewContents
  <2> QED
    BY <1>1, <1>2, <2>1, <2>2 DEF WatcherInv, WatcherTypeOK, Watching, WatchedUpdatesNotLost
<1>4. CASE ReplaceFile \/ RemoveFile
  <2>1. queue' \in Seq({"Write", "Remove"}) /\ ~watched' /\ watched' \in BOOLEAN
    BY <1>4, NotifyQueue DEF ReplaceFile, RemoveFile, WatcherInv
  <2> QED
    BY <1>1, <1>2, <2>1 DEF WatcherInv, WatcherTypeOK, Watching, WatchedUpdatesNotLost
<1>5. CASE CreateFile
  <2>1. UNCHANGED <<queue, watched>> /\ file = Missing
    BY <1>5 DEF CreateFile
  <2> QED
    BY <1>1, <1>2, <2>1 DEF WatcherInv, WatcherTypeOK, Watching, WatchedUpdatesNotLost
<1> QED
  BY <1>3, <1>4, <1>5 DEF FileNext
\* A step of NewEventProviderManager or of the watcher.
LEMMA WatcherStepInv ==
  ASSUME WatcherInv, WatcherStep
  PROVE  WatcherInv'
<1>1. CASE LoadFirst
  BY <1>1, LoadType DEF LoadFirst, fileVars, WatcherInv, WatcherTypeOK, Contents, Watching,
     WatchedUpdatesNotLost
<1>2. CASE WatchFile
  BY <1>2 DEF WatchFile, WatcherInv, WatcherTypeOK, Contents, Watching, WatchedUpdatesNotLost,
     Load
<1>3. CASE TakeRemove \/ TakeWrite
  <2>1. Tail(queue) \in Seq({"Write", "Remove"})
    BY <1>3, HeadTailProperties DEF TakeRemove, TakeWrite, WatcherInv, WatcherTypeOK
  <2>2. /\ wpc = "select" /\ queue' = Tail(queue) /\ pending' = TRUE
        /\ UNCHANGED <<file, updates, wpc, loaded, types>>
    BY <1>3 DEF TakeRemove, TakeWrite
  <2>3. watched' \in BOOLEAN /\ (watched' => file # Missing)
    <3>1. CASE TakeRemove
      BY <3>1, Zenon DEF TakeRemove
    <3>2. CASE TakeWrite
      BY <3>2 DEF TakeWrite, WatcherInv, WatcherTypeOK
    <3> QED
      BY <1>3, <3>1, <3>2
  <2>4. WatcherTypeOK'
    BY <2>1, <2>2, <2>3 DEF WatcherInv, WatcherTypeOK, Contents
  <2>5. WatchedUpdatesNotLost'
    BY <2>2 DEF WatchedUpdatesNotLost
  <2>6. file' = file /\ wpc' = "select"
    BY <2>2
  <2> QED
    BY <2>2, <2>4, <2>5, <2>6, <2>3 DEF WatcherInv
<1>4. CASE Tick
  BY <1>4, LoadType DEF Tick, fileVars, WatcherInv, WatcherTypeOK, Contents, Watching,
     WatchedUpdatesNotLost
<1>5. CASE Reload
  BY <1>5 DEF Reload, fileVars, WatcherInv, WatcherTypeOK, Contents, Watching,
     WatchedUpdatesNotLost, Load
<1> QED
  BY <1>1, <1>2, <1>3, <1>4, <1>5 DEF WatcherStep

LEMMA WatcherStutterInv ==
  ASSUME WatcherInv, UNCHANGED watcherVars
  PROVE  WatcherInv'
  BY DEF watcherVars, WatcherInv, WatcherTypeOK, Watching, WatchedUpdatesNotLost, Load

\* An update of the file that is watched leads to a reload that reads it, or
\* has been read: also when the file is removed for a while, or cannot be
\* parsed, as long as it did not change before it was watched.
THEOREM WatchedUpdatesSurvive ==
  ASSUME "early" \notin Hazards
  PROVE  WatcherSpec => [](WatcherTypeOK /\ WatchedUpdatesNotLost)
<1>1. WatcherInit => WatcherInv
  BY WatcherInitInv
<1>2. WatcherInv /\ [WatcherNext]_watcherVars => WatcherInv'
  BY FileInv, WatcherStepInv, WatcherStutterInv DEF WatcherNext
<1>3. WatcherInv => WatcherTypeOK /\ WatchedUpdatesNotLost
  BY DEF WatcherInv
<1> QED
  BY <1>1, <1>2, <1>3, PTL DEF WatcherSpec

\* Whatever happens to the file and whenever, the watcher's locals have their
\* types: what it takes for types is a configuration or the empty list.
THEOREM WatcherTyped == WatcherSpec => []WatcherTypeOK
<1>1. WatcherInit => WatcherTypeOK
  BY WatcherInitInv DEF WatcherInv
<1>2. ASSUME WatcherTypeOK, FileNext PROVE WatcherTypeOK'
  <2>1. ASSUME NEW event \in {"Write", "Remove"}, Notify(event)
        PROVE  queue' \in Seq({"Write", "Remove"})
    BY <1>2, <2>1, NotifyQueue
  <2>2. Update => updates' \in 0..MaxUpdates
    BY <1>2, MaxUpdatesAssumption DEF Update, WatcherTypeOK
  <2> QED
    BY <1>2, <2>1, <2>2 DEF FileNext, WriteFile, ReplaceFile, RemoveFile, CreateFile, Update,
       NewContents, WatcherTypeOK, Contents
<1>3. ASSUME WatcherTypeOK, WatcherStep PROVE WatcherTypeOK'
  <2>1. TakeRemove \/ TakeWrite => Tail(queue) \in Seq({"Write", "Remove"})
    BY <1>3, HeadTailProperties DEF TakeRemove, TakeWrite, WatcherTypeOK
  <2> QED
    BY <1>3, <2>1, LoadType DEF WatcherStep, LoadFirst, WatchFile, TakeRemove, TakeWrite, Tick,
       Reload, fileVars, WatcherTypeOK, Contents
<1>4. ASSUME WatcherTypeOK, UNCHANGED watcherVars PROVE WatcherTypeOK'
  BY <1>4 DEF watcherVars, WatcherTypeOK
<1> QED
  BY <1>1, <1>2, <1>3, <1>4, PTL DEF WatcherSpec, WatcherNext

-----------------------------------------------------------------------------
(* Without gaps the watch itself is not lost *)

\* While the file that is there is not watched, the event that tells of its
\* replacement waits, so that TakeRemove watches it again.
RewatchInv ==
  /\ WatcherTypeOK
  /\ file # Missing
  /\ wpc = "add" => types = Load(file)
  /\ Watching /\ ~watched => \E i \in 1..Len(queue) : queue[i] = "Remove"
  /\ wpc = "callback" => pending
  /\ wpc = "callback" /\ loaded # Load(file) => queue # << >>
  /\ UpdatesNotLost

LEMMA RewatchInit ==
  ASSUME WatcherInit
  PROVE  RewatchInv
<1>1. WatcherTypeOK
  BY WatcherInitInv DEF WatcherInv
<1> QED
  BY <1>1, ConfigsAssumption DEF WatcherInit, RewatchInv, Watching, UpdatesNotLost

LEMMA RewatchFile ==
  ASSUME RewatchInv, Hazards \cap {"early", "gap"} = {}, FileNext
  PROVE  RewatchInv'
<1>1. /\ Watching /\ UNCHANGED <<wpc, pending, loaded, types>>
      /\ updates' \in 0..MaxUpdates
  BY MaxUpdatesAssumption DEF FileNext, WriteFile, ReplaceFile, RemoveFile, CreateFile, Update,
     RewatchInv, WatcherTypeOK
<1>2. file' \in Contents /\ file' # Missing
  BY ConfigsAssumption DEF FileNext, WriteFile, ReplaceFile, RemoveFile, CreateFile,
     NewContents, Contents, RewatchInv
<1>3. queue \in Seq({"Write", "Remove"})
  BY DEF RewatchInv, WatcherTypeOK
<1>4. ASSUME NEW event \in {"Write", "Remove"}
      PROVE  /\ Append(queue, event) \in Seq({"Write", "Remove"})
             /\ Append(queue, event) # << >>
             /\ Len(Append(queue, event)) = Len(queue) + 1
             /\ \A i \in 1..Len(queue) : Append(queue, event)[i] = queue[i]
             /\ Append(queue, event)[Len(queue) + 1] = event
             /\ Len(queue) \in Nat
  BY <1>3, AppendProperties, LenProperties
<1>5. ~watched => queue # << >>
  <2>1. SUFFICES ASSUME ~watched, queue = << >> PROVE FALSE
    OBVIOUS
  <2>2. Len(queue) = 0
    BY <2>1
  <2> QED
    BY <1>1, <2>1, <2>2 DEF RewatchInv
<1>6. CASE WriteFile
  <2>1. queue' \in Seq({"Write", "Remove"}) /\ queue' # << >> /\ watched' = watched
    BY <1>3, <1>4, <1>5, <1>6 DEF WriteFile, Notify
  <2>2. ~watched' => \E i \in 1..Len(queue') : queue'[i] = "Remove"
    <3>1. ~watched' => queue' = queue
      BY <2>1, <1>6 DEF WriteFile, Notify
    <3> QED
      BY <1>1, <2>1, <3>1 DEF RewatchInv
  <2> QED
    BY <1>1, <1>2, <2>1, <2>2 DEF RewatchInv, WatcherTypeOK, Watching, UpdatesNotLost
<1>7. CASE ReplaceFile
  <2>1. queue' \in Seq({"Write", "Remove"}) /\ queue' # << >> /\ watched' \in BOOLEAN
    BY <1>3, <1>4, <1>5, <1>7 DEF ReplaceFile, Notify
  <2>2. \E i \in 1..Len(queue') : queue'[i] = "Remove"
    <3>1. CASE watched
      <4>1. queue' = Append(queue, "Remove")
        BY <1>7, <3>1 DEF ReplaceFile, Notify
      <4>2. Len(queue) + 1 \in 1..Len(queue') /\ queue'[Len(queue) + 1] = "Remove"
        BY <1>4, <4>1
      <4> QED
        BY <4>2
    <3>2. CASE ~watched
      BY <1>1, <1>7, <3>2 DEF ReplaceFile, Notify, RewatchInv
    <3> QED
      BY <3>1, <3>2
  <2> QED
    BY <1>1, <1>2, <2>1, <2>2 DEF RewatchInv, WatcherTypeOK, Watching, UpdatesNotLost
<1>8. ~RemoveFile /\ ~CreateFile
  BY DEF RemoveFile, CreateFile, RewatchInv
<1> QED
  BY <1>6, <1>7, <1>8 DEF FileNext

LEMMA RewatchStep ==
  ASSUME RewatchInv, WatcherStep
  PROVE  RewatchInv'
<1>1. CASE LoadFirst
  BY <1>1, LoadType DEF LoadFirst, fileVars, RewatchInv, WatcherTypeOK, Contents, Watching,
     UpdatesNotLost
<1>2. CASE WatchFile
  BY <1>2 DEF WatchFile, RewatchInv, WatcherTypeOK, Contents, Watching, UpdatesNotLost, Load
<1>3. CASE TakeRemove
  <2>1. Tail(queue) \in Seq({"Write", "Remove"})
    BY <1>3, HeadTailProperties DEF TakeRemove, RewatchInv, WatcherTypeOK
  <2> QED
    BY <1>3, <2>1 DEF TakeRemove, RewatchInv, WatcherTypeOK, Contents, Watching,
       UpdatesNotLost, Load
<1>4. CASE TakeWrite
  <2>1. /\ Tail(queue) \in Seq({"Write", "Remove"})
        /\ Len(Tail(queue)) = Len(queue) - 1
        /\ Len(queue) \in Nat
        /\ \A i \in 1..Len(Tail(queue)) : Tail(queue)[i] = queue[i + 1]
    BY <1>4, HeadTailProperties, LenProperties DEF TakeWrite, RewatchInv, WatcherTypeOK
  <2>2. queue[1] = "Write"
    BY <1>4 DEF TakeWrite
  <2>3. (\E i \in 1..Len(queue) : queue[i] = "Remove") =>
          \E i \in 1..Len(Tail(queue)) : Tail(queue)[i] = "Remove"
    <3>1. SUFFICES ASSUME NEW i \in 1..Len(queue), queue[i] = "Remove"
                   PROVE  \E j \in 1..Len(Tail(queue)) : Tail(queue)[j] = "Remove"
      OBVIOUS
    <3>2. i - 1 \in 1..Len(Tail(queue)) /\ Tail(queue)[i - 1] = "Remove"
      BY <2>1, <2>2, <3>1
    <3> QED
      BY <3>2
  <2> QED
    BY <1>4, <2>1, <2>3 DEF TakeWrite, RewatchInv, WatcherTypeOK, Contents, Watching,
       UpdatesNotLost, Load
<1>5. CASE Tick
  BY <1>5, LoadType DEF Tick, fileVars, RewatchInv, WatcherTypeOK, Contents, Watching,
     UpdatesNotLost
<1>6. CASE Reload
  BY <1>6 DEF Reload, fileVars, RewatchInv, WatcherTypeOK, Contents, Watching,
     UpdatesNotLost, Load
<1> QED
  BY <1>1, <1>2, <1>3, <1>4, <1>5, <1>6 DEF WatcherStep

\* With a file that is always there, and that did not change before it was
\* watched, no update is lost at all: writes that come together, replacements
\* that drop the watch, and changes under the callback included.
THEOREM UpdatesSurvive ==
  ASSUME Hazards \cap {"early", "gap"} = {}
  PROVE  WatcherSpec => []UpdatesNotLost
<1>1. WatcherInit => RewatchInv
  BY RewatchInit
<1>2. RewatchInv /\ [WatcherNext]_watcherVars => RewatchInv'
  <2>1. ASSUME RewatchInv, UNCHANGED watcherVars PROVE RewatchInv'
    BY <2>1 DEF watcherVars, RewatchInv, WatcherTypeOK, Watching, UpdatesNotLost, Load
  <2> QED
    BY <2>1, RewatchFile, RewatchStep DEF WatcherNext
<1>3. RewatchInv => UpdatesNotLost
  BY DEF RewatchInv
<1> QED
  BY <1>1, <1>2, <1>3, PTL DEF WatcherSpec

-----------------------------------------------------------------------------
(* The types, seen by who reads them under the lock *)

\* Whatever happens to the file, and even when it changes before it is watched
\* or cannot be parsed: the types are loaded before the lock is there to be
\* taken, they change while the watcher holds it, and what replaces them is one
\* configuration as a whole or the empty list.
THEOREM TypesChangeUnderLock == WatcherSpec => TheTypes!EventTypesSpec
<1>1. WatcherInit => TheTypes!EventTypesInit
  BY DEF WatcherInit, TheTypes!EventTypesInit
<1>2. ASSUME WatcherTypeOK, WatcherNext
      PROVE  TheTypes!TypesStep \/ UNCHANGED TheTypes!typesVars
  <2>1. CASE FileNext
    BY <2>1 DEF FileNext, WriteFile, ReplaceFile, RemoveFile, CreateFile, Update,
       TheTypes!typesVars
  <2>2. CASE LoadFirst
    BY <2>2, LoadType DEF LoadFirst, TheTypes!TypesStep, TheTypes!FirstLoad,
       TheTypes!TypesLists
  <2>3. CASE WatchFile \/ TakeRemove \/ TakeWrite
    BY <2>3 DEF WatchFile, TakeRemove, TakeWrite, TheTypes!typesVars
  <2>4. CASE Tick
    BY <2>4 DEF Tick, TheTypes!TypesStep, TheTypes!BeginReload
  <2>5. CASE Reload
    BY <1>2, <2>5 DEF Reload, WatcherTypeOK, TheTypes!TypesStep, TheTypes!EndReload,
       TheTypes!TypesLists
  <2> QED
    BY <1>2, <2>1, <2>2, <2>3, <2>4, <2>5 DEF WatcherNext, WatcherStep
<1>3. ASSUME UNCHANGED watcherVars PROVE UNCHANGED TheTypes!typesVars
  BY <1>3 DEF watcherVars, TheTypes!typesVars
<1>4. WatcherTypeOK /\ [WatcherNext]_watcherVars => [TheTypes!TypesStep]_TheTypes!typesVars
  BY <1>2, <1>3
<1> QED
  BY <1>1, <1>4, WatcherTyped, PTL DEF WatcherSpec, TheTypes!EventTypesSpec
=============================================================================
