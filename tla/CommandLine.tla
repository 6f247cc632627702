---------------------------- MODULE CommandLine ----------------------------
(***************************************************************************)
(* The commands of hermes (trigger, trigger-event and run, src/cmd) next   *)
(* to its server.  A command is a process of its own that works on the     *)
(* same Redis, with the functions the handlers of the server call; it ends *)
(* with its one call and may be killed at any moment.                      *)
(*                                                                         *)
(* Here one process is at work at a time, so that a crash is that of the   *)
(* server or of the command that is running.  (Operations that overlap are *)
(* those of Hermes.)                                                       *)
(***************************************************************************)
EXTENDS Hermes

VARIABLE command  \* the process at work is a command

commandLineVars == <<vars, command>>

\* What is at work on triggers, on events and on normalized events.
Busy ==
  {<<"trigger", r>> : r \in {s \in TriggerRequests : pc[s] # "idle"}}
    \cup {<<"event", r>> : r \in {s \in EventRequests : epc[s] # "idle"}}
    \cup {<<"run", r>> : r \in {s \in RunRequests : rpc[s] # "idle"}}

-----------------------------------------------------------------------------
(* hermes trigger list, create, delete *)

TriggerCommandArrives(r) ==
  \/ GetEventTriggers(r)
  \/ GetPipelineTriggers(r)
  \/ CreateTrigger(r)
  \/ DeleteTrigger(r)

-----------------------------------------------------------------------------
(* hermes trigger-event list, get, create, delete *)

\* Their context has no public flag: public events are those of the public
\* account, the default of --account.
EventCommandArrives(r) ==
  \/ GetEvents(r) /\ ~ereq'[r].public
  \/ GetEvent(r)
  \/ CreateEvent(r)
  \/ DeleteEvent(r)

\* deleteEvent makes its store without an event provider: when the deletion is
\* committed, the call of UnsubscribeFromEvent ends the process.
CommandDeleteEventExec(r) ==
  /\ epc[r] = "delete exec"
  /\ RemoveEvent(ereq[r].event)
  /\ \/ EventReturn(r, "reset")
     \/ "redis" \in EventFaults /\ EventReturn(r, "error")
  /\ UNCHANGED subscribed

EventCommandStep(r) ==
  \/ epc[r] # "delete exec" /\ EventStep(r)
  \/ CommandDeleteEventExec(r)
  \/ epc[r] = "delete exec" /\ EventRedisError(r)

-----------------------------------------------------------------------------
(* hermes run *)

\* The pipelines are read first, with no secret asked for ..
RunCommandArrives(r) ==
  /\ rpc[r] = "idle"
  /\ \E event \in NormalizedEvent :
       /\ rreq' = [rreq EXCEPT ![r] = event]
       /\ rpc' = [rpc EXCEPT ![r] = "trigger exists"]
       /\ rreply' = [rreply EXCEPT ![r] = "none"]
  /\ UNCHANGED <<redis, unread, selected, ran>>

CommandTriggerExists(r) ==
  /\ rpc[r] = "trigger exists"
  /\ RunGoto(r, IF triggers[rreq[r].event] # {} THEN "range" ELSE "event exists")
  /\ UNCHANGED redis

CommandFiltersDone(r) ==
  /\ rpc[r] = "filters"
  /\ unread[r] = {}
  /\ RunGoto(r, "event exists")
  /\ UNCHANGED redis

\* .. then the event, for the account to run them in.
CommandGetEvent(r) ==
  /\ rpc[r] = "event get"
  /\ IF EventExists(rreq[r].event) THEN RunGoto(r, "run") ELSE RunReturn(r, "not found")
  /\ UNCHANGED redis

RunCommandStep(r) ==
  \/ CommandTriggerExists(r)
  \/ RunRange(r)
  \/ RunFilters(r)
  \/ CommandFiltersDone(r)
  \/ RunGetEventExists(r)
  \/ CommandGetEvent(r)
  \/ RunPipeline(r)
  \/ RunDone(r)
  \/ RunRedisError(r)

-----------------------------------------------------------------------------
CommandArrives ==
  \/ /\ \E r \in TriggerRequests : TriggerCommandArrives(r)
     /\ UNCHANGED <<subscribed, eventLocals, runLocals>>
  \/ /\ \E r \in EventRequests : EventCommandArrives(r)
     /\ UNCHANGED <<cfapi, triggerLocals, runLocals>>
  \/ /\ \E r \in RunRequests : RunCommandArrives(r)
     /\ UNCHANGED <<cfapi, subscribed, triggerLocals, eventLocals>>

CommandStep ==
  \/ /\ \E r \in TriggerRequests : TriggerStep(r)
     /\ UNCHANGED <<subscribed, eventLocals, runLocals>>
  \/ /\ \E r \in EventRequests : EventCommandStep(r)
     /\ UNCHANGED <<cfapi, triggerLocals, runLocals>>
  \/ /\ \E r \in RunRequests : RunCommandStep(r)
     /\ UNCHANGED <<cfapi, subscribed, triggerLocals, eventLocals>>

PipelineGone ==
  \E p \in Pipelines : PipelineDeleted(p) /\ UNCHANGED <<subscribed, eventLocals, runLocals>>

CommandLineNext ==
  \/ ~command /\ HermesNext /\ command' = FALSE
  \/ Busy = {} /\ CommandArrives /\ command' = TRUE
  \/ /\ command
     /\ CommandStep \/ Crash \/ PipelineGone
     /\ command' = (Busy' # {})

OneAtATime == \A r, s \in Busy : r = s

CommandLineInit == HermesInit /\ command = FALSE

CommandLineSpec ==
  /\ CommandLineInit
  /\ [][CommandLineNext /\ OneAtATime']_commandLineVars
=============================================================================
