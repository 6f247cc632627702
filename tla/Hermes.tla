------------------------------- MODULE Hermes -------------------------------
(***************************************************************************)
(* The trigger manager: the handlers of triggers, of events and of         *)
(* normalized events at work on one Redis, in one process.  No lock and no *)
(* WATCH keeps a handler's reads and its transaction together.             *)
(***************************************************************************)
EXTENDS Triggers, Events, Runs

vars == <<redis, cfapi, subscribed, triggerLocals, eventLocals, runLocals>>

HermesTypeOK == TriggersTypeOK /\ EventsTypeOK /\ RunsTypeOK

\* Redis is empty when the first handler starts.
HermesInit ==
  /\ RedisEmpty
  /\ cfapi = Pipelines
  /\ subscribed = [e \in Events |-> NoEvent]
  /\ TriggerLocalsInit /\ EventLocalsInit /\ RunLocalsInit

\* The process ends: no handler survives, Redis and the services do.
Crash ==
  /\ "crash" \in TriggerFaults \cap EventFaults \cap RunFaults
  /\ TriggersReset /\ EventsReset /\ RunsReset
  /\ UNCHANGED <<redis, cfapi, subscribed>>

HermesNext ==
  \/ /\ \E r \in TriggerRequests : TriggerArrives(r) \/ TriggerStep(r)
     /\ UNCHANGED <<subscribed, eventLocals, runLocals>>
  \/ /\ \E r \in EventRequests : EventArrives(r) \/ EventStep(r)
     /\ UNCHANGED <<cfapi, triggerLocals, runLocals>>
  \/ /\ RunsNext
     /\ UNCHANGED <<cfapi, subscribed, triggerLocals, eventLocals>>
  \/ /\ \E p \in Pipelines : PipelineDeleted(p)
     /\ UNCHANGED <<subscribed, eventLocals, runLocals>>
  \/ Crash

HermesSpec == HermesInit /\ [][HermesNext]_vars

-----------------------------------------------------------------------------
(* Properties *)

\* A normalized event is answered whatever happens to its event and triggers
\* meanwhile: every linked pipeline is tried and the handler returns.
RunsAnswered == \A r \in RunRequests : rpc[r] # "idle" ~> rpc[r] = "idle"
=============================================================================
