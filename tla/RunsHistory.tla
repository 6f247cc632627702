----------------------------- MODULE RunsHistory -----------------------------
(***************************************************************************)
(* Hermes with the history of each normalized event: the pipelines that    *)
(* were linked to it at every moment since it arrived, those that were due *)
(* to run (linked, with no filter rejecting it) at every moment and at     *)
(* some moment, and the secrets the event has had.                         *)
(***************************************************************************)
EXTENDS Hermes

VARIABLES
  linkedAlways, linkedEver,  \* pipelines linked to the event
  dueAlways, dueEver,        \* pipelines the event is due to run
  secretsEver                \* secrets of the event

runHistory == <<linkedAlways, linkedEver, dueAlways, dueEver, secretsEver>>

LinkedTo(e) == triggers[e]

Due(event) ==
  {p \in triggers[event.event] : ~Rejected(filters[<<event.event, p>>], event.vars)}

SecretsOf(e) == {events[e]} \ {NoEvent}

\* Redis may hold any events and triggers when the first request arrives.
RunHistoryInit ==
  /\ RedisFilled
  /\ cfapi = Pipelines
  /\ subscribed = [e \in Events |-> IF e \in AlwaysSubscribed THEN events[e] ELSE NoEvent]
  /\ TriggerLocalsInit /\ EventLocalsInit /\ RunLocalsInit
  /\ linkedAlways = [r \in RunRequests |-> {}]
  /\ linkedEver = [r \in RunRequests |-> {}]
  /\ dueAlways = [r \in RunRequests |-> {}]
  /\ dueEver = [r \in RunRequests |-> {}]
  /\ secretsEver = [r \in RunRequests |-> {}]

\* The value of a history when the request arrives, and one step later.
Recorded(r, start, later) ==
  IF rpc'[r] = "idle" THEN {} ELSE IF rpc[r] = "idle" THEN start ELSE later

RecordRuns ==
  /\ linkedAlways' = [r \in RunRequests |->
       Recorded(r, LinkedTo(rreq'[r].event),
                linkedAlways[r] \cap LinkedTo(rreq[r].event)')]
  /\ linkedEver' = [r \in RunRequests |->
       Recorded(r, LinkedTo(rreq'[r].event),
                linkedEver[r] \cup LinkedTo(rreq[r].event)')]
  /\ dueAlways' = [r \in RunRequests |->
       Recorded(r, Due(rreq'[r]), dueAlways[r] \cap Due(rreq[r])')]
  /\ dueEver' = [r \in RunRequests |->
       Recorded(r, Due(rreq'[r]), dueEver[r] \cup Due(rreq[r])')]
  /\ secretsEver' = [r \in RunRequests |->
       Recorded(r, SecretsOf(rreq'[r].event),
                secretsEver[r] \cup SecretsOf(rreq[r].event)')]

RunHistoryNext == HermesNext /\ RecordRuns

RunHistorySpec == RunHistoryInit /\ [][RunHistoryNext]_<<vars, runHistory>>

\* Only the handlers of normalized events need to be scheduled fairly.
RunHistoryFairSpec ==
  /\ RunHistorySpec
  /\ \A r \in RunRequests :
       WF_<<vars, runHistory>>(/\ RunStep(r)
                               /\ UNCHANGED <<cfapi, subscribed, triggerLocals, eventLocals>>
                               /\ RecordRuns)

RunReplies(r, result) == rpc[r] # "idle" /\ rpc'[r] = "idle" /\ rreply'[r] = result

\* A pipeline is run for a normalized event only if the event's sender knew a
\* secret the event had while the request was served.
RunsNeedSecret ==
  \A r \in RunRequests : ran[r] # {} => rreq[r].secret \in secretsEver[r]

\* Answering 200 with a valid secret, the handler has run every pipeline that
\* was due all along, and none that was never linked, whatever was linked,
\* unlinked and deleted between its reads.
RunsBounded ==
  [][\A r \in RunRequests :
       /\ rpc[r] \in {"trigger exists", "run"}
       /\ RunReplies(r, "ok")
       => dueAlways[r] \subseteq ran[r] /\ ran[r] \subseteq linkedEver[r]]_<<vars, runHistory>>

\* Filters hold for every pipeline that stays linked: it runs only if it was
\* due at some moment.
StayingLinksAreFiltered ==
  \A r \in RunRequests : ran[r] \cap linkedAlways[r] \subseteq dueEver[r]
=============================================================================
