--------------------------- MODULE TriggersHistory ---------------------------
(***************************************************************************)
(* Triggers with the history of each request: what was linked at every     *)
(* moment since the request arrived, and what was linked at some moment.   *)
(* The handlers read Redis one command at a time, so what they return is   *)
(* not the state of any one moment; it lies between these two sets.        *)
(***************************************************************************)
EXTENDS Triggers

VARIABLES
  always,  \* links that existed all along since the request arrived
  ever     \* links that existed at some moment since the request arrived

historyVars == <<triggerVars, always, ever>>

HistoryInit ==
  /\ TriggersInit
  /\ always = [r \in TriggerRequests |-> {}]
  /\ ever = [r \in TriggerRequests |-> {}]

Record ==
  /\ always' = [r \in TriggerRequests |->
                  IF pc'[r] = "idle" THEN {}
                  ELSE IF pc[r] = "idle" THEN Links
                  ELSE always[r] \cap Links']
  /\ ever' = [r \in TriggerRequests |->
                IF pc'[r] = "idle" THEN {}
                ELSE IF pc[r] = "idle" THEN Links
                ELSE ever[r] \cup Links']

HistoryNext == TriggersNext /\ Record

HistorySpec == HistoryInit /\ [][HistoryNext]_historyVars

\* A handler whose calls are answered goes on: goroutines are scheduled
\* fairly.  Nothing obliges requests to arrive or the environment to act.
HistoryFairSpec ==
  /\ HistorySpec
  /\ \A r \in TriggerRequests : WF_historyVars(TriggerStep(r) /\ Record)

Replies(r, op, result) ==
  /\ pc[r] # "idle" /\ req[r].op = op
  /\ pc'[r] = "idle" /\ reply'[r] = result

\* The triggers a listing asks for: those of its pipeline, of the events its URI
\* matches as a pattern (cmd/trigger.go calls it a filter) or all, as far as the
\* account may see them.
Asked(r, links) ==
  {link \in links :
     /\ EventAccount[link[1]] \in {req[r].account, Public}
     /\ req[r].op \in {"GetPipelineTriggers", "DeleteAllTriggersByPipeline"}
          => link[2] = req[r].pipeline
     /\ req[r].op = "GetEventTriggers" => link[1] \in Globs[req[r].event]}

\* A listing misses no trigger that existed while it ran and lists none that did
\* not, whatever is linked and unlinked between its reads.
Bounded(r) ==
  /\ Asked(r, always[r]) \subseteq listing[r]
  /\ listing[r] \subseteq Asked(r, ever[r])

\* GetPipelineTriggers reads the set of events, then the filters of each.
ListingBounded ==
  [][\A r \in TriggerRequests : Replies(r, "GetPipelineTriggers", "ok") => Bounded(r)]_historyVars

\* GetEventTriggers reads the keys of the account, then the public ones, then
\* the set of pipelines of each: triggers of other accounts stay hidden, and of
\* the account's own those of events that the URI asked for does not match.
EventTriggersBounded ==
  [][\A r \in TriggerRequests :
       Replies(r, "GetEventTriggers", "ok") \/ Replies(r, "GetTriggers", "ok")
         => Bounded(r)]_historyVars

\* When DeleteAllTriggersByPipeline answers 200, and Redis executed what it
\* was sent, what the owner of the pipeline still sees linked to it was linked
\* anew while the request ran: the loop over an old listing skips nothing.
DeleteAllComplete ==
  [][\A r \in TriggerRequests :
       /\ Replies(r, "DeleteAllTriggersByPipeline", "ok")
       /\ PipelineAccount[req[r].pipeline] = req[r].account
       /\ "redis" \notin TriggerFaults
       => Asked(r, always[r]) = {}]_historyVars
=============================================================================
