---------------------------- MODULE TriggerLinks ----------------------------
(***************************************************************************)
(* What the triggers are to a user of the trigger manager: a set of links  *)
(* between events and pipelines, each with filters.  A link is made and    *)
(* removed in one step, together with its filters, and joins an event to   *)
(* a pipeline of the event's account, or a public event to any pipeline.   *)
(***************************************************************************)
EXTENDS Hashes

CONSTANTS Public, Events, EventAccount, Pipelines, PipelineAccount,
          FilterMaps  \* functions from filter names to expressions

VARIABLES
  links,       \* pairs of an event and a pipeline
  linkFilters  \* the filters of every pair

linkVars == <<links, linkFilters>>

LinksInit ==
  /\ links = {}
  /\ linkFilters = [link \in Events \X Pipelines |-> NoFields]

\* CreateTrigger makes a link, or sets more filters of a link that exists.
Link(e, p, f) ==
  /\ EventAccount[e] \in {PipelineAccount[p], Public}
  /\ links' = links \cup {<<e, p>>}
  /\ linkFilters' = [linkFilters EXCEPT ![<<e, p>>] = HSet(@, f)]

\* DeleteTrigger removes a link and its filters.
Unlink(e, p) ==
  /\ links' = links \ {<<e, p>>}
  /\ linkFilters' = [linkFilters EXCEPT ![<<e, p>>] = NoFields]

LinksNext ==
  \E e \in Events, p \in Pipelines :
    Unlink(e, p) \/ \E f \in FilterMaps : Link(e, p, f)

LinksSpec == LinksInit /\ [][LinksNext]_linkVars
=============================================================================
