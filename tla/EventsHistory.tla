---------------------------- MODULE EventsHistory ----------------------------
(***************************************************************************)
(* Events with the history of each request (the events that existed at     *)
(* every moment since the request arrived, and at some moment), and of     *)
(* each event: whether something came between its creation and itself.     *)
(***************************************************************************)
EXTENDS Events

VARIABLES
  existedAlways,  \* events that existed all along since the request arrived
  existedEver,    \* events that existed at some moment since then
  disturbed       \* disturbed[e]: since e was last absent and left alone, a
                  \* creation of e overlapped another change of e, or was
                  \* carried out although e exists

eventHistoryVars == <<eventVars, existedAlways, existedEver, disturbed>>

Existing == {e \in Events : EventExists(e)}

EventHistoryInit ==
  /\ EventsInit
  /\ existedAlways = [r \in EventRequests |-> {}]
  /\ existedEver = [r \in EventRequests |-> {}]
  /\ disturbed = [e \in AlwaysSubscribed |-> FALSE]

RecordEvents ==
  /\ existedAlways' = [r \in EventRequests |->
                         IF epc'[r] = "idle" THEN {}
                         ELSE IF epc[r] = "idle" THEN Existing
                         ELSE existedAlways[r] \cap Existing']
  /\ existedEver' = [r \in EventRequests |->
                       IF epc'[r] = "idle" THEN {}
                       ELSE IF epc[r] = "idle" THEN Existing
                       ELSE existedEver[r] \cup Existing']
  /\ disturbed' = [e \in AlwaysSubscribed |->
                     \/ Overlap(e)'
                     \/ \E r \in Changing(e) : Misread(r)
                     \/ disturbed[e] /\ (Changing(e)' # {} \/ EventExists(e)')]

EventHistoryNext == EventsNext /\ RecordEvents

EventHistorySpec == EventHistoryInit /\ [][EventHistoryNext]_eventHistoryVars

EventReplies(r, op, result) ==
  /\ epc[r] # "idle" /\ ereq[r].op = op
  /\ epc'[r] = "idle" /\ ereply'[r] = result

\* The events GetEvents should list: the account's and, if asked, the public ones.
Listable(r) ==
  {e \in Events : \/ EventAccount[e] = ereq[r].account
                  \/ ereq[r].public /\ EventAccount[e] = Public}

\* GetEvents misses no event that existed while it ran and lists none that did
\* not, although it reads the keys and then the events one by one.
EventListingBounded ==
  [][\A r \in EventRequests :
       EventReplies(r, "GetEvents", "ok") =>
         /\ existedAlways[r] \cap Listable(r) \subseteq elisting[r]
         /\ elisting[r] \subseteq existedEver[r] \cap Listable(r)]_eventHistoryVars

\* GetEvents answers that an event is not found only when an event it was to
\* list is deleted under it.  (It does fail then, for all the other events.)
EventListingFailsOnDelete ==
  [][\A r \in EventRequests :
       EventReplies(r, "GetEvents", "not found") =>
         (existedEver[r] \ existedAlways[r]) \cap Listable(r) # {}]_eventHistoryVars

\* A stored event is subscribed with the secret that is stored, through failed
\* calls, lost answers and crashes between the two steps of a creation and of a
\* deletion, and whatever other events are changed meanwhile: only a creation
\* that overlaps another change of the event, or misreads it, can part the two.
SubscribedUnlessDisturbed ==
  \A e \in AlwaysSubscribed :
    EventExists(e) /\ ~disturbed[e] => subscribed[e] = events[e]
=============================================================================
