------------------------ MODULE EventProvidersHistory ------------------------
(***************************************************************************)
(* EventProviders with the history of each event: the providers the types  *)
(* sent its requests to, and whether something came between its creation   *)
(* and itself.                                                             *)
(***************************************************************************)
EXTENDS EventProviders

VARIABLES
  matched,   \* matched[e]: the providers that types matched e with since it was
             \* last absent and left alone
  disturbed  \* as in EventsHistory

providerHistoryVars == <<providerVars, matched, disturbed>>

ProviderHistoryInit ==
  /\ ProvidersInit
  /\ matched = [e \in Events |-> {}]
  /\ disturbed = [e \in Events |-> FALSE]

\* e is absent and no request changes it.
Absent(e) == Changing(e) = {} /\ ~EventExists(e)

RecordProviders ==
  /\ matched' = [e \in Events |->
                   IF Absent(e)' THEN {}
                   ELSE matched[e] \cup ({MatchType(e)'} \ {NoService})]
  /\ disturbed' = [e \in Events |->
                     \/ Overlap(e)'
                     \/ \E r \in Changing(e) : Misread(r)
                     \/ disturbed[e] /\ ~Absent(e)']

ProviderHistoryNext == ProvidersNext /\ RecordProviders

ProviderHistorySpec == ProviderHistoryInit /\ [][ProviderHistoryNext]_providerHistoryVars

ProviderHistoryFairSpec ==
  /\ ProviderHistoryInit /\ [][ProviderHistoryNext]_providerHistoryVars
  /\ \A r \in EventRequests :
       /\ WF_providerHistoryVars(RedisStep(r) /\ RecordProviders)
       /\ SF_providerHistoryVars(MatchProvider(r) /\ RecordProviders)
  /\ WF_providerHistoryVars(Reloads /\ FirstLoad /\ RecordProviders)
  /\ WF_providerHistoryVars(Reloads /\ EndReload /\ RecordProviders)

\* A stored event is subscribed, with the stored secret, at the provider that
\* its URI matches, as long as reloads never matched it with another one:
\* although each call looks the provider up anew, and through restarts and
\* times without any types.
StoredAtItsProvider ==
  \A e \in Events : \A s \in Implementing :
    EventExists(e) /\ ~disturbed[e] /\ matched[e] = {s} => secretAt[s][e] = events[e]
=============================================================================
