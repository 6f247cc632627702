SPECIFICATION EventHistorySpec
CONSTANTS
  a1 = a1
  a2 = a2
  own = own
  pub = pub
  p1 = p1
  r1 = r1
  r2 = r2
  s1 = s1
  s2 = s2
  Accounts = {a1, a2}
  Public = public
  Events = {own, pub}
  EventAccount <- MCEventAccount
  Pipelines = {p1}
  PipelineAccount <- MCPipelineAccount
  FilterNames = {}
  Expressions = {}
  Secrets = {s1, s2}
  NoEvent = NoEvent
  EventRequests = {r1, r2}
  EventFaults = {"redis", "provider", "crash"}
  Subscribable = {own}
  Describable = {pub}
SYMMETRY EventRequestsAlike
INVARIANTS EventsTypeOK SubscribedUnlessDisturbed
PROPERTIES SecretKept LinkedEventStays EventListingBounded EventListingFailsOnDelete
