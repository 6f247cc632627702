SPECIFICATION CommandLineSpec
CONSTANTS
  a1 = a1
  a2 = a2
  own = own
  pub = pub
  p1 = p1
  p2 = p2
  s1 = s1
  s2 = s2
  t1 = t1
  t2 = t2
  v1 = v1
  v2 = v2
  u1 = u1
  u2 = u2
  Accounts = {a1}
  Public = public
  Events = {own, pub}
  EventAccount <- MCEventAccount
  Globs <- MCGlobs
  Pipelines = {p1}
  PipelineAccount <- MCPipelineAccount
  FilterNames = {"name"}
  Expressions <- MCExpressions
  Values = {"push", "tag"}
  NoValue = none
  Secrets = {s1, s2}
  NoEvent = NoEvent
  TriggerRequests = {t1}
  EventRequests = {v1}
  RunRequests = {u1}
  TriggerFaults = {"redis", "crash"}
  EventFaults = {"provider", "crash"}
  RunFaults = {"redis", "crash"}
  Subscribable = {own}
  Describable = {pub}
INVARIANTS IndexesAgree StoredIsSubscribed
PROPERTIES LinkedEventStays CreatedSecretIsStored
