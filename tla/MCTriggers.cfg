SPECIFICATION TriggersSpec
CONSTANTS
  a1 = a1
  a2 = a2
  own = own
  other = other
  pub = pub
  p1 = p1
  r1 = r1
  r2 = r2
  Accounts = {a1, a2}
  Public = public
  Events = {own, other, pub}
  EventAccount <- MCEventAccount
  Globs <- MCGlobs
  Pipelines = {p1}
  PipelineAccount <- MCPipelineAccount
  FilterNames = {"name"}
  Expressions = {"exp"}
  Secrets = {"s"}
  NoEvent = NoEvent
  TriggerRequests = {r1, r2}
  TriggerFaults = {"redis", "cfapi", "crash"}
SYMMETRY RequestsAlike
INVARIANTS TriggersTypeOK IndexesAgree FiltersBelongToLinks AccountIsolation
PROPERTIES ImplementsTriggerLinks
