SPECIFICATION HistoryFairSpec
CONSTANTS
  a1 = a1
  hourly = hourly
  daily = daily
  p1 = p1
  r1 = r1
  r2 = r2
  Accounts = {a1}
  Public = public
  Events = {hourly, daily}
  EventAccount <- MCEventAccount
  Globs <- MCGlobs
  Pipelines = {p1}
  PipelineAccount <- MCPipelineAccount
  FilterNames = {}
  Expressions = {"exp"}
  Secrets = {"s"}
  NoEvent = NoEvent
  TriggerRequests = {r1, r2}
  TriggerFaults = {"cfapi", "crash"}
PROPERTIES RequestsAnswered ListingBounded EventTriggersBounded DeleteAllComplete
