SPECIFICATION ProviderHistoryFairSpec
CONSTANTS
  a1 = a1
  own = own
  p1 = p1
  r1 = r1
  r2 = r2
  s1 = s1
  s2 = s2
  git = git
  cron = cron
  push = push
  tick = tick
  Accounts = {a1}
  Public = public
  Events = {own}
  EventAccount <- MCEventAccount
  Pipelines = {p1}
  PipelineAccount <- MCPipelineAccount
  FilterNames = {}
  Expressions = {}
  Secrets = {s1, s2}
  NoEvent = NoEvent
  EventRequests = {r1, r2}
  EventFaults = {"redis", "provider", "crash"}
  Subscribable = {own}
  Describable = {own}
  Configs <- MCConfigs
  NoTypes <- MCNoTypes
  Services = {git, cron}
  Implementing = {git}
  Kinds = {push, tick}
  NoService = NoService
INVARIANTS ProvidersTypeOK StoredAtItsProvider
PROPERTIES ImplementsEvents AnsweredUnlessHung
