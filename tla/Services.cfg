SPECIFICATION ServicesSpec
CONSTANTS
  s1 = s1  s2 = s2
  NoStore = NoStore  NoPayload = NoPayload
  Stores = {s1, s2}
  Payloads <- MCPayloads
  MayTear = TRUE
  MaxAppends = 5
  i1 = i1  i2 = i2  i3 = i3
  NoInstance = NoInstance
  Instances = {i1, i2, i3}
  Ttl = 2
  Skew <- MCSkew
  MaxClock = 3
  p1 = p1  p2 = p2
  Slots = {s1, s2}
  Credentials <- MCCredentials
  Configs <- MCConfigs
  Peers = {p1, p2}
  Trusted = {p1}
  Chains <- MCChains
  MaxHops = 2
  SkewTolerance = 1
  TokenTtl = 2
  MaxArrivals = 2
  MaxRestarts = 1
  LastTick = 4
  Checks = {"tests"}
  StrictChecks = {"ha"}
  PageSize = 1
  MaxTries = 2
  MaxPolls = 2
  MaxCheckRuns = 3
  c1 = c1
  AgentCalls = {c1}
  AgentOf <- MCAgentOf
  Deployments <- MCDeployments
CHECK_DEADLOCK FALSE
SYMMETRY Alike
INVARIANTS
  ChainIntact
  
  
  FirstUseWins
  ScopesAreSeparate
  ZeroIsEarned
  AnswersAreFinal

  
