SPECIFICATION Spec
CONSTANTS
  h1 = h1  h2 = h2  h3 = h3  r1 = r1  r2 = r2  c1 = c1  c2 = c2
  d1 = d1  d2 = d2  d3 = d3  safe = safe  risky = risky  wipe = wipe
  NoRun = NoRun  NoComment = NoComment  NoDelivery = NoDelivery
  NoOption = NoOption  NoPlan = NoPlan  NoMessage = NoMessage  NoRequest = NoRequest
  Requests = {h1, h2, h3}
  Runs = {r1, r2}
  Comments = {c1, c2}
  Deliveries = {d1, d2, d3}
  Options <- MCOptions
  Label <- MCLabel
  Rules <- MCRules
  Heuristic <- MCHeuristic
  PolicyTable <- MCPolicyTable
  Plans <- AllPlans
  Messages <- MixedMessages
  Enforcement = "strict"
  BudgetMayRunOut = FALSE
  CallsMayFail = FALSE
  ClientHasAddLabel = TRUE
  MaxCrashes = 0
CHECK_DEADLOCK FALSE
SYMMETRY Sym3
PROPERTIES
  FinalIsFinal
