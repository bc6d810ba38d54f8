SPECIFICATION BoundarySpec
CONSTANTS
  k1 = k1  k2 = k2  k3 = k3  comment = comment  close = close
  Read = Read
  Writes = {comment, close}
  FailureThreshold = 2
  MaxAttempts = 2
  HalfOpenMaxCalls = 1
  Calls = {k1, k2, k3}
  e1 = e1  e2 = e2  e3 = e3
  Unlabelled = Unlabelled
  Dispatches = {e1, e2, e3}
  MayAbandon = TRUE
CHECK_DEADLOCK FALSE
INVARIANTS
  SlotsHaveHolders
  InflightExact
  CompleteMeansIdle
PROPERTIES
  
  AdmissibleAgain
  DrainEnds
