SPECIFICATION MCSpec
CONSTANTS
  i1 = i1  i2 = i2  t1 = t1  t2 = t2  t3 = t3  x1 = x1  x2 = x2  ghost = ghost
  Investigators = {i1, i2}
  Graph = {t1, t2, t3}
  Extra = {x1, x2}
  Deps <- MCDeps
  MaxTasks = 4
  MaxCalls = 5
  MaxParallel = 1
  TasksMayFail = TRUE
  Names = {t1, t2, t3}
  Unknown = ghost
  MaxDepth = 2
CHECK_DEADLOCK FALSE
INVARIANTS
  AcceptedRunsThrough
PROPERTIES
  
  OnesEnd
