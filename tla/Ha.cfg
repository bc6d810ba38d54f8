SPECIFICATION HaSpec
CONSTANTS
  r1 = r1  r2 = r2  r3 = r3  s1 = s1  s2 = s2
  NoRequest = NoRequest
  Requests = {r1, r2, r3}
  Sources = {s1, s2}
  Limit = 2
  LocalLimit = 1
  Window = 2
  MaxBuckets = 1
  PoolSize = 2
  MaxTime = 2
  MaxOutages = 1
  MaxDrifts = 1
CHECK_DEADLOCK FALSE
SYMMETRY Alike
INVARIANTS
  AllowedAreCounted
  ExcessIsBlind
  SlidingWindow
  SomebodyGoesOn
  
  MigrationMeetsContract
  ValidServes
