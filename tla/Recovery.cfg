SPECIFICATION Spec
CONSTANTS
  s1 = s1  s2 = s2  c1 = c1  c2 = c2  m1 = m1  m2 = m2
  Opened = Opened  NoRecord = NoRecord
  Starts = {s1, s2}
  Comments = {c1}
  Markers = {m1, m2}
  MaxKills = 1
CHECK_DEADLOCK FALSE
SYMMETRY Alike
INVARIANTS
  AbandonedIsDurable
  ConfirmedSurvives
