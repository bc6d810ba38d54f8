SPECIFICATION Spec
CONSTANTS
  Clients = {c1, c2, c3}
  NoRun = NoRun
  Nobody = Nobody
SYMMETRY Alike
INVARIANT WinsOnce
PROPERTY Atomic
CHECK_DEADLOCK FALSE
