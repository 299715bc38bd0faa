SPECIFICATION Spec
CONSTANTS
  Conns = {c1, c2, c3}
  Tolerance = 1
  Sequences = {s1, s2}
  MaxClock = 3
SYMMETRY Symmetry
INVARIANTS
  AcceptedOnceInTime
  RefusedOnlyIfSeen
  EntriesExpire
CHECK_DEADLOCK FALSE
