SPECIFICATION FairSpec
CONSTANTS
  Tolerance = 0
  Secret = 118
  Skew = 0
  PipeCap = 2
  MaxBlocks = 2
  MaxMinutes = 1
  Faults = {"client", "server", "path"}
INVARIANT EndIsHonest
PROPERTY SessionEnds
