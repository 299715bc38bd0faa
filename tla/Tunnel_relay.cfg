SPECIFICATION FairSpec
CONSTANTS
  Tolerance = 5
  Secret = 115
  Skew = 1
  PipeCap = 1
  MaxBlocks = 2
  MaxMinutes = 6
  Faults = {}
INVARIANT DigitsAccepted
PROPERTIES
  UpImplementsByteStream
  DownImplementsByteStream
  Delivered
