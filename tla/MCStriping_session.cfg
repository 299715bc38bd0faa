SPECIFICATION FairSpec
CONSTANTS
  NSub = 2
  Capacity = 1
  Window = 2
  Chunk = 1
  UsizeMax = 7
  WireCap = 1
  UpCap = 1
  MaxBytes = 2
  Faulty = {0}
  Silenced = {}
INVARIANTS
  EachByteOnce
PROPERTIES
  ImplementsByteStream
  DeliveredOrFailed
  LoopLeftThenEnded
