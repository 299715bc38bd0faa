SPECIFICATION FairSpec
CONSTANTS
  Conns <- Repeated
  Index <- IndexOfRepeated
  MaxSubflows = 3
  Expected = 2
  ChanCap = 2
  JoinWindow = 1
  SlotTTL = 2
  SweepPeriod = 2
  Handshake = 2
  Permits = 2
INVARIANTS
  OneConnPerIndex
  ChannelNeverFull
  CollectingHasSlot
  SlotLifetime
  RejectedForCause
PROPERTIES
  QueuedIsUsed
  ImplementsCollection
  JoinSettles
