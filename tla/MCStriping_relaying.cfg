SPECIFICATION Spec
CONSTANTS
  NSub = 3
  Capacity = 1
  Window = 3
  Chunk = 2
  UsizeMax = 7
  WireCap = 1
  UpCap = 1
  MaxBytes = 4
  Faulty = {0}
  Silenced = {1, 2}
CONSTRAINT WhileRelaying
INVARIANTS
  QueueAccounting
  CreditSound
  CreditBound
  NoLostWakeup
  StallHasRemedy
PROPERTY ConsumedMonotone
