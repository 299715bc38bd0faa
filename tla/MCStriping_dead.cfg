SPECIFICATION FairSpec
CONSTANTS
  NSub = 3
  Capacity = 1
  Window = 2
  Chunk = 1
  UsizeMax = 7
  WireCap = 1
  UpCap = 1
  MaxBytes = 3
  Faulty <- Subflow1
  Silenced = {}
PROPERTY DeadEndsSession
CONSTRAINT WhileRelaying
