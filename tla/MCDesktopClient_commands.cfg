SPECIFICATION FairSpec
CONSTANTS
  u1 = u1
  u2 = u2
  u3 = u3
  Callers <- TwoCallers
  Ports = {1080, 1081}
  FirstPort = 1080
  DefaultPort = 1081
  Permits = 1
  MaxClients = 2
INVARIANTS
  TypeOK
  NoOrphanListener
  StoppedFreesPort
  AckedPortKept
  HolderGoesOn
PROPERTY CommandsReturn
