SPECIFICATION Spec
CONSTANTS
  t1 = t1
  t2 = t2
  t3 = t3
  t4 = t4
  Tasks <- FourTasks
  MaxFailures = 3
  Window = 2
  InitialBan = 3
  Multiplier = 2
  MaxBan = 8
  Word = 8
SYMMETRY Symmetry
CONSTRAINT FewFailures
INVARIANTS
  TypeOK
  BoundedFailures
  BannedToWindowEnd
