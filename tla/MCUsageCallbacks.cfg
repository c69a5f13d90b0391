SPECIFICATION Spec
CONSTANTS
  t1 = t1
  t2 = t2
  t3 = t3
  Tasks <- MCTasks
  Size <- MCSize
  Drainers = {d1, d2}
  Worker = w
  MaxTasks = 2
  MaxBytes = 3
INVARIANTS
  TypeOK
  NoLostWakeup
  DrainCovers
  ShutdownRanAll
PROPERTIES
  CallsReturn
  Implements
