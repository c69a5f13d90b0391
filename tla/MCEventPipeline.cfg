SPECIFICATION Spec
CONSTANTS
  e1 = e1
  e2 = e2
  r1 = r1
  r2 = r2
  Events <- MCEvents
  Replays <- MCReplays
  None = None
  QueueCap = 1
  WriterBytes = 2
  SpoolBytes = 2
  MaxBatch = 2
  MaxFaults = 1
  MaxStarts = 2
SYMMETRY Symmetry
INVARIANTS
  TypeOK
  NoSilentLoss
  NoDuplicateRows
  QueuesExact
  RecoveryExact
