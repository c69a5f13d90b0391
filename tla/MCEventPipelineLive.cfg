SPECIFICATION FairSpec
CONSTANTS
  e1 = e1
  r1 = r1
  r2 = r2
  e2 = e2
  Events <- MCEvents
  Replays = {r1}
  None = None
  QueueCap = 1
  WriterBytes = 2
  SpoolBytes = 2
  MaxBatch = 2
  MaxFaults = 1
  MaxStarts = 1
PROPERTIES
  PipelineSettles
