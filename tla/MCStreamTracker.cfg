SPECIFICATION Spec
CONSTANTS
  Chunks <- MCChunks
  None = None
  MaxStreams = 2
  MaxBytes = 3
  TTL = 1
INVARIANTS TypeOK TableAccounting FinalUsageOnce HandedOver
PROPERTIES UpdatesAreKept StreamsSettle
CHECK_DEADLOCK FALSE
