SPECIFICATION FairSpec
CONSTANTS
  f1 = f1
  f2 = f2
  f3 = f3
  n1 = n1
  n2 = n2
  k1 = k1
  k2 = k2
  a = a
  q1 = q1
  q2 = q2
  s1 = s1
  Fallbacks <- StreamFallbacks
  Natives <- StreamNatives
  Request <- StreamRequest
  Key <- TwoKeys
  Client <- MCClient
  Stream <- TwoStreams
  Earlier <- History
  Unknown = Unknown
  None = None
  Delay = 1
  NativeWindow = 1
  LateWindow = 2
  Slack = 0
  CleanupInterval = 1
  MaxPending = 2
  MaxRecent = 1
  MaxRetained = 2
  Waits = {0}
  MaxTime = 2
INVARIANTS
  OneFate
  LimitsExact
PROPERTIES
  RecordsSettle
CHECK_DEADLOCK FALSE
