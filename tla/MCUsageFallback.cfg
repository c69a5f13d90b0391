SPECIFICATION Spec
CONSTANTS
  f1 = f1
  f2 = f2
  f3 = f3
  n1 = n1
  n2 = n2
  k1 = k1
  k2 = k2
  a = a
  q1 = q1
  q2 = q2
  s1 = s1
  Fallbacks <- MCFallbacks
  Natives <- MCNatives
  Request <- MCRequest
  Key <- OneKey
  Client <- MCClient
  Stream <- NoStream
  Earlier <- NoEarlier
  Unknown = Unknown
  None = None
  Delay = 1
  NativeWindow = 1
  LateWindow = 2
  Slack = 0
  CleanupInterval = 2
  MaxPending = 2
  MaxRecent = 2
  MaxRetained = 4
  Waits = {0, 2}
  MaxTime = 3
INVARIANTS
  TypeOK
  CountedOnce
  FlushComplete
CHECK_DEADLOCK FALSE
