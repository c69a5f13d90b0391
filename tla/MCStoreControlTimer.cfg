SPECIFICATION Spec
CONSTANTS
  c1 = c1
  c2 = c2
  c3 = c3
  q1 = q1
  q2 = q2
  s1 = s1
  s2 = s2
  Callers = {c1, c2}
  Readers = {q1}
  Stores <- MCStores
  Writer = Writer
  Admin = Admin
  Closer = Closer
  QueueCap = 1
  TimerFired = TRUE
  NoStore = NoStore
  None = None
CHECK_DEADLOCK FALSE
INVARIANT
  HolderGoesOn
