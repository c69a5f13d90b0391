SPECIFICATION Spec
CONSTANTS
  e1 = e1
  e2 = e2
  r1 = r1
  r2 = r2
  None = None
  Events = {e1, e2}
  Readers = {r1, r2}
  Views <- MCViews
  Modes <- MCModes
  Span = 0
  Retention = 0
  HealthStep = 1
  RangeMax = 1
  EventMax = 1
  MaxTime = 2
  MaxPolls = 2
  MaxTx = 1
SYMMETRY Symmetric
INVARIANTS TypeOK CachesFresh
PROPERTIES AnswersCurrent
CHECK_DEADLOCK FALSE
