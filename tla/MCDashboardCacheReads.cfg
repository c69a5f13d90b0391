SPECIFICATION Spec
CONSTANTS
  e1 = e1
  e2 = e2
  r1 = r1
  r2 = r2
  None = None
  Events = {e1}
  Readers = {r1}
  Views <- MCRangeViews
  Modes <- MCStored
  Span = 0
  Retention = 0
  HealthStep = 1
  RangeMax = 1
  EventMax = 1
  MaxTime = 0
  MaxPolls = 3
  MaxTx = 1
INVARIANT ReadsComplete
CHECK_DEADLOCK FALSE
