SPECIFICATION LedgerSpec
CONSTANTS
  e1 = e1
  e2 = e2
  NoAggregate = NoAggregate
  Events = {e1, e2}
  Time <- MCTime
  Windows = {0, 1}
  Limit = 1
  MaxTime = 2
  MaxChanges = 2
INVARIANTS LedgerTypeOK CountersMatchRows EnrichmentKept ImportsAreNew
CHECK_DEADLOCK FALSE
