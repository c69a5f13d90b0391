SPECIFICATION Spec
CONSTANTS
  j1 = j1
  j2 = j2
  e1 = e1
  e2 = e2
  e3 = e3
  e4 = e4
  None = None
  Jobs = {j1, j2}
  Events = {e1, e2, e3, e4}
  Limit <- MCLimit
  Time <- MCTime
  Initial <- MCInitial
  Snapshot = 2
  MaxActive = 1
  MaxStored = 2
  PageSize = 1
  MaxChanges = 1
INVARIANTS TypeOK FilesFollowJobs ExportFaithful
PROPERTIES SlotsReturn
CHECK_DEADLOCK FALSE
