CONSTANTS
  Messages = {m1, m2}
  History = 1
  PageSize = 1
  MaxRevision = 4
  MaxBreaks = 1
  MaxFailures = 1
  MaxRestarts = 0
SPECIFICATION Spec
PROPERTY EveryChangeArrives
CHECK_DEADLOCK FALSE
