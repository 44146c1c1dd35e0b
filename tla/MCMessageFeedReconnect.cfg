CONSTANTS
  Messages = {m1, m2}
  History = 0
  PageSize = 1
  MaxRevision = 2
  MaxBreaks = 1
  MaxFailures = 1
  MaxRestarts = 0
SPECIFICATION Spec
PROPERTY ReconnectRefreshes
CHECK_DEADLOCK FALSE
