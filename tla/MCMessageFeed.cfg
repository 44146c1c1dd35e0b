CONSTANTS
  Messages = {m1, m2, m3}
  History = 1
  PageSize = 1
  MaxRevision = 5
  MaxBreaks = 0
  MaxFailures = 0
  MaxRestarts = 1
SPECIFICATION Safety
SYMMETRY Symmetry
INVARIANTS Complete CurrentWhenCaughtUp
PROPERTY NeverRegresses
CHECK_DEADLOCK FALSE
