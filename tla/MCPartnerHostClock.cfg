CONSTANTS
  Ids = {m1, m2}
  Texts = {t1}
  NoText = NoText
  Times = {1, 2}
  ClockStepsBack = TRUE
  MaxCalls = 2
  MaxCrashes = 2
  MaxFaults = 0
SPECIFICATION Safety
INVARIANT RunsInDisplayOrder
