CONSTANTS
  Ids = {m1, m2}
  Texts = {t1}
  NoText = NoText
  Times = {1}
  ClockStepsBack = FALSE
  MaxCalls = 2
  MaxCrashes = 1
  MaxFaults = 1
SPECIFICATION Spec
PROPERTIES EveryMessageSettles StartupRepairs
