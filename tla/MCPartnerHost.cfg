CONSTANTS
  Ids = {m1, m2}
  Texts = {t1, t2}
  NoText = NoText
  Times = {1}
  ClockStepsBack = FALSE
  MaxCalls = 3
  MaxCrashes = 2
  MaxFaults = 1
SPECIFICATION Safety
SYMMETRY Symmetry
INVARIANTS OutcomeAgrees NothingOrphaned RunsInDisplayOrder PromptMatchesRow
PROPERTIES CloseDrains KeepsPromises
