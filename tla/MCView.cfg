CONSTANTS
  Limit = 2
  MaxStarts = 2
  MaxSwitches = 1
  Words = {w, compact}
  Compact = compact
  Images = {p, q}
  None = None
  MaxImages = 1
  MaxDraft = 1
  MaxSends = 2
SPECIFICATION ViewSpec
INVARIANTS MicrophoneOwned WithinLimits NeitherLostNorDoubled PreviewsOwned
PROPERTIES NothingFromVoided StopsEventually RetiredOnce SettlesEventually
CHECK_DEADLOCK FALSE
