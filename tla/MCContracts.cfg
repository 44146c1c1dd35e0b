CONSTANTS
  MaxSafeInteger = 2147483647
  RetainedRounds = 3
  RetainedBudget = 6
  MaxNote = 2
  MaxReason = 3
  MaxSignature = 3
  Invalid = Invalid
  Absent = Absent
  None = None
  MaxText = 3
  NoName = NoName
SPECIFICATION Spec
INVARIANTS
  RecordingsAgree
  ImagesAgree
  TimelineKept
  TypingKept
  WaitKept
  PreviewKept
  RulesHold
CHECK_DEADLOCK FALSE
