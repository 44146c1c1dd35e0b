CONSTANTS
  Calls = {c1, c2}
  Deltas <- ScaledDeltas
  NoDelta = NoDelta
  Ceiling = 10
  Baseline = 5
  Stride = 2
  MaxTurns = 3
  ImageCalls = {c1}
  MaxMessages = 2
  MaxDeaths = 2
  MaxRemovals = 1
SPECIFICATION PartSpec
INVARIANTS TurnBound RetriesAgree ImagesKept AttachmentsRestored
PROPERTY PaidOnce
