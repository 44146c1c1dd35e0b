CONSTANTS
 MaxOps = 2
 MaxTurns = 1
 MaxCompactions = 2
 MaxCrashes = 1
 MaxLag = 2
SPECIFICATION Spec
INVARIANTS MarkersAnchored RunningIsLive ObservationKept
PROPERTIES StatusPasses
CHECK_DEADLOCK FALSE
