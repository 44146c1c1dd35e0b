CONSTANTS
  MaxReleases = 2
  MaxBuilds = 2
  MaxRuns = 3
  MaxCuts = 2
  Cuts = {0, 4, 9, 10}
  MaxCommits = 2
  MaxVersions = 2
  MaxJobs = 2
  Connections = {k1, k2}
  MaxBoots = 3
SPECIFICATION Spec
INVARIANTS CheckoutAgrees ReleasesWhole OverrideWhole
PROPERTY HalfServiceEnds
CHECK_DEADLOCK FALSE
