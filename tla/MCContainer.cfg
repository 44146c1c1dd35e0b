CONSTANTS
  Connections = {k1}
  MaxBoots = 2
SPECIFICATION ContainerSpec
INVARIANT SeedWhole
CHECK_DEADLOCK FALSE
