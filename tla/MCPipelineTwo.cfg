SPECIFICATION Spec
CONSTANTS
  Daemons = {d1, d2}
  Sessions = {s1}
  MaxTime = 2
  EveryN = 3
  Warmup = TRUE
  IdleOn = TRUE
  L1MaxTurns = 1
  L2MaxAtoms = 1
  MaxFaults = 2
PROPERTY
  KeepsShared
CHECK_DEADLOCK FALSE
