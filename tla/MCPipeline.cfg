SPECIFICATION FairSpec
CONSTANTS
  Daemons = {d1}
  Sessions = {s1}
  MaxTime = 2
  EveryN = 3
  Warmup = TRUE
  IdleOn = TRUE
  L1MaxTurns = 1
  L2MaxAtoms = 1
  MaxFaults = 3
INVARIANTS
  TypeOK
  OncePerTurn
  ScenesCoverAtoms
PROPERTIES
  KeepsPromise
  EveryTurnExtracted
  EvidenceReachesScenes
