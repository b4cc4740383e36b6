SPECIFICATION Spec
CONSTANTS
  Procs = {p1, p2, p3, p4}
  MaxUpdates = 1
  MaxRestarts = 1
  MaxFaults = 1
INVARIANTS TypeOK OneAtRest InstalledServesLater
PROPERTIES Recovers AllOrNothing
CHECK_DEADLOCK FALSE
