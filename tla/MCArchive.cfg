SPECIFICATION Spec
CONSTANTS
  profile = profile
  m = m
  g1 = g1
  g2 = g2
  Memories = {profile, m}
  Profile = profile
  Users = {g1, g2}
  ColdWindow = 1
  Histories <- MCHistories
  KeepVersions = 1
  KeepPeriods = 1
  MaxTime = 3
  MaxEvents = 3
SYMMETRY Swap
INVARIANTS
  TypeOK
  OnlyFromUse
  KeepsNewest
  ActiveSourcesKept
\* Nothing happens without a call of a user or a write of the pipeline.
CHECK_DEADLOCK FALSE
