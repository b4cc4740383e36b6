SPECIFICATION FairSpec
CONSTANTS
  a = a
  s = s
  m = m
  old = old
  new = new
  Rows = {a, s, m}
  Tier <- MCTier
  Poison = {a}
  Calls = {p1, p2}
  Models = {old, new}
  Default = new
  Gone = Gone
  None = None
  BatchSize = 2
  MaxWrites = 3
  MaxPuts = 2
  MaxFaults = 1
INVARIANTS
  TypeOK
  OnlyLateForeign
  StaleOnlyIfRaced
PROPERTY
  EveryRowEmbedded
\* Without embedding settings there is no worker: the daemon waits for calls.
CHECK_DEADLOCK FALSE
