SPECIFICATION Spec
CONSTANTS
  Uris = {1, 2, 3, 4, 5, 6, 7}
  Tier <- MCTier
  Requests <- MCRequests
  Starts <- MCStarts
  MaxPairs = 3
  MaxWrites = 1
INVARIANTS
  TypeOK
  NothingDead
  EvidenceFolded
