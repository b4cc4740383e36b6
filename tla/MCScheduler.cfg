SPECIFICATION FairSpec
CONSTANTS
  s1 = s1
  s2 = s2
  s3 = s3
  s4 = s4
  Sessions = {s1, s2, s3, s4}
  Settings <- FairSettings
  MaxArrivals = 5
  MaxFaults = 1
INVARIANT
  TypeOK
PROPERTY
  EveryCandidateTried
