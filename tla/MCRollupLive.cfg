SPECIFICATION FairSpec
CONSTANTS
  s1 = s1
  s2 = s2
  a1 = a1
  a2 = a2
  a3 = a3
  a4 = a4
  docs = docs
  doc = doc
  c1 = c1
  Sessions = {s1}
  Atoms = {a1, a3}
  Buckets = {docs, doc}
  Corrections = {c1}
  SessionOf <- OneSessionOf
  BucketOf <- ProfileBucketOf
  TargetOf <- ProfileTargetOf
  Category <- ProfileCategory
  SameAs <- NoneSameAs
  MinSessions = 2
  L3Concurrency = 2
  MaxFaults = 1
  MaxRebuilds = 1
PROPERTIES
  AtomsTakenIn
  CorrectionsTakenIn
CHECK_DEADLOCK FALSE
