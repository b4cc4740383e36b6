SPECIFICATION Spec
CONSTANTS
  s1 = s1
  s2 = s2
  a1 = a1
  a2 = a2
  a3 = a3
  a4 = a4
  docs = docs
  doc = doc
  c1 = c1
  Sessions = {s1, s2}
  Atoms = {a1, a2, a3, a4}
  Buckets = {docs, doc}
  Corrections = {}
  SessionOf <- MergeSessionOf
  BucketOf <- MergeBucketOf
  TargetOf <- NoTargetOf
  Category <- MergeCategory
  SameAs <- MergeSameAs
  MinSessions = 2
  L3Concurrency = 2
  MaxFaults = 1
  MaxRebuilds = 0
INVARIANTS
  TypeOK
  WrittenOnce
PROPERTIES
  RollupComplete
  Remembers
CHECK_DEADLOCK FALSE
