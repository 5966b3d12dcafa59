SPECIFICATION MCSpec
CONSTANTS
  Services = {s1, s2, s3, s4}
  Admins = {a1, a2}
  Slots = {r1, r2}
  VisitLimit = 2
  MaxDepth = 2
  MaxNodes = 3
  EdgeLimit = 3
  ServiceLimit = 3
  MaxEdges = 3
  MaxOpen = 1
  MinServices = 3
  MaxWrites = 2
  MaxEvents = 2
  MaxDeletions = 1
  MaxRestarts = 1
  MaxFailures = 1
  MaxSpent = 2
INVARIANTS
  TypeOK
  CycleNeedsBlindInsert
  SnapshotIsRight
  ToldIsSnapshot
SYMMETRY Symmetry
CHECK_DEADLOCK FALSE
