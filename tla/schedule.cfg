SPECIFICATION Spec
CONSTANTS
  s1 = s1
  s2 = s2
  NoRule = NoRule
  AnyService = AnyService
  Lookahead = 1
  NoWorker = NoWorker
  Rules = {r1}
  Services = {s1}
  Config <- CronTwice
  Feed <- Silence
  Workers = {w1, w2}
  Mortal = {w1, w2}
  LeaseMs = 1
  TickSlots = {t1}
  EventSlots = {}
  ScanLimit = 9
  Minute = 9
  MaxActionsPerMinute = 9
  OwnerOutcomes = {TRUE}
  Outcomes = {"succeeded"}
  MaxTime = 3
  CrashHorizon = 2
  MaxEvents = 0
  MaxToggles = 0
  MaxFailures = 0
INVARIANTS
  TypeOK
  LeaseExclusive
  NoOrphanRun
  NeverEarly
PROPERTIES
  LedgerSpec
  SettledByOwner
SYMMETRY Symmetry
CHECK_DEADLOCK FALSE
