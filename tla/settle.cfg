SPECIFICATION FairSpec
CONSTANTS
  s1 = s1
  s2 = s2
  NoRule = NoRule
  AnyService = AnyService
  Lookahead = 1
  NoWorker = NoWorker
  Rules = {r1}
  Services = {s1}
  Config <- CronOnce
  Feed <- Silence
  Workers = {w1, w2}
  Mortal = {w1}
  LeaseMs = 1
  TickSlots = {t1}
  EventSlots = {}
  ScanLimit = 9
  Minute = 9
  MaxActionsPerMinute = 9
  OwnerOutcomes = {TRUE}
  Outcomes = {"succeeded"}
  MaxTime = 3
  CrashHorizon = 1
  MaxEvents = 0
  MaxToggles = 0
  MaxFailures = 1
INVARIANTS
  AtMostOnce
PROPERTIES
  RunsSettle
  DueIsServed
CHECK_DEADLOCK FALSE
