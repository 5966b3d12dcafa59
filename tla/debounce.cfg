SPECIFICATION FairSpec
CONSTANTS
  s1 = s1
  s2 = s2
  NoRule = NoRule
  AnyService = AnyService
  Lookahead = 9
  NoWorker = NoWorker
  Rules = {r1}
  Services = {s1}
  Config <- OnChangeFor1
  Feed <- StatusFeed
  Workers = {w1}
  Mortal = {}
  LeaseMs = 1
  TickSlots = {t1}
  EventSlots = {e1}
  ScanLimit = 9
  Minute = 9
  MaxActionsPerMinute = 9
  OwnerOutcomes = {TRUE}
  Outcomes = {"succeeded"}
  MaxTime = 1
  CrashHorizon = 1
  MaxEvents = 3
  MaxToggles = 0
  MaxFailures = 0
INVARIANTS
  NeverEarly
  NoLeakedLease
PROPERTIES
  DueIsServed
CHECK_DEADLOCK FALSE
