SPECIFICATION FairSpec
CONSTANTS
  s1 = s1
  s2 = s2
  NoRule = NoRule
  AnyService = AnyService
  Lookahead = 9
  NoWorker = NoWorker
  Rules = {r1}
  Services = {s1}
  Config <- OnOwnData
  Feed <- DataFeed
  Workers = {w1}
  Mortal = {w1}
  LeaseMs = 1
  TickSlots = {}
  EventSlots = {e1, e2}
  ScanLimit = 9
  Minute = 1
  MaxActionsPerMinute = 1
  OwnerOutcomes = {TRUE, FALSE}
  Outcomes = {"succeeded", "failed"}
  MaxTime = 2
  CrashHorizon = 0
  MaxEvents = 2
  MaxToggles = 0
  MaxFailures = 1
PROPERTIES
  RateLimited
  StopCompletes
CHECK_DEADLOCK FALSE
