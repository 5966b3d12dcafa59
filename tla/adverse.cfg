SPECIFICATION FairSpec
CONSTANTS
  s1 = s1
  s2 = s2
  NoRule = NoRule
  AnyService = AnyService
  Lookahead = 9
  NoWorker = NoWorker
  Rules = {r1, r2}
  Services = {s1}
  Config <- Interval
  Feed <- Silence
  Workers = {w1}
  Mortal = {}
  LeaseMs = 1
  TickSlots = {t1}
  EventSlots = {}
  ScanLimit = 1
  Minute = 9
  MaxActionsPerMinute = 9
  OwnerOutcomes = {TRUE}
  Outcomes = {"succeeded"}
  MaxTime = 2
  CrashHorizon = 0
  MaxEvents = 0
  MaxToggles = 1
  MaxFailures = 1
PROPERTIES
  ScheduleIsSeeded
CHECK_DEADLOCK FALSE
