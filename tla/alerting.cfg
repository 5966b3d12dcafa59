SPECIFICATION Spec
CONSTANTS
  Callers = {h1, h2}
  Handlers = {h1, h2}
  Users = {u1}
  kOpen = kOpen
  kRecover1 = kRecover1
  kRecover2 = kRecover2
  Keys = {kOpen, kRecover1, kRecover2}
  OpenKey <- OneOpenKey
  RecoverKey <- RecoverKeys
  MaxPerUser = 1
  DedupWindow = 1
  ReadRetention = 2
  UnreadRetention = 3
  MaxCallTime = 1
  MaxNotes = 3
  MaxTime = 1
  MaxUserActions = 0
  Services = {s1}
  Workers = {w1, w2}
  NoWorker = NoWorker
  MaxEvents = 4
  MaxIncidents = 5
  MaxCrashes = 1
INVARIANTS
  TypeOK
  RecoveryAnnouncedOnce
  BookFollowsStatus
  NoStaleAlarm
PROPERTIES
  LedgerSpec
SYMMETRY Symmetry
CHECK_DEADLOCK FALSE
