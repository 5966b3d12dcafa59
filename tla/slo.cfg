SPECIFICATION Spec
CONSTANTS
  HourLen = 2
  FastShort = 1
  FastLong = 2
  SlowShort = 2
  SlowLong = 3
  Objective = 50
  ExcludeMaintenance = TRUE
  WarningThreshold = 1
  CriticalThreshold = 2
  CooldownTime = 3
  NotifyOnRecovery = TRUE
  ObservableFrom = 1
  Workers = {w1, w2}
  RebuildHours = 2
  PlannedWindows <- TwoToFour
  MaxTime = 6
  MaxIncidents = 1
  MaxTicks = 3
INVARIANTS
  TypeOK
PROPERTIES
  EvaluationIsRight
  QuietWithinCooldown
  RecoveryFollowsAlert
SYMMETRY Symmetry
CHECK_DEADLOCK FALSE
