SPECIFICATION CenterSpec
CONSTANTS
  Callers = {c1, c2}
  Users = {u1}
  Keys = {k1, k2}
  MaxPerUser = 2
  DedupWindow = 1
  ReadRetention = 2
  UnreadRetention = 3
  MaxCallTime = 1
  MaxNotes = 3
  MaxTime = 3
  MaxUserActions = 1
INVARIANTS
  WithinCap
  NoTwins
PROPERTIES
  ToldIsVisible
SYMMETRY Symmetry
CHECK_DEADLOCK FALSE
