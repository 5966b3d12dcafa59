SPECIFICATION Spec
CONSTANTS
  Integrations = {s1}
  Admins = {a1, a2}
  Workers = {w1, w2}
  Ranges <- AskedRanges
  Grace = 1
  MaxWindows = 2
  MaxCancels = 1
  MaxTime = 2
  MaxCuts = 1
  MaxSpent = 1
INVARIANTS
  TypeOK
  OverlapNeedsRace
  EndAnnouncedOnce
  EveryPhaseAnnounced
PROPERTIES
  NoWayBack
  TickLeavesNoneBehind
SYMMETRY Symmetry
CHECK_DEADLOCK FALSE
