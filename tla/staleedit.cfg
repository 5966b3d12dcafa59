SPECIFICATION Spec
CONSTANTS
  Calls = {c1, c2, c3}
  NoCall = NoCall
  CountsRows = FALSE
INVARIANTS
  SuccessIsTrue
SYMMETRY Symmetry
CHECK_DEADLOCK FALSE
