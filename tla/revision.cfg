SPECIFICATION Spec
CONSTANTS
  Calls = {c1, c2, c3}
  NoCall = NoCall
  CountsRows = TRUE
INVARIANTS
  OneWriterPerRevision
  RevisionCountsWrites
  AnswersAreTrue
SYMMETRY Symmetry
CHECK_DEADLOCK FALSE
