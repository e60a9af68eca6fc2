SPECIFICATION Spec
CONSTANTS
  NumIds = 2
  NumPaths = 1
  NumInitial = 2
  MaxBackends = 2
  Dialers = {d1}
  Redials = {d1}
  MaxEdits = 1
  Threshold = 1
  ConDoneCap = 1
  UniqueIds = TRUE
INVARIANTS EditsAreHarmless
CHECK_DEADLOCK FALSE
