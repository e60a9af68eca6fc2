SPECIFICATION FairSpec
CONSTANTS
  NumIds = 2
  NumPaths = 1
  NumInitial = 1
  MaxBackends = 2
  Dialers = {d1, d2}
  Redials = {d2}
  MaxEdits = 3
  Threshold = 1
  ConDoneCap = 1
  UniqueIds = TRUE
INVARIANTS TypeOK FairShare EveryBackendOffered ActiveAccounted PoolMatchesConfig
PROPERTIES DeleteEnds DialReturns EndsAreReported
CHECK_DEADLOCK FALSE
