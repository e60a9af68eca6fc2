SPECIFICATION Spec
CONSTANTS
  NumIds = 1
  NumPaths = 2
  NumInitial = 1
  MaxBackends = 2
  Dialers = {d1}
  Redials = {}
  MaxEdits = 2
  Threshold = 1
  ConDoneCap = 1
  UniqueIds = FALSE
PROPERTIES DeletedIsUnknown
CHECK_DEADLOCK FALSE
