SPECIFICATION Spec
CONSTANTS
  NumMsgs = 0
  NumBackMsgs = 0
  MaxConns = 2
  PipeCap = 2
  DoneCap = 1
  Handlers = {h1, h2}
  Admins = {}
  ClientMayLeave = TRUE
  BackendMayClose = FALSE
CHECK_DEADLOCK FALSE
INVARIANTS ProcessSurvives
