SPECIFICATION FairSpec
CONSTANTS
  NumMsgs = 2
  NumBackMsgs = 0
  MaxConns = 2
  PipeCap = 1
  DoneCap = 1
  Handlers = {h1}
  Admins = {}
  ClientMayLeave = TRUE
  BackendMayClose = FALSE
CHECK_DEADLOCK FALSE
PROPERTIES BrokenLinkIsHealed LeavingEndsSession
