SPECIFICATION FairSpec
CONSTANTS
  NumMsgs = 0
  NumBackMsgs = 0
  MaxConns = 2
  PipeCap = 2
  DoneCap = 2
  Handlers = {h1}
  Admins = {a1}
  ClientMayLeave = FALSE
  BackendMayClose = FALSE
CHECK_DEADLOCK FALSE
PROPERTIES ClosedLinkIsReplaced
