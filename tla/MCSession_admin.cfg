SPECIFICATION Spec
CONSTANTS
  NumMsgs = 0
  NumBackMsgs = 0
  MaxConns = 2
  PipeCap = 2
  DoneCap = 2
  Handlers = {h1, h2}
  Admins = {a1}
  ClientMayLeave = TRUE
  BackendMayClose = TRUE
CHECK_DEADLOCK FALSE
INVARIANTS SingleWriter SingleRedial CrashOnlyWhenClosing TokenInv
