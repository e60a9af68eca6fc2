SPECIFICATION Spec
CONSTANTS
  NumMsgs = 2
  NumBackMsgs = 1
  MaxConns = 2
  PipeCap = 2
  DoneCap = 1
  Handlers = {h1, h2}
  Admins = {}
  ClientMayLeave = FALSE
  BackendMayClose = TRUE
CHECK_DEADLOCK FALSE
INVARIANTS TypeOK AtMostOnce InOrder ReaderHeldBack TokenInv ConnInv MessageInv
PROPERTIES MapMovesForward OwnFailureOnly KeepsRelayPromise
