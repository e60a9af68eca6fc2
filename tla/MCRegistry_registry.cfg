SPECIFICATION Spec
CONSTANTS
  Sessions = {s1, s2}
  Backends = {b1, b2}
  Edited = {b1}
  Handlers = {h1, h2}
  QueueCap = 2
  MaxFaults = 1
INVARIANTS TypeOK GaugeCounts DeletedIsBeingLeft DeletedIsLeft SettledIsRemoved StopReturns
SYMMETRY Symmetry
CHECK_DEADLOCK FALSE
