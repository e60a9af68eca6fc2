SPECIFICATION Spec
CONSTANTS
  Sessions = {s1, s2}
  Urls <- MCUrls
  Ids = {"id1"}
  FileBackends <- MCFileBackends
  EnvGiven = {"PingTime", "BreakerThreshold"}
  RequestGiven = {"PingTime", "WriteBufferSize"}
  MaxFile = 1
  MaxAdded = 1
  MaxOwn = 1
  MaxMessages = 2
INVARIANTS TypeOK SettingsResolved GaugeDrift MeasuredAtClient OnlyOwnValvesHarm
SYMMETRY Symmetry
CHECK_DEADLOCK FALSE
