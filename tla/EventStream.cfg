SPECIFICATION FairSpec
CONSTANTS
  Conn = {k1}
  NoConn = NoConn
  Capacity = 1
  Replay = 1
  MaxSessions = 2
  PageSize = 1
  Before = 1
  MaxAlerts = 3
  MaxTrouble = 2
INVARIANTS StreamIsWhole NothingMissed PagesCoverAll
PROPERTIES CatchesUp

CHECK_DEADLOCK FALSE
