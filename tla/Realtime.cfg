SPECIFICATION Spec
CONSTANTS
  Total = 4
  RestPage = 100
  SocketPage = 500
  MaxLost = 1
  MaxFaults = 1
INVARIANTS
  HolesWereMissed
  NobodyListensInVain
PROPERTY TimelineIsTheLog
CHECK_DEADLOCK FALSE
