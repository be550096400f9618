SPECIFICATION FairSpec
CONSTANTS
  SendCap = 10
  RecvCap = 1
  MaxBuilds = 3
  MaxNotices = 1
  MaxBreaks = 1
INVARIANTS
  TypeOK
  ReportsInOrder
  NoReportLost
PROPERTIES
  ReconnectsUnlessBlocked
  PumpsEnd
  AgentStops
CHECK_DEADLOCK FALSE
