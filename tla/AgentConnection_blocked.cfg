SPECIFICATION FairSpec
CONSTANTS
  SendCap = 10
  RecvCap = 10
  MaxBuilds = 3
  MaxNotices = 0
  MaxBreaks = 1
PROPERTIES
  Reconnects
CHECK_DEADLOCK FALSE
