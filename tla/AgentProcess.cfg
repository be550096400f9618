SPECIFICATION FairSpec
CONSTANTS
  MaxAttempts = 3
  MaxMishaps = 2
  Command <- MCCommand
  Tree <- MCTree
  Var = {"X"}
  PipeCap = 1
  MaxLines = 1
  MaxEntries = 1
  MaxCancels = 1
INVARIANTS
  TypeOK
  OneIdentity
  KeyMatchesCertificate
  RunsAsPlanned
  PassedMeansDone
  NoArchiveLeft
PROPERTIES
  SavedFilesSurvive
  OutputPosted
  ComesUp
  BuildEnds
CHECK_DEADLOCK FALSE
