SPECIFICATION FairSpec
CONSTANTS
  NStages = 1
  JobName = {"compile"}
  JobsOf <- MCJobsOf
  LockBehavior = "unlockWhenFinished"
  Channel = {c1}
  Monitor = {m}
  User = {u1, u2}
  NoAgent = NoAgent
  MaxCounter = 1
  MaxAttempt = 2
  MaxOperatorCalls = 0
  MaxCrashes = 0
INVARIANTS
  TypeOK
  AtMostOneLatest
PROPERTIES
  StageEnds
CHECK_DEADLOCK FALSE
