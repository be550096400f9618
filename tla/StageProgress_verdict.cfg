SPECIFICATION Spec
CONSTANTS
  NStages = 2
  JobName = {"compile", "test"}
  JobsOf <- MCJobsOf
  LockBehavior = "none"
  Channel = {c1, c2}
  Monitor = {m}
  User = {u1}
  NoAgent = NoAgent
  MaxCounter = 1
  MaxAttempt = 1
  MaxOperatorCalls = 0
  MaxCrashes = 0
INVARIANTS
  VerdictMatchesJobs
CHECK_DEADLOCK FALSE
