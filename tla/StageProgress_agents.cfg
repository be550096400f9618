SPECIFICATION Spec
CONSTANTS
  NStages = 2
  JobName = {"compile", "test"}
  JobsOf <- MCJobsOf
  LockBehavior = "lockOnFailure"
  Channel = {c1, c2}
  Monitor = {}
  User = {u1}
  NoAgent = NoAgent
  MaxCounter = 2
  MaxAttempt = 1
  MaxOperatorCalls = 1
  MaxCrashes = 1
SYMMETRY WorkerSymmetry
INVARIANTS
  NoLostCompletion
  VerdictMatchesJobs
  StagesRunInOrder
  PassReachesDownstream
  CompletionIsFollowedUp
CHECK_DEADLOCK FALSE
