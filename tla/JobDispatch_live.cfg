SPECIFICATION FairSpec
CONSTANTS
  a1 = a1
  a2 = a2
  m1 = m1
  Agent = {a1}
  DbJob = {1}
  MemJob = {}
  Run = {r1}
  NoAgent = NoAgent
  NoJob = NoJob
  NoRun = NoRun
  AgentResources <- MCAgentResources
  AgentEnvironments <- MCAgentEnvironments
  JobResources <- MCJobResources
  JobEnvironments <- MCJobEnvironments
  PinnedAgent <- MCPinnedAgent
  NeverTimeout = {}
  MaxDeletions = 1
  MaxUplink = 1
  MaxCuts = 1
  MaxSchedulerCrashes = 1
  MaxRestarts = 0
  MaxServerFaults = 1
INVARIANTS
  NoStrandedJob
PROPERTIES
  KeepsContract
  ScheduledJobsDispatched
  AssignedJobsEnd
  LostAgentRecovers
CHECK_DEADLOCK FALSE
