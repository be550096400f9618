SPECIFICATION Spec
CONSTANTS
  a1 = a1
  a2 = a2
  m1 = m1
  Agent = {a1, a2}
  DbJob = {2}
  MemJob = {m1}
  Run = {r1, r2}
  NoAgent = NoAgent
  NoJob = NoJob
  NoRun = NoRun
  AgentResources <- MCAgentResources
  AgentEnvironments <- MCAgentEnvironments
  JobResources <- MCJobResources
  JobEnvironments <- MCJobEnvironments
  PinnedAgent <- MCPinnedAgent
  NeverTimeout = {2}
  MaxDeletions = 0
  MaxUplink = 1
  MaxCuts = 0
  MaxSchedulerCrashes = 1
  MaxRestarts = 1
  MaxServerFaults = 1
SYMMETRY RunSymmetry
INVARIANTS
  TypeOK
  AtMostOnceDispatch
  NoStrandedJob
  QuiescentAgentHasNoRun
PROPERTIES
  KeepsContract
  CompletedJobNotReopened
CHECK_DEADLOCK FALSE
