CONSTANTS
  NPipelines = 2
  Git = {repo}
  GitsOf <- MCGitsOf
  UpstreamsOf <- MCUpstreamsOf
  Poller = {poller}
  Channel = {c1}
  User = {user}
  MaxRevision = 2
  NStages <- MCNStages
  MaxRuns = 2
  MaxInputs = 1
SPECIFICATION FairSpec
INVARIANTS TypeOK FanInConsistent BuiltFromPassed NoSpuriousBuild
PROPERTIES SavedCommitIsBuilt
CHECK_DEADLOCK FALSE
