SPECIFICATION FairSpec
CONSTANTS
  p1 = p1
  p2 = p2
  d1 = d1
  d2 = d2
  Projects = {p1}
  Deploys = {d1, d2}
  Workers = {w1, w2}
  ProjectOf <- AllOfP1
  MaxFaults = 1
  PatchedStatuses = {"running"}
  PatchedTags = {}
  Attempts = 1
  MaxStalled = 1
  Routed = {}
  IsLeader = TRUE
  Phases = {"Looping", "Running"}
  NoTag = NoTag
  NoDeploy = NoDeploy
  NoWorker = NoWorker
  NoProject = NoProject
INVARIANTS TypeOK RunningIsApplied CompletedEverywhere
PROPERTIES NoRestartWhileDeploying DeploySettles
CHECK_DEADLOCK FALSE
