SPECIFICATION Spec
CONSTANTS
  Projects = {p1}
  b1 = b1
  b2 = b2
  Builds = {b1, b2}
  Requests = {r1}
  Workers = {w1}
  Stubs = {}
  Names = {b1, b2}
  JobName <- DistinctNames
  MaxStalled = 1
  BackoffLimit = 0
  PatchedStatuses = {}
  Crashes = FALSE
  LockLoss = FALSE
  DbErrors = FALSE
  K8sErrors = FALSE
  NoProject = NoProject
  NoBuild = NoBuild
  NoWorker = NoWorker
  NoImage = NoImage
INVARIANT OneActiveBuild
CHECK_DEADLOCK FALSE
