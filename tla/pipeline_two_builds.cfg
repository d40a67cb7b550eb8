SPECIFICATION Spec
CONSTANTS
  Projects = {p1, p2}
  b1 = b1
  b2 = b2
  Builds = {b1, b2}
  Requests = {r1}
  Workers = {w1, w2}
  Stubs = {}
  Names = {b1, b2}
  JobName <- DistinctNames
  MaxStalled = 0
  BackoffLimit = 1
  PatchedStatuses = {"idle"}
  Crashes = TRUE
  LockLoss = FALSE
  DbErrors = TRUE
  K8sErrors = FALSE
  NoProject = NoProject
  NoBuild = NoBuild
  NoWorker = NoWorker
  NoImage = NoImage
SYMMETRY FullSymmetry
INVARIANTS ImagePushed WedgeHasCause
CHECK_DEADLOCK FALSE
