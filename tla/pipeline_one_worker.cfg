SPECIFICATION Spec
CONSTANTS
  Projects = {p1}
  b1 = b1
  b2 = b2
  Builds = {b1, b2}
  Requests = {r1}
  Workers = {w1, w2}
  Stubs = {w2}
  Names = {b1, b2}
  JobName <- CollidingNames
  MaxStalled = 1
  BackoffLimit = 0
  PatchedStatuses = {}
  Crashes = TRUE
  LockLoss = TRUE
  DbErrors = FALSE
  K8sErrors = FALSE
  NoProject = NoProject
  NoBuild = NoBuild
  NoWorker = NoWorker
  NoImage = NoImage
INVARIANTS ImagePushed
PROPERTY TagNeverGoesBack
CHECK_DEADLOCK FALSE
