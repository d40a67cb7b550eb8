SPECIFICATION FairSpec
CONSTANTS
  Projects = {p1}
  b1 = b1
  b2 = b2
  Builds = {b1}
  Requests = {r1}
  Workers = {w1, w2}
  Stubs = {}
  Names = {b1, b2}
  JobName <- DistinctNames
  MaxStalled = 1
  BackoffLimit = 1
  PatchedStatuses = {"idle"}
  Crashes = TRUE
  LockLoss = FALSE
  DbErrors = TRUE
  K8sErrors = TRUE
  NoProject = NoProject
  NoBuild = NoBuild
  NoWorker = NoWorker
  NoImage = NoImage
INVARIANTS TypeOK ImagePushed CompletedMeansSuccess WedgeHasCause
PROPERTIES VerdictStands JobSettles
CHECK_DEADLOCK FALSE
