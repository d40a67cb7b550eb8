SPECIFICATION Spec
CONSTANTS
  p1 = p1
  p2 = p2
  w1 = w1
  w2 = w2
  d1 = d1
  d2 = d2
  Projects = {p1}
  Webhooks = {w1}
  Handlers = {h1}
  ProjectOf <- OneProject
  Deliveries = {d1, d2}
  Triggering <- PushesTrigger
  MaxSends = 2
  MaxBuilds = 2
  KeepBuilds = 2
  Expiry = FALSE
  Errors = FALSE
  NoId = NoId
  NoWebhook = NoWebhook
  NoProject = NoProject
SYMMETRY HandlerSymmetry
INVARIANT DuplicateWasProcessed
CHECK_DEADLOCK FALSE
