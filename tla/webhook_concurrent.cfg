SPECIFICATION Spec
CONSTANTS
  p1 = p1
  p2 = p2
  w1 = w1
  w2 = w2
  d1 = d1
  d2 = d2
  Projects = {p1}
  Webhooks = {w1}
  Handlers = {h1, h2}
  ProjectOf <- OneProject
  Deliveries = {d1}
  Triggering <- AllTrigger
  MaxSends = 2
  MaxBuilds = 3
  KeepBuilds = 1
  Expiry = TRUE
  Errors = TRUE
  NoId = NoId
  NoWebhook = NoWebhook
  NoProject = NoProject
SYMMETRY HandlerSymmetry
INVARIANTS TypeOK ProcessedOnce
CHECK_DEADLOCK FALSE
