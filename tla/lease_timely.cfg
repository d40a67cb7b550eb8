SPECIFICATION Spec
CONSTANTS
  n1 = n1
  n2 = n2
  Nodes = {n1, n2}
  NoNode = NoNode
  Lease = 4
  Poll = 2
  TxTicks = 1
  Skew <- FastClock
  Past = 8
  Seeded = TRUE
  Errors = FALSE
  Crashes = TRUE
INVARIANTS SoleLeader TakeoverBounded
