SPECIFICATION FairSpec
CONSTANTS
  n1 = n1
  n2 = n2
  Nodes = {n1, n2}
  NoNode = NoNode
  Lease = 4
  Poll = 2
  TxTicks = 1
  Skew <- FastClock
  Past = 7
  Seeded = FALSE
  Errors = TRUE
  Crashes = TRUE
INVARIANT TypeOK
PROPERTIES NoEarlyTakeover LeaseIsKept BeliefIsRevised
