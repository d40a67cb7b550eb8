SPECIFICATION FairSpec
CONSTANTS
  Names <- AppAndSidecars
  Typed = {"app"}
  Templates = {"plain", "stack"}
  Stack <- PlainAndStack
  SvcName <- SidecarNames
  Requests = {r1, r2}
  Failures = TRUE
  NoRequest = NoRequest
  MaxTags = 3
  KeepTags = 2
  NoDigest = NoDigest
  Domains = {d1, d2}
  Callers = {c1, c2}
  MaxRoutes = 4
  NoDomain = NoDomain
  n1 = n1
  n2 = n2
  a1 = a1
  a2 = a2
  v1 = v1
  Nodes = {n1, n2}
  Addresses = {a1, a2, a3}
  First <- FirstAddresses
  Unknown = Unknown
  MaxFaults = 1
  MaxMoves = 1
  MaxDowns = 1
  Versions = {v1, v2}
  Junk = Junk
  Partial = Partial
  None = None
  Ends <- SixMonths
  Keep = 9
INVARIANTS TypeOK PrimaryHasItsStack UntaggedHasCause CurrentImageKept RemovesItsOwn OwnAddressOrCause CordonedByAnUpdate RecentActionsKept
PROPERTIES SurvivorIsServed InstallIsAtomic
CHECK_DEADLOCK FALSE
