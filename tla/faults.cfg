CONSTANTS
  p0 = p0
  p1 = p1
  p2 = p2
  p3 = p3
  Pods = {p0, p1, p2}
  Pod0 = p0
  None = None
  Partial = Partial
  PrefixOf = {}
  ProbeSets <- EitherWay
  CheckSets <- Snapshot
  Faults = {"crash", "lose", "lostPromote", "rpc", "tls"}
  MaxCrashes = 2
  MaxFaults = 2
  MaxMishaps = 2
  MaxClusters = 4
  MaxIds = 12
SPECIFICATION Spec
CONSTRAINTS
  NoBareBoot
  OthersAtOnce
INVARIANTS
  TypeOK
  OneServing
  RunningHasData
PROPERTIES
  KeepsVotersData
SYMMETRY Sym
CHECK_DEADLOCK FALSE
