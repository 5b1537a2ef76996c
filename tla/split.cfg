CONSTANTS
  p0 = p0
  p1 = p1
  p2 = p2
  p3 = p3
  Pods = {p0, p1, p2}
  Pod0 = p0
  None = None
  Partial = Partial
  PrefixOf = {}
  ProbeSets <- Snapshot
  CheckSets <- OneByOne
  Faults = {"probe", "dir", "crash", "lose", "tls"}
  MaxCrashes = 2
  MaxFaults = 1
  MaxMishaps = 3
  MaxClusters = 4
  MaxIds = 12
SPECIFICATION Spec
CONSTRAINT
  NoBareBoot
INVARIANTS
  BootstrapWatched

  
SYMMETRY Sym
CHECK_DEADLOCK FALSE
