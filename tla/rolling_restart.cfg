CONSTANTS
  p0 = p0
  p1 = p1
  p2 = p2
  p3 = p3
  Pods = {p0, p1, p2}
  Pod0 = p0
  None = None
  Partial = Partial
  PrefixOf = {}
  ProbeSets <- OneByOne
  CheckSets <- Snapshot
  Faults = {"crash", "lose", "lostAdd", "lostRemove"}
  MaxCrashes = 3
  MaxFaults = 1
  MaxMishaps = 4
  MaxClusters = 4
  MaxIds = 12
SPECIFICATION RollingSpec
INVARIANTS
  Recoverable
PROPERTIES
  AddKeepsQuorum
  AllJoin
CHECK_DEADLOCK FALSE
