CONSTANTS
  p0 = p0
  p1 = p1
  p2 = p2
  p3 = p3
  Pods = {p0, p1, p2}
  Pod0 = p0
  None = None
  Partial = Partial
  PrefixOf = {}
  ProbeSets <- Snapshot
  CheckSets <- Snapshot
  Faults = {"crash", "probe"}
  MaxCrashes = 1
  MaxFaults = 1
  MaxMishaps = 2
  MaxClusters = 4
  MaxIds = 12
SPECIFICATION FormedSpec
INVARIANTS
  NoSplit
CHECK_DEADLOCK FALSE
