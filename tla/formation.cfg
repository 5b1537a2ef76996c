CONSTANTS
  p0 = p0
  p1 = p1
  p2 = p2
  p3 = p3
  Pods = {p0, p1, p2}
  Pod0 = p0
  None = None
  Partial = Partial
  PrefixOf <- OnePrefix
  ProbeSets <- OneByOne
  CheckSets <- Snapshot
  Faults = {"file", "lostAdd", "lostRemove"}
  MaxCrashes = 0
  MaxFaults = 2
  MaxMishaps = 2
  MaxClusters = 4
  MaxIds = 12
SPECIFICATION FairSpec
PROPERTIES
  AllJoin
CHECK_DEADLOCK FALSE
