CONSTANTS
  p0 = p0
  p1 = p1
  p2 = p2
  p3 = p3
  Pods = {p0, p1, p2}
  Pod0 = p0
  None = None
  Partial = Partial
  PrefixOf = {}
  ProbeSets <- Snapshot
  CheckSets <- Snapshot
  Faults = {"rpc"}
  MaxCrashes = 0
  MaxFaults = 1
  MaxMishaps = 1
  MaxClusters = 4
  MaxIds = 12
SPECIFICATION FairSpec
PROPERTIES
  PromotionSettles
CHECK_DEADLOCK FALSE
