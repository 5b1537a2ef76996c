SPECIFICATION Spec
CONSTANTS
  CAs = {1, 2, 3, 4}
  Absent = Absent
  Partial = Partial
  Foreign = Foreign
  Broken = Broken
  SelfNs = self
  RemoteNs = remote
  CaNamespaces = {self, remote}
  Namespaces = {self, app}
  Given <- Installations
  GivenClients = {Absent, 2}
  Mishaps = {"call", "crash", "client", "touch", "namespace"}
  MaxMishaps = 1
  Pods = {p}
  Issuers = {1, 2, 3, 4}
  NoFile = NoFile
  Empty = Empty
  MaxKills = 1
  MaxPodMishaps = 1
  Nodes = {n1, n2}
  Sts = Sts
  MinReplicas = 1
  MaxReplicas = 2
  NodeTriggerCap = 1
  Tries = 3
  Sizes = {1, 2}
  StsEvents = {"scale", "status", "delete", "leader", "lost"}
  MaxNodeChanges = 1
  MaxStsEvents = 3
INVARIANTS SecretTypeOK MemoryIsStored FilesTypeOK PairMatches OneTrust ReplicasTypeOK NoLostScale
PROPERTIES KeepsCA ClientsFollow StoredCAReachesPods ReplicasFollowNodes
CHECK_DEADLOCK FALSE
