SPECIFICATION PodsSpec
CONSTANTS
  a = a  b = b
  i1 = i1  i2 = i2
  p = p  q = q
  Objects = {a, b}
  Ips = {i1, i2}
  NoIp = NoIp
  Interfaces = {"eth0"}
  MasterIf = "eth0"
  Endpoints <- NodeSpecs
  Absent = Absent
  Me = Me
  Subscribers = {Me}
  QueueCap = 1
  TriggerCap = 1
  Changes = {}
  MaxChanges = 1
  MaxFaults = 1
  Pods = {p, q}
  PodStates <- States
  PodChanges = {"delete"}
  MaxPodChanges = 1
  PublishNotReady = FALSE
  SvcTriggerCap = 10
  Unknown = Unknown
INVARIANTS TypeOK NoLostSignal
PROPERTIES KeepsReadyPods ServesReadyPods
CHECK_DEADLOCK FALSE
