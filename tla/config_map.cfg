SPECIFICATION FairSpec
CONSTANTS
  a = a  b = b
  i1 = i1  i2 = i2
  Objects = {a, b}
  Ips = {i1, i2}
  NoIp = NoIp
  Interfaces = {"eth0", "eth1"}
  MasterIf = "eth0"
  Endpoints <- NodeSpecs
  Absent = Absent
  Me = Me
  Subscribers = {Me}
  QueueCap = 1
  TriggerCap = 1
  Changes = {"finalize", "vanish"}
  MaxChanges = 1
  MaxFaults = 2
  CmTriggerCap = 10
  Edits <- Writes
INVARIANTS TypeOK NoLostUpdate NoLostSync
PROPERTIES KeepsLiveHosts ListsEveryHost CopiesHosts CopiesCatchUp
CHECK_DEADLOCK FALSE
