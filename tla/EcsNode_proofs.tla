--------------------------- MODULE EcsNode_proofs ---------------------------
(***************************************************************************)
(* What every step of the ECSNode controller, of its publisher and of a    *)
(* subscriber keeps, in whatever system they are composed with.            *)
(***************************************************************************)
EXTENDS EcsNode, FiniteSetTheorems, TLAPS

\* Whatever may happen to the variables of EcsNode.
EcsNext ==
  \/ EcsApi \/ Controller \/ Publish
  \/ \E s \in Subscribers : Reader(s) \/ Merged(s)
  \/ EcsCrash
  \/ UNCHANGED <<apiVars, pubVars, subVars>> /\ (Fault \/ UNCHANGED faults)

-----------------------------------------------------------------------------
(* Types *)

ApiOK ==
  /\ node \in [Objects -> Specs] /\ \A o \in Objects : node[o] \in Endpoints[o] \cup {Absent}
  /\ deleting \subseteq Present /\ changes \in 0..MaxChanges

PubOK ==
  /\ work \subseteq Objects
  /\ inited \in BOOLEAN /\ sending \in BOOLEAN
  /\ hostips \in HostMap /\ trigger \in 0..TriggerCap

SubOK ==
  /\ queue \in [Subscribers -> 0..QueueCap]
  /\ copy \in [Subscribers -> HostMap]
  /\ reading \in [Subscribers -> (SUBSET Ips) \cup {Idle}]
  /\ pruning \in [Subscribers -> (SUBSET Ips) \cup {Idle}]
  /\ changed \in [Subscribers -> BOOLEAN]

FaultsOK == faults \in 0..MaxFaults

EcsTypes == ApiOK /\ PubOK /\ SubOK /\ FaultsOK

\* The parts make up the type invariant.
LEMMA EcsTypeParts == EcsTypes <=> EcsTypeOK
BY DEF EcsTypes, EcsTypeOK, ApiOK, PubOK, SubOK, FaultsOK

\* A set of IPs is never the mark of a subscriber that does not read.
LEMMA IdleIsNoSet == \A S \in SUBSET Ips : S # Idle
BY NoIpAssumption DEF Idle

\* getIpmap finds only IPs, and the master IP is one of them.
LEMMA IpSetType ==
  ASSUME ApiOK, NEW o \in Present
  PROVE  /\ IpSet(node[o]) \subseteq Ips
         /\ MasterIp(node[o]) \in Ips \cup {NoIp}
         /\ HasMaster(o) => MasterIp(node[o]) \in IpSet(node[o])
<1>1. o \in Objects /\ node[o] \in Endpoints[o]
  BY DEF ApiOK, Present
<1>2. \A i \in DOMAIN node[o] : node[o][i] \in Ips \cup {NoIp}
  BY <1>1, EndpointsAssumption
<1>3. IpSet(node[o]) \subseteq Ips
  BY <1>2 DEF IpSet, Tracked
<1>4. MasterIp(node[o]) \in Ips \cup {NoIp}
  BY <1>2 DEF MasterIp, Tracked
<1>5. HasMaster(o) => MasterIp(node[o]) \in IpSet(node[o])
  BY DEF HasMaster, MasterIp, IpSet
<1> QED BY <1>3, <1>4, <1>5

\* A fault that happened was counted.
LEMMA EcsFaultType ==
  ASSUME FaultsOK, Fault \/ UNCHANGED faults PROVE FaultsOK'
BY EcsBoundAssumption DEF FaultsOK, Fault

\* The types hold at the start.
LEMMA EcsInitType == ASSUME EcsInit PROVE EcsTypes
<1>1. Present \subseteq Objects
  BY DEF Present
<1>2. ApiOK /\ FaultsOK
  BY EcsBoundAssumption DEF EcsInit, ApiOK, FaultsOK
<1>0. 0 \in 0..TriggerCap /\ 0 \in 0..QueueCap
  BY EcsCapAssumption
<1>3. PubOK
  BY <1>0, <1>1 DEF EcsInit, PubOK, HostMap, NoHosts
<1>4. SubOK
  BY <1>0 DEF EcsInit, SubOK, HostMap, NoHosts
<1> QED BY <1>2, <1>3, <1>4 DEF EcsTypes

\* The API server only puts ECSNodes, and marks of deletion, where there may be some.
LEMMA EcsApiType == ASSUME EcsTypes, EcsApi PROVE EcsTypes'
<1> USE DEF EcsTypes
<1> PICK o \in Objects : WriteObject(o) \/ FinalizeObject(o) \/ Vanish(o)
  BY DEF EcsApi
<1>1. Touch(o)
  BY DEF WriteObject, FinalizeObject, Vanish
<1>2. PubOK' /\ SubOK' /\ FaultsOK' /\ changes' \in 0..MaxChanges
  BY <1>1, EcsBoundAssumption DEF Touch, subVars, ApiOK, PubOK, SubOK, FaultsOK
<1>3. CASE WriteObject(o)
  <2>1. PICK e \in Endpoints[o] : node' = [node EXCEPT ![o] = e]
    BY <1>3 DEF WriteObject
  <2>2. e \in Specs /\ e # Absent
    BY AbsentAssumption DEF Specs
  <2>3. Present \subseteq Present'
    BY <2>1, <2>2 DEF Present, ApiOK
  <2> QED BY <1>2, <1>3, <2>1, <2>2, <2>3 DEF WriteObject, ApiOK
<1>4. CASE FinalizeObject(o)
  BY <1>2, <1>4 DEF FinalizeObject, ApiOK, Present
<1>5. CASE Vanish(o)
  <2>1. Absent \in Specs
    BY DEF Specs
  <2>2. Present' = Present \ {o}
    BY <1>5 DEF Vanish, Present, ApiOK
  <2> QED BY <1>2, <1>5, <2>1, <2>2 DEF Vanish, ApiOK
<1> QED BY <1>3, <1>4, <1>5

\* Reconcile and the deferred send keep hostips a map from IPs to sets of IPs.
LEMMA ControllerType == ASSUME EcsTypes, Controller PROVE EcsTypes'
<1> USE DEF EcsTypes
<1>1. CASE SendTrigger
  <2>1. trigger' \in 0..TriggerCap
    BY <1>1, EcsCapAssumption DEF SendTrigger, PubOK
  <2> QED BY <1>1, <2>1 DEF SendTrigger, apiVars, subVars, ApiOK, PubOK, SubOK, FaultsOK, Present
<1>2. ASSUME NEW o \in Objects, Reconcile(o) PROVE EcsTypes'
  <2>1. ApiOK' /\ SubOK' /\ FaultsOK' /\ work' \subseteq Objects /\ trigger' \in 0..TriggerCap
    BY <1>2 DEF Reconcile, apiVars, subVars, ApiOK, PubOK, SubOK, FaultsOK, Present
  <2>2. CASE OnceInit(o)
    BY <2>1, <2>2 DEF OnceInit, Listed, PubOK
  <2>3. CASE Ignore(o)
    BY <2>1, <2>3 DEF Ignore, PubOK
  <2>4. CASE Update(o)
    <3>1. o \in Present
      BY <2>4 DEF Update, HasMaster
    <3>2. Entry(o) \subseteq Ips
      BY <3>1, IpSetType DEF Entry
    <3>3. NeedsPublish(o) \in BOOLEAN
      BY DEF NeedsPublish
    <3> QED BY <2>1, <2>4, <3>2, <3>3 DEF Update, PubOK, HostMap
  <2> QED BY <1>2, <2>2, <2>3, <2>4 DEF Reconcile
<1> QED BY <1>1, <1>2 DEF Controller

\* Publishing keeps the channels within their capacity.
LEMMA PublishType == ASSUME EcsTypes, Publish PROVE EcsTypes'
<1> USE DEF EcsTypes
<1>1. trigger' \in 0..TriggerCap
  BY EcsCapAssumption DEF Publish, PubOK
<1>2. queue' \in [Subscribers -> 0..QueueCap]
  BY EcsCapAssumption DEF Publish, SubOK
<1> QED BY <1>1, <1>2 DEF Publish, apiVars, ApiOK, PubOK, SubOK, FaultsOK, Present

\* A subscriber's loop keeps its copy a map, and reads each key once.
LEMMA ReaderType ==
  ASSUME EcsTypes, NEW s \in Subscribers, Reader(s) \/ Merged(s) PROVE EcsTypes'
<1> USE DEF EcsTypes
<1>1. CASE Receive(s)
  <2>1. queue' \in [Subscribers -> 0..QueueCap]
    BY <1>1, EcsCapAssumption DEF Receive, SubOK
  <2> QED BY <1>1, <2>1 DEF Receive, apiVars, pubVars, ApiOK, PubOK, SubOK, FaultsOK, Present
<1>2. ASSUME NEW k \in Ips, ReadHost(s, k) PROVE EcsTypes'
  <2>1. copy' \in [Subscribers -> HostMap] /\ changed' \in [Subscribers -> BOOLEAN]
    <3>1. hostips[k] \in SUBSET Ips /\ copy[s] \in [Ips -> SUBSET Ips]
      BY DEF PubOK, SubOK, HostMap
    <3>2. [copy[s] EXCEPT ![k] = hostips[k]] \in HostMap
      BY <3>1 DEF HostMap
    <3> QED BY <1>2, <3>2 DEF ReadHost, SubOK
  <2>2. reading' \in [Subscribers -> (SUBSET Ips) \cup {Idle}]
    BY <1>2 DEF ReadHost, SubOK
  <2> QED BY <1>2, <2>1, <2>2 DEF ReadHost, apiVars, pubVars, ApiOK, PubOK, SubOK, FaultsOK, Present
<1>3. CASE StartPrune(s)
  <2>1. Keys(copy[s]) \in SUBSET Ips
    BY DEF Keys
  <2> QED BY <1>3, <2>1 DEF StartPrune, apiVars, pubVars, ApiOK, PubOK, SubOK, FaultsOK, Present
<1>4. ASSUME NEW k \in Ips, PruneHost(s, k) PROVE EcsTypes'
  <2>1. [copy[s] EXCEPT ![k] = {}] \in HostMap
    BY DEF SubOK, HostMap
  <2>2. copy' \in [Subscribers -> HostMap] /\ changed' \in [Subscribers -> BOOLEAN]
    BY <1>4, <2>1 DEF PruneHost, Deleted, SubOK
  <2>3. pruning' \in [Subscribers -> (SUBSET Ips) \cup {Idle}]
    BY <1>4 DEF PruneHost, SubOK
  <2> QED BY <1>4, <2>2, <2>3 DEF PruneHost, apiVars, pubVars, ApiOK, PubOK, SubOK, FaultsOK, Present
<1>5. CASE Merged(s)
  BY <1>5 DEF Merged, apiVars, pubVars, ApiOK, PubOK, SubOK, FaultsOK, Present
<1> QED BY <1>1, <1>2, <1>3, <1>4, <1>5 DEF Reader

\* A new process starts with nothing.
LEMMA EcsCrashType == ASSUME EcsTypes, EcsCrash PROVE EcsTypes'
<1> USE DEF EcsTypes
<1>1. 0 \in 0..TriggerCap /\ 0 \in 0..QueueCap /\ Present \subseteq Objects
  BY EcsCapAssumption DEF Present
<1>2. ApiOK' /\ FaultsOK'
  BY EcsFaultType DEF EcsCrash, EcsRestart, apiVars, ApiOK, Present
<1>3. PubOK' /\ SubOK'
  BY <1>1 DEF EcsCrash, EcsRestart, PubOK, SubOK, HostMap, NoHosts
<1> QED BY <1>2, <1>3

\* Every step keeps the types.
LEMMA EcsNextType == ASSUME EcsTypes, EcsNext PROVE EcsTypes'
<1>1. CASE UNCHANGED <<apiVars, pubVars, subVars>> /\ (Fault \/ UNCHANGED faults)
  <2>1. FaultsOK'
    BY <1>1, EcsFaultType DEF EcsTypes
  <2> QED BY <1>1, <2>1 DEF EcsTypes, apiVars, pubVars, subVars, ApiOK, PubOK, SubOK, Present
<1> QED BY <1>1, EcsApiType, ControllerType, PublishType, ReaderType, EcsCrashType DEF EcsNext

-----------------------------------------------------------------------------
(* No lost update *)

\* A change of hostips that subscriber s has not been told of yet.
Told(s) == sending \/ trigger > 0 \/ queue[s] > 0

\* At key k, subscriber s has the current value or will read it.
Follows(s, k) ==
  copy[s][k] # hostips[k] =>
    \/ Told(s)
    \/ reading[s] # Idle /\ k \in reading[s]
    \/ reading[s] # Idle /\ hostips[k] = {} /\ (pruning[s] = Idle \/ k \in pruning[s])

\* What NoLostUpdate says, key by key.
LEMMA FollowsAll == NoLostUpdate <=> \A s \in Subscribers : \A k \in Ips : Follows(s, k)
BY DEF NoLostUpdate, Follows, Told

\* A copy with a key that is gone has more keys, if it has all of the others.
LEMMA MoreKeys ==
  ASSUME NEW f \in HostMap, NEW g \in HostMap, NEW k \in Ips,
         f[k] # {}, g[k] = {}, \A j \in Ips : g[j] # {} => f[j] # {}
  PROVE  Cardinality(Keys(f)) > Cardinality(Keys(g))
<1>1. Keys(f) \subseteq Ips /\ Keys(g) \subseteq Keys(f) /\ Keys(g) # Keys(f)
  BY DEF Keys
<1>2. IsFiniteSet(Keys(f))
  BY <1>1, IpsAssumption, FS_Subset
<1>3. Cardinality(Keys(g)) <= Cardinality(Keys(f)) /\ Cardinality(Keys(g)) # Cardinality(Keys(f))
  BY <1>1, <1>2, FS_Subset
<1>4. Cardinality(Keys(f)) \in Nat /\ Cardinality(Keys(g)) \in Nat
  BY <1>1, <1>2, FS_Subset, FS_CardinalityType
<1> QED BY <1>3, <1>4

\* At the end of the loops, with or without the second one, the copy is right, unless
\* there is something to be read.
LEMMA MergedFollows ==
  ASSUME EcsTypes, NoLostUpdate, NEW s \in Subscribers, Merged(s), ~Told(s), NEW k \in Ips
  PROVE  copy[s][k] = hostips[k]
<1>1. copy[s] \in HostMap /\ hostips \in HostMap
  BY DEF EcsTypes, SubOK, PubOK
<1>2. reading[s] = {} /\ (pruning[s] = {} \/ (pruning[s] = Idle /\ ~TooMany(s))) /\ {} # Idle
  BY IdleIsNoSet DEF Merged
<1>3. \A j \in Ips : copy[s][j] # hostips[j] => hostips[j] = {} /\ pruning[s] = Idle
  BY <1>2, FollowsAll DEF Follows
<1>4. CASE pruning[s] = {}
  BY <1>2, <1>3, <1>4
<1>5. CASE ~TooMany(s)
  <2>1. SUFFICES ASSUME copy[s][k] # hostips[k] PROVE FALSE
    OBVIOUS
  <2>2. hostips[k] = {} /\ copy[s][k] # {}
    BY <1>3, <2>1
  <2>3. \A j \in Ips : hostips[j] # {} => copy[s][j] # {}
    BY <1>3
  <2> QED BY <1>1, <1>5, <2>2, <2>3, MoreKeys DEF TooMany
<1> QED BY <1>2, <1>4, <1>5

\* A step that changes no copy and no entry, and forgets no message, changes nothing.
LEMMA SameFollows ==
  ASSUME NoLostUpdate, UNCHANGED <<hostips, sending, trigger, queue, copy, reading, pruning>>
  PROVE  NoLostUpdate'
BY DEF NoLostUpdate

\* Reconcile tells everybody of what it changes.
LEMMA ControllerFollows ==
  ASSUME EcsTypes, NoLostUpdate, Controller PROVE NoLostUpdate'
<1>1. CASE SendTrigger
  BY <1>1, EcsCapAssumption DEF SendTrigger, subVars, NoLostUpdate, EcsTypes, PubOK
<1>2. ASSUME NEW o \in Objects, Reconcile(o) PROVE NoLostUpdate'
  <2>1. UNCHANGED <<trigger, queue, copy, reading, pruning>> /\ ~sending
    BY <1>2 DEF Reconcile, subVars
  <2>2. CASE sending'
    BY <2>2 DEF NoLostUpdate
  <2>3. CASE ~sending'
    <3>1. CASE OnceInit(o)
      BY <2>3, <3>1 DEF OnceInit
    <3>2. CASE Ignore(o)
      BY <2>1, <3>2, SameFollows DEF Ignore
    <3>3. CASE Update(o)
      <4>1. hostips[MasterIp(node[o])] = Entry(o) /\ hostips' = [hostips EXCEPT ![MasterIp(node[o])] = Entry(o)]
        BY <2>3, <3>3 DEF Update, NeedsPublish
      <4>2. hostips' = hostips
        BY <4>1 DEF EcsTypes, PubOK, HostMap
      <4> QED BY <2>1, <2>3, <4>2 DEF NoLostUpdate
    <3> QED BY <1>2, <3>1, <3>2, <3>3 DEF Reconcile
  <2> QED BY <2>2, <2>3 DEF Reconcile
<1> QED BY <1>1, <1>2 DEF Controller

\* Every channel has a message after a publish, or was full before.
LEMMA PublishFollows ==
  ASSUME EcsTypes, NoLostUpdate, Publish PROVE NoLostUpdate'
<1>1. ASSUME NEW s \in Subscribers PROVE queue'[s] > 0
  BY EcsCapAssumption DEF Publish, EcsTypes, SubOK
<1> QED BY <1>1 DEF NoLostUpdate

\* Reading keeps what was not yet read; only the end of the loops has to be right.
LEMMA ReaderFollows ==
  ASSUME EcsTypes, NoLostUpdate, NEW s \in Subscribers, Reader(s) \/ Merged(s)
  PROVE  NoLostUpdate'
<1>0. UNCHANGED <<hostips, sending, trigger>>
  BY DEF Reader, Receive, ReadHost, StartPrune, PruneHost, Merged, pubVars
<1>1. ASSUME NEW t \in Subscribers \ {s}, NEW k \in Ips PROVE Follows(t, k)'
  <2> DEFINE same == /\ queue'[t] = queue[t] /\ copy'[t] = copy[t]
                    /\ reading'[t] = reading[t] /\ pruning'[t] = pruning[t]
  <2>1. same
    <3>1. CASE Receive(s) \/ StartPrune(s) \/ Merged(s)
      BY <3>1 DEF Receive, StartPrune, Merged, EcsTypes, SubOK
    <3>2. ASSUME NEW j \in Ips, ReadHost(s, j) PROVE same
      BY <3>2 DEF ReadHost, EcsTypes, SubOK
    <3>3. ASSUME NEW j \in Ips, PruneHost(s, j) PROVE same
      BY <3>3 DEF PruneHost, Deleted, EcsTypes, SubOK
    <3> QED BY <3>1, <3>2, <3>3 DEF Reader
  <2> QED BY <1>0, <2>1, FollowsAll DEF Follows, Told
<1>2. ASSUME NEW k \in Ips PROVE Follows(s, k)'
  <2>1. CASE Receive(s)
    <3>1. reading'[s] = Ips
      BY <2>1 DEF Receive, EcsTypes, SubOK
    <3> QED BY <3>1, IdleIsNoSet DEF Follows
  <2>2. ASSUME NEW j \in Ips, ReadHost(s, j) PROVE Follows(s, k)'
    <3>1. reading[s] \in SUBSET Ips /\ reading'[s] = reading[s] \ {j} /\ UNCHANGED <<queue, pruning>>
      BY <2>2 DEF ReadHost, EcsTypes, SubOK
    <3>2. reading[s] # Idle /\ reading'[s] # Idle
      BY <2>2, <3>1, IdleIsNoSet DEF ReadHost
    <3>3. CASE k = j
      <4>1. hostips[k] = {} \/ copy'[s][k] = hostips[k]
        BY <2>2, <3>3 DEF ReadHost, EcsTypes, SubOK, HostMap
      <4>2. pruning'[s] = Idle
        BY <2>2 DEF ReadHost
      <4> QED BY <1>0, <3>2, <4>1, <4>2 DEF Follows
    <3>4. CASE k # j
      <4>1. copy'[s][k] = copy[s][k]
        BY <2>2, <3>4 DEF ReadHost, EcsTypes, SubOK, HostMap
      <4> QED BY <1>0, <3>1, <3>2, <3>4, <4>1, FollowsAll DEF Follows, Told
    <3> QED BY <3>3, <3>4
  <2>3. CASE StartPrune(s)
    <3>1. reading[s] = {} /\ {} # Idle /\ pruning[s] = Idle /\ pruning'[s] = Keys(copy[s])
          /\ UNCHANGED <<queue, copy, reading>>
      BY <2>3, IdleIsNoSet DEF StartPrune, EcsTypes, SubOK
    <3>2. copy[s][k] # {} => k \in Keys(copy[s])
      BY DEF Keys
    <3> QED BY <1>0, <3>1, <3>2, FollowsAll DEF Follows, Told
  <2>4. ASSUME NEW j \in Ips, PruneHost(s, j) PROVE Follows(s, k)'
    <3>1. /\ reading[s] = {} /\ {} # Idle /\ pruning[s] \in SUBSET Ips /\ pruning[s] # Idle
          /\ pruning'[s] = pruning[s] \ {j} /\ UNCHANGED <<queue, reading>>
      BY <2>4, IdleIsNoSet DEF PruneHost, EcsTypes, SubOK
    <3>2. CASE k = j
      <4>1. CASE Gone(j)
        <5>1. copy'[s][k] = {}
          BY <2>4, <3>2, <4>1 DEF PruneHost, Deleted, EcsTypes, SubOK, HostMap
        <5> QED BY <1>0, <3>2, <4>1, <5>1 DEF Follows, Gone
      <4>2. CASE ~Gone(j)
        <5>1. copy' = copy
          BY <2>4, <4>2 DEF PruneHost
        <5> QED BY <1>0, <3>1, <3>2, <4>2, <5>1, FollowsAll DEF Follows, Told, Gone
      <4> QED BY <4>1, <4>2
    <3>3. CASE k # j
      <4>1. copy'[s][k] = copy[s][k]
        BY <2>4, <3>3 DEF PruneHost, Deleted, EcsTypes, SubOK, HostMap
      <4> QED BY <1>0, <3>1, <3>3, <4>1, FollowsAll DEF Follows, Told
    <3> QED BY <3>2, <3>3
  <2>5. CASE Merged(s)
    <3>1. UNCHANGED <<copy, queue>>
      BY <2>5 DEF Merged
    <3>2. CASE Told(s)
      BY <1>0, <3>1, <3>2 DEF Follows, Told
    <3>3. CASE ~Told(s)
      BY <1>0, <2>5, <3>1, <3>3, MergedFollows DEF Follows
    <3> QED BY <3>2, <3>3
  <2> QED BY <2>1, <2>2, <2>3, <2>4, <2>5 DEF Reader
<1>3. \A t \in Subscribers : \A k \in Ips : Follows(t, k)'
  BY <1>1, <1>2
<1> QED BY <1>3 DEF NoLostUpdate, Follows, Told

\* After a restart everything is empty.
LEMMA EcsCrashFollows == ASSUME EcsCrash PROVE NoLostUpdate'
BY DEF EcsCrash, EcsRestart, NoLostUpdate, NoHosts

\* Every step keeps what each subscriber has yet to hear of on its way.
LEMMA EcsNextFollows ==
  ASSUME EcsTypes, NoLostUpdate, EcsNext PROVE NoLostUpdate'
<1>1. CASE EcsApi
  <2>1. UNCHANGED <<hostips, sending, trigger, queue, copy, reading, pruning>>
    BY <1>1 DEF EcsApi, WriteObject, FinalizeObject, Vanish, Touch, subVars
  <2> QED BY <2>1, SameFollows
<1>2. CASE UNCHANGED <<apiVars, pubVars, subVars>>
  BY <1>2, SameFollows DEF pubVars, subVars
<1> QED BY <1>1, <1>2, ControllerFollows, PublishFollows, ReaderFollows, EcsCrashFollows DEF EcsNext

\* It holds at the start.
LEMMA EcsInitFollows == ASSUME EcsInit PROVE NoLostUpdate
BY DEF EcsInit, NoLostUpdate, NoHosts

-----------------------------------------------------------------------------
(* The promise to the subscribers *)

\* One entry that is read, or removed, is adopted.
LEMMA AdoptedOne ==
  ASSUME NEW s \in Subscribers, NEW k \in Ips, UNCHANGED hostips,
         copy' = [copy EXCEPT ![s][k] = hostips[k]]
  PROVE  Promise!Next
BY DEF Promise!Next, Promise!Adopt

\* Each step of EcsNode is one of the promise, or leaves its variables alone.
LEMMA Simulates ==
  ASSUME EcsTypes, EcsTypes', EcsNext PROVE [Promise!Next]_(Promise!vars)
<1> USE DEF EcsTypes
<1>1. CASE UNCHANGED <<hostips, copy>>
  BY <1>1 DEF Promise!vars
<1>2. CASE EcsApi \/ Publish \/ UNCHANGED <<apiVars, pubVars, subVars>>
  BY <1>1, <1>2 DEF EcsApi, WriteObject, FinalizeObject, Vanish, Touch, Publish, pubVars, subVars
<1>3. CASE Controller
  <2>1. UNCHANGED copy
    BY <1>3 DEF Controller, SendTrigger, Reconcile, subVars
  <2>2. hostips' \in Promise!Maps
    BY DEF PubOK, HostMap, Promise!Maps
  <2> QED BY <2>1, <2>2 DEF Promise!Next, Promise!Change
<1>4. ASSUME NEW s \in Subscribers, Reader(s) \/ Merged(s) PROVE [Promise!Next]_(Promise!vars)
  <2>1. UNCHANGED hostips
    BY <1>4 DEF Reader, Receive, ReadHost, StartPrune, PruneHost, Merged, pubVars
  <2>2. CASE Receive(s) \/ StartPrune(s) \/ Merged(s)
    BY <1>1, <2>1, <2>2 DEF Receive, StartPrune, Merged
  <2>3. ASSUME NEW k \in Ips, ReadHost(s, k) PROVE [Promise!Next]_(Promise!vars)
    <3>1. CASE UNCHANGED copy
      BY <1>1, <2>1, <3>1
    <3>2. CASE copy' = [copy EXCEPT ![s][k] = hostips[k]]
      BY <2>1, <3>2, AdoptedOne
    <3> QED BY <2>3, <3>1, <3>2 DEF ReadHost
  <2>4. ASSUME NEW k \in Ips, PruneHost(s, k) PROVE [Promise!Next]_(Promise!vars)
    <3>1. CASE UNCHANGED copy
      BY <1>1, <2>1, <3>1
    <3>2. CASE Gone(k) /\ Deleted(s, k)
      <4>1. copy' = [copy EXCEPT ![s][k] = hostips[k]]
        BY <3>2 DEF Gone, Deleted
      <4> QED BY <2>1, <4>1, AdoptedOne
    <3> QED BY <2>4, <3>1, <3>2 DEF PruneHost
  <2> QED BY <1>4, <2>2, <2>3, <2>4 DEF Reader
<1>5. CASE EcsCrash
  BY <1>5 DEF EcsCrash, EcsRestart, NoHosts, Promise!Next, Promise!Reset, Promise!EmptyMap
<1> QED BY <1>2, <1>3, <1>4, <1>5 DEF EcsNext

\* Nothing is published, and no copy made, at the start.
LEMMA PromiseInit == ASSUME EcsInit PROVE Promise!Init
BY DEF EcsInit, NoHosts, Promise!Init, Promise!EmptyMap

=============================================================================
