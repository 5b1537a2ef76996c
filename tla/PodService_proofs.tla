------------------------- MODULE PodService_proofs -------------------------
(***************************************************************************)
(* What holds of the Pod and Service controllers for any set of pods and   *)
(* hosts, any number of changes and faults, and any channel capacity.      *)
(***************************************************************************)
EXTENDS PodService, EcsNode_proofs

PodOK ==
  /\ pod \in [Pods -> PodStates \cup {Absent}]
  /\ leaving \subseteq PresentPods /\ podWork \subseteq Pods
  /\ synced \in BOOLEAN /\ publishing \in BOOLEAN
  /\ podInfo \in [Pods -> StatIP \cup {Unknown}]
  /\ podChanges \in 0..MaxPodChanges

SyncOK ==
  /\ signals \in 0..QueueCap /\ triggers \in 0..SvcTriggerCap /\ retries \in Nat
  /\ telling \in BOOLEAN /\ svcWork \in BOOLEAN /\ svcSending \in BOOLEAN
  /\ sync \in [at : {"none", "service", "endpoints"}, want : SUBSET Ips]

StoreOK ==
  /\ svcinfo \in SUBSET Ips /\ svc \in {"absent", "wrong", "right"}
  /\ ep \in Addresses /\ epCache \in Addresses /\ epStale \in BOOLEAN

SvcOK == SyncOK /\ StoreOK

\* The parts make up the type invariant.
LEMMA TypeParts == EcsTypes /\ PodOK /\ SvcOK <=> TypeOK
BY EcsTypeParts DEF TypeOK, PodOK, SvcOK, SyncOK, StoreOK

\* No sync is under way, and one that is differs from it.
LEMMA NoSyncType ==
  /\ NoSync \in [at : {"none", "service", "endpoints"}, want : SUBSET Ips]
  /\ NoSync.at = "none"
BY DEF NoSync

\* Whatever the composed system does, EcsNode does one of its own steps, or none.
LEMMA StepsOfEcs == ASSUME [Next]_vars PROVE EcsNext
<1> DEFINE still == UNCHANGED hostVars /\ (Fault \/ UNCHANGED faults)
<1>0. still => EcsNext
  BY DEF hostVars, EcsNext
<1>1. CASE UNCHANGED vars
  BY <1>0, <1>1 DEF vars
<1>2. CASE (EcsApi /\ UNCHANGED <<podVars, svcVars>>) \/ Hosts
  BY <1>2 DEF Hosts, EcsNext
<1>3. CASE HostReader
  BY <1>3, MeAssumption DEF HostReader, EcsNext
<1>4. CASE PodWorker
  BY <1>0, <1>4 DEF PodWorker, PodPublish, PodReconcile
<1>5. CASE SvcReader
  BY <1>0, <1>5 DEF SvcReader, SvcReceive, Tell, SyncList, SyncFails, PutService, PutEndpoints
<1>6. CASE SvcRetry \/ SvcWorker
  BY <1>0, <1>6 DEF SvcRetry, SvcWorker, SvcReconcile, SvcSend
<1>7. CASE DeliverEndpoints \/ EditService \/ EditEndpoints \/ Resync
  BY <1>0, <1>7 DEF DeliverEndpoints, EditService, EditEndpoints, Resync
<1>8. ASSUME NEW p \in Pods, WritePod(p) \/ DeletePod(p) PROVE EcsNext
  BY <1>0, <1>8 DEF WritePod, DeletePod, TouchPod
<1>9. CASE SvcCrash
  BY <1>9 DEF SvcCrash, EcsNext
<1> QED BY <1>1, <1>2, <1>3, <1>4, <1>5, <1>6, <1>7, <1>8, <1>9 DEF Next

-----------------------------------------------------------------------------
(* Types *)

\* stat looks hosts up in a map of sets of IPs.
LEMMA StatType ==
  ASSUME EcsTypes, PodOK, NEW p \in PresentPods PROVE p \in Pods /\ Stat(p) \in StatIP
<1>1. p \in Pods /\ pod[p] \in PodStates
  BY DEF PresentPods, PodOK
<1>2. pod[p].ready \in BOOLEAN /\ pod[p].host \in Ips \cup {NoIp}
  BY <1>1, PodAssumption
<1>3. copy[Me] \in [Ips -> SUBSET Ips]
  BY MeAssumption DEF EcsTypes, SubOK, HostMap
<1>4. Stat(p).ready \in BOOLEAN
  BY <1>2 DEF Stat
<1>5. (IF pod[p].host \in Ips THEN copy[Me][pod[p].host] ELSE {}) \in SUBSET Ips
  BY <1>3
<1> QED BY <1>1, <1>2, <1>5 DEF Stat, StatIP

\* ListPodHostIP lists only IPs.
LEMMA ListType == ASSUME PodOK PROVE ListPodHostIP \in SUBSET Ips
<1>1. ASSUME NEW p \in Pods, podInfo[p] # Unknown PROVE podInfo[p].ips \in SUBSET Ips
  BY <1>1 DEF PodOK, StatIP
<1> QED BY <1>1 DEF ListPodHostIP

\* Reconcile of a pod.
LEMMA PodReconcileType ==
  ASSUME EcsTypes, PodOK, NEW p \in Pods, PodReconcile(p) PROVE PodOK'
<1>1. UNCHANGED <<pod, leaving, podChanges>> /\ PresentPods' = PresentPods
  BY DEF PodReconcile, PresentPods
<1>2. CASE SyncOnce(p)
  <2>1. podInfo' \in [Pods -> StatIP \cup {Unknown}]
    BY <1>2, StatType DEF SyncOnce
  <2> QED BY <1>1, <1>2, <2>1 DEF SyncOnce, PodOK
<1>3. CASE PodGone(p)
  BY <1>1, <1>3 DEF PodGone, PodOK
<1>4. CASE PodLeaves(p)
  BY <1>1, <1>4 DEF PodLeaves, PodOK
<1>5. CASE PodChanged(p)
  <2>1. Stat(p) \in StatIP
    BY <1>5, StatType DEF PodChanged
  <2>2. podInfo' \in [Pods -> StatIP \cup {Unknown}] /\ publishing' \in BOOLEAN
    BY <1>5, <2>1 DEF PodChanged, PodOK
  <2> QED BY <1>1, <1>5, <2>2 DEF PodChanged, PodOK
<1> QED BY <1>2, <1>3, <1>4, <1>5 DEF PodReconcile

\* Changes of the pods themselves.
LEMMA PodApiType ==
  ASSUME PodOK, NEW p \in Pods, WritePod(p) \/ DeletePod(p) PROVE PodOK'
<1>1. TouchPod(p)
  BY DEF WritePod, DeletePod
<1>2. podChanges' \in 0..MaxPodChanges /\ podWork' \subseteq Pods /\ UNCHANGED <<synced, podInfo, publishing>>
  BY <1>1, SvcCapAssumption DEF TouchPod, PodOK
<1>3. CASE WritePod(p)
  <2>1. PICK s \in PodStates : pod' = [pod EXCEPT ![p] = s]
    BY <1>3 DEF WritePod
  <2>2. s # Absent
    BY AbsentPodAssumption
  <2>3. PresentPods \subseteq PresentPods'
    BY <2>1, <2>2 DEF PresentPods, PodOK
  <2> QED BY <1>2, <1>3, <2>1, <2>3 DEF WritePod, PodOK
<1>4. CASE DeletePod(p)
  <2>1. CASE leaving' = leaving \cup {p} /\ UNCHANGED pod
    BY <1>2, <1>4, <2>1 DEF DeletePod, PodOK, PresentPods
  <2>2. CASE leaving' = leaving \ {p} /\ pod' = [pod EXCEPT ![p] = Absent]
    <3>1. PresentPods' = PresentPods \ {p}
      BY <2>2 DEF PresentPods, PodOK
    <3> QED BY <1>2, <2>2, <3>1 DEF PodOK
  <2> QED BY <1>4, <2>1, <2>2 DEF DeletePod
<1> QED BY <1>3, <1>4

\* Every step keeps the types of the Pod controller's variables.
LEMMA PodNextType == ASSUME EcsTypes, PodOK, [Next]_vars PROVE PodOK'
<1>1. CASE UNCHANGED podVars
  BY <1>1 DEF podVars, PodOK, PresentPods
<1>2. CASE PodPublish
  BY <1>2 DEF PodPublish, PodOK, PresentPods
<1>3. CASE SvcCrash
  <2>1. PresentPods \subseteq Pods
    BY DEF PresentPods
  <2> QED BY <1>3, <2>1 DEF SvcCrash, PodOK, PresentPods
<1>4. UNCHANGED vars => UNCHANGED podVars
  BY DEF vars
<1> QED
  BY <1>1, <1>2, <1>3, <1>4, PodReconcileType, PodApiType
  DEF Next, Hosts, HostReader, PodWorker, SvcReader, SvcReceive, Tell, SyncList, SyncFails,
      PutService, PutEndpoints, SvcRetry, SvcWorker, SvcReconcile, SvcSend,
      DeliverEndpoints, EditService, EditEndpoints, Resync

\* A message that is sent fits into its channel.
LEMMA ChannelTypes ==
  ASSUME SyncOK
  PROVE  /\ triggers < SvcTriggerCap => triggers + 1 \in 0..SvcTriggerCap
         /\ triggers > 0 => triggers - 1 \in 0..SvcTriggerCap
         /\ signals < QueueCap => signals + 1 \in 0..QueueCap
         /\ signals > 0 => signals - 1 \in 0..QueueCap
         /\ 0 \in 0..SvcTriggerCap /\ 0 \in 0..QueueCap
         /\ retries + 1 \in Nat /\ (retries > 0 => retries - 1 \in Nat) /\ 0 \in Nat
BY SvcCapAssumption, EcsCapAssumption DEF SyncOK

\* Every step keeps the types of the Service controller's variables.
LEMMA SvcNextType == ASSUME EcsTypes, PodOK, SvcOK, [Next]_vars PROVE SvcOK'
<1> USE ChannelTypes DEF SvcOK
<1>1. CASE UNCHANGED svcVars
  BY <1>1 DEF svcVars, syncVars, storeVars, SyncOK, StoreOK
<1>2. CASE PodPublish
  <2>1. signals' \in 0..QueueCap
    BY <1>2 DEF PodPublish, SyncOK
  <2> QED BY <1>2, <2>1 DEF PodPublish, syncVars, storeVars, SyncOK, StoreOK
<1>3. CASE SvcReceive
  BY <1>3 DEF SvcReceive, storeVars, SyncOK, StoreOK
<1>4. CASE Tell
  BY <1>4 DEF Tell, storeVars, SyncOK, StoreOK
<1>5. CASE SyncList
  <2>1. sync' \in [at : {"none", "service", "endpoints"}, want : SUBSET Ips]
    BY <1>5, ListType DEF SyncList, SyncOK
  <2>2. retries' \in Nat
    BY <1>5 DEF SyncList, Delayed, SyncOK
  <2> QED BY <1>5, <2>1, <2>2 DEF SyncList, storeVars, SyncOK, StoreOK
<1>6. CASE SyncFails
  BY <1>6, NoSyncType DEF SyncFails, Delayed, storeVars, SyncOK, StoreOK
<1>7. CASE PutService
  <2>1. sync' \in [at : {"none", "service", "endpoints"}, want : SUBSET Ips]
    BY <1>7 DEF PutService, SyncOK
  <2>2. svcWork' \in BOOLEAN
    BY <1>7 DEF PutService, SyncOK
  <2> QED BY <1>7, <2>1, <2>2 DEF PutService, SyncOK, StoreOK
<1>8. CASE PutEndpoints
  <2>1. svcinfo' \in SUBSET Ips /\ ep' \in Addresses /\ epStale' \in BOOLEAN
    BY <1>8 DEF PutEndpoints, SyncOK, StoreOK, Addresses
  <2> QED BY <1>8, <2>1, NoSyncType DEF PutEndpoints, SyncOK, StoreOK
<1>9. CASE SvcRetry
  BY <1>9 DEF SvcRetry, storeVars, SyncOK, StoreOK
<1>10. CASE SvcReconcile
  <2>1. svcSending' \in BOOLEAN
    BY <1>10 DEF SvcReconcile
  <2> QED BY <1>10, <2>1 DEF SvcReconcile, syncVars, storeVars, SyncOK, StoreOK
<1>11. CASE SvcSend
  BY <1>11 DEF SvcSend, storeVars, SyncOK, StoreOK
<1>12. CASE DeliverEndpoints
  BY <1>12 DEF DeliverEndpoints, syncVars, SyncOK, StoreOK
<1>13. CASE EditService
  BY <1>13 DEF EditService, syncVars, SyncOK, StoreOK
<1>14. CASE EditEndpoints
  <2>1. ep' \in Addresses
    BY <1>14 DEF EditEndpoints, Addresses
  <2> QED BY <1>14, <2>1 DEF EditEndpoints, syncVars, SyncOK, StoreOK
<1>15. CASE Resync
  BY <1>15 DEF Resync, syncVars, storeVars, SyncOK, StoreOK
<1>16. CASE SvcCrash
  <2>1. svcWork' \in BOOLEAN
    BY <1>16 DEF SvcCrash
  <2> QED BY <1>16, <2>1, NoSyncType DEF SvcCrash, SyncOK, StoreOK
<1>17. UNCHANGED vars => UNCHANGED svcVars
  BY DEF vars
<1> QED
  BY <1>1, <1>2, <1>3, <1>4, <1>5, <1>6, <1>7, <1>8, <1>9, <1>10, <1>11, <1>12, <1>13,
     <1>14, <1>15, <1>16, <1>17
  DEF Next, Hosts, HostReader, PodWorker, PodReconcile, WritePod, DeletePod, TouchPod,
      SvcReader, SvcWorker

\* The types hold at the start.
LEMMA InitType == ASSUME Init PROVE EcsTypes /\ PodOK /\ SvcOK
<1>1. EcsTypes
  BY EcsInitType DEF Init
<1>2. 0 \in 0..MaxPodChanges /\ 0 \in 0..SvcTriggerCap /\ 0 \in 0..QueueCap
  BY SvcCapAssumption, EcsCapAssumption
<1>3. PodOK
  BY <1>2 DEF Init, PodOK, PresentPods
<1>4. SvcOK
  BY <1>2, NoSyncType DEF Init, SvcOK, SyncOK, StoreOK, Addresses
<1> QED BY <1>1, <1>3, <1>4

\* pod.go, service.go: every variable keeps its type: addresses that reach the
\* Endpoints are IPs of known hosts, never the name a pod gives its host.
THEOREM TypeCorrect == Spec => []TypeOK
<1>1. Init => EcsTypes /\ PodOK /\ SvcOK
  BY InitType
<1>2. EcsTypes /\ PodOK /\ SvcOK /\ [Next]_vars => (EcsTypes /\ PodOK /\ SvcOK)'
  BY StepsOfEcs, EcsNextType, PodNextType, SvcNextType
<1>3. EcsTypes /\ PodOK /\ SvcOK => TypeOK
  BY TypeParts
<1> QED BY <1>1, <1>2, <1>3, PTL DEF Spec

-----------------------------------------------------------------------------
(* The Pod controller as a subscriber *)

\* ecnode.go:121-128, pubsub.go:80-87, pod.go:126-150: the hosts the Pod controller looks
\* up are the published ones, or a message, a trigger or the loop will make them so.
THEOREM NoUpdateIsLost == Spec => []NoLostUpdate
<1>1. Init => EcsTypes /\ NoLostUpdate
  BY InitType, EcsInitFollows DEF Init
<1>2. EcsTypes /\ NoLostUpdate /\ [Next]_vars => (EcsTypes /\ NoLostUpdate)'
  BY StepsOfEcs, EcsNextType, EcsNextFollows
<1> QED BY <1>1, <1>2, PTL DEF Spec

\* ecnode.go:110-131, pod.go:126-150: PodService implements the promise of HostSync as
\* well: the copy the pods are looked up in only ever takes over published entries.
THEOREM CopiesAreHosts == Spec => CopiesHosts
<1>1. Init => EcsTypes /\ Promise!Init
  BY InitType, PromiseInit DEF Init
<1>2. EcsTypes /\ [Next]_vars => EcsTypes'
  BY StepsOfEcs, EcsNextType
<1>3. EcsTypes /\ EcsTypes' /\ [Next]_vars => [Promise!Next]_(Promise!vars)
  BY StepsOfEcs, Simulates
<1> QED BY <1>1, <1>2, <1>3, PTL DEF Spec, CopiesHosts, Promise!Spec

-----------------------------------------------------------------------------
(* No lost signal *)

\* A sync under way has the last list, or another one will follow it.
ListIsLast == sync # NoSync => Signalled \/ sync.want = ListPodHostIP

SignalInv == NoLostSignal /\ ListIsLast

\* The list depends on podInfo only.
LEMMA SameList == ASSUME UNCHANGED podInfo PROVE ListPodHostIP' = ListPodHostIP
BY DEF ListPodHostIP

\* A step that signals, or leaves everything alone, keeps the invariant.
LEMMA SignalKeeps == ASSUME Signalled' PROVE SignalInv'
BY DEF SignalInv, NoLostSignal, ListIsLast

\* So does one that leaves alone what they speak of.
LEMMA SameSignals ==
  ASSUME SignalInv, UNCHANGED <<podInfo, synced, publishing, signals, syncVars, svcinfo>>
  PROVE  SignalInv'
<1>1. ListPodHostIP' = ListPodHostIP
  BY SameList
<1> QED BY <1>1 DEF SignalInv, NoLostSignal, ListIsLast, Signalled, syncVars

\* Every reconcile that changes podInfo signals.
LEMMA PodReconcileSignals ==
  ASSUME SignalInv, NEW p \in Pods, PodReconcile(p) PROVE SignalInv'
<1>1. UNCHANGED <<signals, syncVars, svcinfo>>
  BY DEF PodReconcile, svcVars
<1>2. CASE publishing'
  BY <1>2, SignalKeeps DEF Signalled
<1>3. CASE ~publishing'
  <2>1. UNCHANGED <<podInfo, synced, publishing>>
    BY <1>3 DEF PodReconcile, SyncOnce, PodGone, PodLeaves, PodChanged
  <2> QED BY <1>1, <2>1, SameSignals
<1> QED BY <1>2, <1>3

\* The steps of the Service controller's goroutine.
LEMMA SvcReaderSignals ==
  ASSUME PodOK, SvcOK, SignalInv, SvcReader PROVE SignalInv'
<1> USE DEF SvcOK, SyncOK
<1>1. CASE SvcReceive
  BY <1>1, SignalKeeps DEF SvcReceive, Signalled
<1>2. CASE Tell
  <2>1. triggers' > 0
    BY <1>2 DEF Tell
  <2> QED BY <2>1, SignalKeeps DEF Signalled
<1>3. CASE SyncList
  <2>1. CASE synced
    <3>1. sync' = [at |-> "service", want |-> ListPodHostIP] /\ UNCHANGED <<podInfo, svcinfo>>
      BY <1>3, <2>1 DEF SyncList, podVars
    <3>2. sync'.want = ListPodHostIP' /\ sync' # NoSync
      BY <3>1, SameList, NoSyncType
    <3> QED BY <3>2 DEF SignalInv, NoLostSignal, ListIsLast
  <2>2. CASE ~synced
    <3>1. retries' > 0
      BY <1>3, <2>2 DEF SyncList, Delayed
    <3> QED BY <3>1, SignalKeeps DEF Signalled
  <2> QED BY <2>1, <2>2
<1>4. CASE SyncFails
  <2>1. retries' > 0
    BY <1>4 DEF SyncFails, Delayed
  <2> QED BY <2>1, SignalKeeps DEF Signalled
<1>5. CASE PutService
  <2>1. sync # NoSync
    BY <1>5, NoSyncType DEF PutService
  <2>2. sync' # NoSync /\ sync'.want = sync.want
    BY <1>5, NoSyncType DEF PutService
  <2>3. UNCHANGED <<podInfo, synced, publishing, signals, telling, triggers, retries, svcinfo>>
    BY <1>5 DEF PutService, podVars
  <2> QED BY <2>1, <2>2, <2>3, SameList DEF SignalInv, NoLostSignal, ListIsLast, Signalled
<1>6. CASE PutEndpoints
  <2>1. sync # NoSync /\ sync' = NoSync /\ svcinfo' = sync.want
    BY <1>6, NoSyncType DEF PutEndpoints
  <2>2. UNCHANGED <<podInfo, synced, publishing, signals, telling, triggers, retries>>
    BY <1>6 DEF PutEndpoints, podVars
  <2> QED BY <2>1, <2>2, SameList DEF SignalInv, NoLostSignal, ListIsLast, Signalled
<1> QED BY <1>1, <1>2, <1>3, <1>4, <1>5, <1>6 DEF SvcReader

\* Every step keeps the invariant.
LEMMA SignalNext ==
  ASSUME PodOK, SvcOK, SignalInv, [Next]_vars PROVE SignalInv'
<1>1. CASE UNCHANGED <<podVars, svcVars>>
  BY <1>1, SameSignals DEF podVars, svcVars
<1>2. CASE PodPublish
  <2>1. signals' > 0
    BY <1>2, EcsCapAssumption DEF PodPublish, SvcOK, SyncOK
  <2> QED BY <2>1, SignalKeeps DEF Signalled
<1>3. CASE SvcRetry \/ SvcSend
  <2>1. triggers' > 0
    BY <1>3 DEF SvcRetry, SvcSend, SvcOK, SyncOK
  <2> QED BY <2>1, SignalKeeps DEF Signalled
<1>4. CASE SvcReconcile \/ DeliverEndpoints \/ EditService \/ EditEndpoints \/ Resync
  BY <1>4, SameSignals
     DEF SvcReconcile, DeliverEndpoints, EditService, EditEndpoints, Resync, podVars
<1>5. ASSUME NEW p \in Pods, WritePod(p) \/ DeletePod(p) PROVE SignalInv'
  BY <1>5, SameSignals DEF WritePod, DeletePod, TouchPod, svcVars
<1>6. CASE SvcCrash
  <2>1. ~synced' /\ sync' = NoSync
    BY <1>6 DEF SvcCrash
  <2> QED BY <2>1 DEF SignalInv, NoLostSignal, ListIsLast
<1>7. UNCHANGED vars => UNCHANGED <<podVars, svcVars>>
  BY DEF vars
<1> QED
  BY <1>1, <1>2, <1>3, <1>4, <1>5, <1>6, <1>7, PodReconcileSignals, SvcReaderSignals
  DEF Next, Hosts, HostReader, PodWorker, SvcWorker

\* At the start nothing was listed, and nothing has to be.
LEMMA SignalInit == ASSUME Init PROVE SignalInv
BY DEF Init, SignalInv, NoLostSignal, ListIsLast

\* service.go:183-206, 246-297, pubsub.go:80-87: what the Endpoints were last made of
\* is what the pods say now, or it is on its way: no dropped signal, failed write or
\* late retry leaves an old list, however many pods change while one is written.
THEOREM NoSignalIsLost == Spec => []NoLostSignal
<1>1. Init => EcsTypes /\ PodOK /\ SvcOK /\ SignalInv
  BY InitType, SignalInit
<1>2. /\ EcsTypes /\ PodOK /\ SvcOK /\ SignalInv
      /\ [Next]_vars
      => (EcsTypes /\ PodOK /\ SvcOK /\ SignalInv)'
  BY StepsOfEcs, EcsNextType, PodNextType, SvcNextType, SignalNext
<1>3. SignalInv => NoLostSignal
  BY DEF SignalInv
<1> QED BY <1>1, <1>2, <1>3, PTL DEF Spec

-----------------------------------------------------------------------------
(* The Endpoints keep the addresses of pods that are ready *)

\* No two ECSNodes have the same master IP, the key of a host (ecnode.go:173-187).
HostsApart ==
  \A o1, o2 \in Objects :
    HasMaster(o1) /\ HasMaster(o2) /\ MasterIp(node[o1]) = MasterIp(node[o2]) => o1 = o2

\* No ECSNode is created or gets other addresses once the process has listed them;
\* ECSNodes may be deleted.  A later change of a host tells the Pod controller nothing
\* (pod.go:148-150), and the next sync lists what the host had.
HostsStay == \A o \in Objects : WriteObject(o) => ~inited

\* Before onceInit nothing is known of any host, and the pods are not listed.
NothingKnown ==
  ~inited =>
    /\ ~sending /\ trigger = 0 /\ queue[Me] = 0 /\ reading[Me] = Idle /\ copy[Me] = NoHosts
    /\ ~synced

\* After it, hostips has at least what a Reconcile of any ECSNode would write.
Settled ==
  inited => \A o \in Objects : HasMaster(o) => Entry(o) \subseteq hostips[MasterIp(node[o])]

\* The copy the pods are looked up in, once it is used, lacks nothing but what is being
\* read.  (No host is left to be read outside the loop: NoIp is none of Ips.)
Covered ==
  synced \/ reading[Me] # Idle \/ copy[Me] # NoHosts =>
    \A k \in Ips \ reading[Me] : hostips[k] \subseteq copy[Me][k]

\* What podInfo has of a pod.
KnownIps(p) == IF podInfo[p] = Unknown THEN {} ELSE podInfo[p].ips

\* x is known as it is, with all addresses of its host.
AsItIs(x) ==
  /\ pod[x].host \in Ips => hostips[pod[x].host] \subseteq KnownIps(x)
  /\ podInfo[x] # Unknown => podInfo[x].ready = pod[x].ready

\* So is every pod that stays and is not about to be reconciled.
PodsKnown == synced => \A x \in PresentPods \ (leaving \cup podWork) : AsItIs(x)

\* Nothing is listed before the pods are.
ListedSynced == sync # NoSync => synced

ReadyInv == NothingKnown /\ Settled /\ Covered /\ PodsKnown /\ ListedSynced

\* A new process knows nothing until its first Reconcile.
LEMMA NothingKnownNext ==
  ASSUME EcsTypes, NothingKnown, [Next]_vars PROVE NothingKnown'
<1> SUFFICES ASSUME ~inited'
             PROVE  (/\ ~sending /\ trigger = 0 /\ queue[Me] = 0 /\ reading[Me] = Idle
                     /\ copy[Me] = NoHosts /\ ~synced)'
  BY DEF NothingKnown
<1>1. CASE SvcCrash
  BY <1>1, MeAssumption DEF SvcCrash, EcsCrash, EcsRestart
<1>2. CASE ~SvcCrash
  <2>1. ~inited
    BY <1>2 DEF Next, EcsApi, WriteObject, FinalizeObject, Vanish, Touch, Hosts, Controller, SendTrigger,
        Reconcile, OnceInit, Ignore, Update, Publish, HostReader, Reader, Receive, ReadHost,
        StartPrune, PruneHost, Merged,
        PodWorker, PodPublish, PodReconcile, SvcReader, SvcReceive, Tell, SyncList, SyncFails, PutService,
        PutEndpoints, SvcRetry, SvcWorker, SvcReconcile, SvcSend, DeliverEndpoints, EditService,
        EditEndpoints, Resync, WritePod, DeletePod, TouchPod, vars, hostVars, pubVars
  <2>2. ~sending /\ trigger = 0 /\ queue[Me] = 0 /\ reading[Me] = Idle /\ copy[Me] = NoHosts /\ ~synced
    BY <2>1 DEF NothingKnown
  <2>3. CASE UNCHANGED <<sending, trigger, subVars, synced>>
    BY <2>2, <2>3 DEF subVars
  <2>4. ~Hosts
    BY <1>2, <2>1, <2>2 DEF Hosts, Controller, SendTrigger, Reconcile, OnceInit, Ignore, Update, Publish
  <2>5. ~HostReader
    BY <2>2, IdleIsNoSet DEF HostReader, Reader, Receive, ReadHost, StartPrune, PruneHost, Merged
  <2>6. \A p \in Pods : PodReconcile(p) => UNCHANGED synced
    BY <2>2 DEF PodReconcile, SyncOnce, HostsKnown, PodGone, PodLeaves, PodChanged
  <2>7. [Next]_vars => UNCHANGED <<sending, trigger, subVars, synced>>
    BY <1>2, <2>4, <2>5, <2>6
    DEF Next, EcsApi, WriteObject, FinalizeObject, Vanish, Touch, PodWorker, PodPublish, PodReconcile,
        SvcReader, SvcReceive, Tell, SyncList, SyncFails, PutService, PutEndpoints, SvcRetry, SvcWorker,
        SvcReconcile, SvcSend, DeliverEndpoints, EditService, EditEndpoints, Resync, WritePod, DeletePod,
        TouchPod, vars, hostVars, pubVars, podVars
  <2> QED BY <2>3, <2>7
<1> QED BY <1>1, <1>2

\* Once listed, an entry only ever loses addresses: what a Reconcile writes is there.
LEMMA EntriesShrink ==
  ASSUME EcsTypes, Settled, inited, inited', EcsNext, NEW k \in Ips
  PROVE  hostips'[k] \subseteq hostips[k]
<1>1. CASE UNCHANGED hostips
  BY <1>1
<1>2. ASSUME NEW o \in Objects, Update(o) PROVE hostips'[k] \subseteq hostips[k]
  <2>1. hostips' = [hostips EXCEPT ![MasterIp(node[o])] = Entry(o)] /\ HasMaster(o)
    BY <1>2 DEF Update
  <2>2. Entry(o) \subseteq hostips[MasterIp(node[o])]
    BY <2>1 DEF Settled
  <2> QED BY <2>1, <2>2 DEF EcsTypes, PubOK, HostMap
<1>3. UNCHANGED hostips \/ (\E o \in Objects : Update(o)) \/ ~inited'
  BY DEF EcsNext, EcsApi, WriteObject, FinalizeObject, Vanish, Touch, Controller, SendTrigger, Reconcile,
     OnceInit, Ignore, Publish, Reader, Receive, ReadHost,
     StartPrune, PruneHost, Merged, EcsCrash, EcsRestart, pubVars
<1> QED BY <1>1, <1>2, <1>3

\* The list has an entry for each ECSNode, and a Reconcile writes that of its own only.
LEMMA SettledNext ==
  ASSUME EcsTypes, HostsApart, HostsStay, Settled, EcsNext PROVE Settled'
<1> SUFFICES ASSUME inited', NEW o \in Objects, HasMaster(o)'
             PROVE  Entry(o)' \subseteq hostips'[MasterIp(node'[o])]
  BY DEF Settled
<1> USE DEF EcsTypes
<1>1. CASE UNCHANGED <<node, deleting, hostips, inited>>
  BY <1>1 DEF Settled, HasMaster, Present, Entry
<1>2. CASE EcsApi
  <2>1. PICK q \in Objects : WriteObject(q) \/ FinalizeObject(q) \/ Vanish(q)
    BY <1>2 DEF EcsApi
  <2>2. UNCHANGED <<hostips, inited>>
    BY <2>1 DEF WriteObject, FinalizeObject, Vanish, Touch
  <2>3. ~WriteObject(q)
    BY <2>2 DEF HostsStay
  <2>4. node'[o] = node[o] /\ (o \in deleting => o \in deleting')
    <3>1. node \in [Objects -> Specs] /\ node'[o] # Absent
      BY DEF ApiOK, HasMaster, Present
    <3>2. CASE FinalizeObject(q)
      BY <3>2 DEF FinalizeObject
    <3>3. CASE Vanish(q)
      BY <3>1, <3>3 DEF Vanish
    <3> QED BY <2>1, <2>3, <3>2, <3>3
  <2>5. HasMaster(o) /\ Entry(o)' \subseteq Entry(o)
    BY <2>4 DEF HasMaster, Present, Entry
  <2> QED BY <2>2, <2>4, <2>5 DEF Settled
<1>3. ASSUME NEW q \in Objects, Reconcile(q)
      PROVE  Entry(o)' \subseteq hostips'[MasterIp(node'[o])]
  <2>1. UNCHANGED <<node, deleting>>
    BY <1>3 DEF Reconcile, apiVars
  <2>2. HasMaster(o) /\ o \in Present /\ Entry(o)' = Entry(o)
    BY <2>1 DEF HasMaster, Present, Entry
  <2>3. MasterIp(node[o]) \in Ips
    BY <2>2, IpSetType DEF HasMaster
  <2>4. CASE OnceInit(q)
    <3> DEFINE k    == MasterIp(node[o])
               here == {n \in Present : MasterIp(node[n]) = k}
    <3>1. hostips' \in Listed
      BY <2>4 DEF OnceInit
    <3>2. IF here = {} THEN hostips'[k] = {} ELSE \E n \in here : hostips'[k] = IpSet(node[n])
      BY <2>3, <3>1 DEF Listed
    <3>3. PICK n \in here : hostips'[k] = IpSet(node[n])
      BY <2>2, <3>2
    <3>4. n \in Objects /\ HasMaster(n) /\ MasterIp(node[n]) = k
      BY <2>2, <3>3 DEF HasMaster, Present
    <3>5. n = o
      BY <2>2, <3>4 DEF HostsApart
    <3> QED BY <2>1, <2>2, <3>3, <3>5 DEF Entry
  <2>5. CASE Ignore(q)
    BY <2>1, <2>2, <2>5 DEF Ignore, Settled
  <2>6. CASE Update(q)
    <3>1. hostips' = [hostips EXCEPT ![MasterIp(node[q])] = Entry(q)] /\ HasMaster(q) /\ inited
      BY <2>6 DEF Update
    <3>2. CASE o = q
      BY <2>1, <2>2, <2>3, <3>1, <3>2 DEF PubOK, HostMap
    <3>3. CASE o # q
      <4>1. MasterIp(node[o]) # MasterIp(node[q])
        BY <2>2, <3>1, <3>3 DEF HostsApart
      <4>2. hostips'[MasterIp(node[o])] = hostips[MasterIp(node[o])]
        BY <2>3, <3>1, <4>1 DEF PubOK, HostMap
      <4> QED BY <2>1, <2>2, <3>1, <4>2 DEF Settled
    <3> QED BY <3>2, <3>3
  <2> QED BY <1>3, <2>4, <2>5, <2>6 DEF Reconcile
<1>4. ~EcsCrash
  BY DEF EcsCrash, EcsRestart
<1> QED
  BY <1>1, <1>2, <1>3, <1>4
  DEF EcsNext, Controller, SendTrigger, Publish, Reader, Receive, ReadHost,
      StartPrune, PruneHost, Merged, apiVars, pubVars

\* The loop takes over every entry it reads, and its end removes only what is gone.
LEMMA CoveredNext ==
  ASSUME EcsTypes, NothingKnown, Settled, Covered, [Next]_vars PROVE Covered'
<1> USE MeAssumption DEF EcsTypes
<1>1. EcsNext
  BY StepsOfEcs
<1> SUFFICES ASSUME (synced \/ reading[Me] # Idle \/ copy[Me] # NoHosts)',
                    NEW k \in Ips, k \notin reading'[Me]
             PROVE  hostips'[k] \subseteq copy'[Me][k]
  BY DEF Covered
<1>2. copy[Me] \in HostMap /\ (reading[Me] \in SUBSET Ips \/ reading[Me] = Idle) /\ k \notin Idle
  BY NoIpAssumption DEF SubOK, Idle
<1>3. CASE HostReader
  <2>1. UNCHANGED <<hostips, synced>>
    BY <1>3 DEF HostReader, Reader, Receive, ReadHost, StartPrune, PruneHost, Merged, pubVars, podVars
  <2>2. CASE Receive(Me)
    BY <2>2 DEF Receive, SubOK
  <2>3. ASSUME NEW i \in Ips, ReadHost(Me, i) PROVE hostips'[k] \subseteq copy'[Me][k]
    <3>1. reading'[Me] = reading[Me] \ {i} /\ reading[Me] # Idle
      BY <2>3 DEF ReadHost, SubOK
    <3>2. CASE k = i
      BY <1>2, <2>1, <2>3, <3>2 DEF ReadHost, SubOK, HostMap
    <3>3. CASE k # i
      <4>1. hostips[k] \subseteq copy[Me][k]
        BY <3>1, <3>3 DEF Covered
      <4>2. copy'[Me][k] = copy[Me][k]
        BY <1>2, <2>3, <3>3 DEF ReadHost, SubOK, HostMap
      <4> QED BY <2>1, <4>1, <4>2
    <3> QED BY <3>2, <3>3
  <2>4. CASE StartPrune(Me) \/ Merged(Me)
    <3>1. reading[Me] = {} /\ copy' = copy
      BY <2>4 DEF StartPrune, Merged
    <3> QED BY <2>1, <3>1, IdleIsNoSet DEF Covered
  <2>5. ASSUME NEW i \in Ips, PruneHost(Me, i) PROVE hostips'[k] \subseteq copy'[Me][k]
    <3>1. reading[Me] = {} /\ hostips[k] \subseteq copy[Me][k]
      BY <2>5, IdleIsNoSet DEF PruneHost, Covered
    <3>2. copy'[Me][k] = copy[Me][k] \/ (k = i /\ Gone(i))
      BY <1>2, <2>5 DEF PruneHost, Deleted, SubOK, HostMap
    <3> QED BY <2>1, <3>1, <3>2 DEF Gone
  <2> QED BY <1>3, <2>2, <2>3, <2>4, <2>5 DEF HostReader, Reader
<1>4. CASE SvcCrash
  BY <1>4 DEF SvcCrash, EcsCrash, EcsRestart
<1>5. CASE ~HostReader /\ ~SvcCrash
  <2>1. UNCHANGED <<copy, reading>>
    BY <1>5
    DEF Next, EcsApi, WriteObject, FinalizeObject, Vanish, Touch, Hosts, Controller, SendTrigger, Reconcile,
        Publish, PodWorker, PodPublish, PodReconcile, SvcReader, SvcReceive, Tell, SyncList, SyncFails,
        PutService, PutEndpoints, SvcRetry, SvcWorker, SvcReconcile, SvcSend, DeliverEndpoints, EditService,
        EditEndpoints, Resync, WritePod, DeletePod, TouchPod, vars, hostVars, subVars
  <2>2. synced' => synced \/ copy[Me] # NoHosts
    BY <1>5
    DEF Next, Hosts, PodWorker, PodPublish, PodReconcile, SyncOnce, HostsKnown, PodGone, PodLeaves, PodChanged,
        SvcReader, SvcReceive, Tell, SyncList, SyncFails, PutService, PutEndpoints, SvcRetry, SvcWorker,
        SvcReconcile, SvcSend, DeliverEndpoints, EditService, EditEndpoints, Resync, WritePod, DeletePod,
        TouchPod, vars, podVars
  <2>3. hostips[k] \subseteq copy[Me][k]
    BY <2>1, <2>2 DEF Covered
  <2>4. inited
    BY <2>1, <2>2 DEF NothingKnown
  <2>5. inited'
    BY <1>5, <2>4
    DEF Next, EcsApi, WriteObject, FinalizeObject, Vanish, Touch, Hosts, Controller, SendTrigger, Reconcile,
        OnceInit, Ignore, Update, Publish, PodWorker, PodPublish, PodReconcile, SvcReader, SvcReceive, Tell,
        SyncList, SyncFails, PutService, PutEndpoints, SvcRetry, SvcWorker, SvcReconcile, SvcSend,
        DeliverEndpoints, EditService, EditEndpoints, Resync, WritePod, DeletePod, TouchPod, vars, hostVars,
        pubVars
  <2>6. hostips'[k] \subseteq hostips[k]
    BY <1>1, <2>4, <2>5, EntriesShrink
  <2> QED BY <2>1, <2>3, <2>6
<1> QED BY <1>3, <1>4, <1>5

\* What is looked up in a copy that lacks nothing is the pod as it is.
LEMMA StatIsAsItIs ==
  ASSUME EcsTypes, PodOK, Covered, reading[Me] = Idle, synced \/ copy[Me] # NoHosts, NEW x \in PresentPods
  PROVE  /\ Stat(x).ready = pod[x].ready
         /\ pod[x].host \in Ips => hostips[pod[x].host] \subseteq Stat(x).ips
<1>1. ASSUME NEW k \in Ips PROVE hostips[k] \subseteq copy[Me][k]
  BY <1>1, NoIpAssumption DEF Covered, Idle
<1> QED BY <1>1 DEF Stat

\* Every change of a pod is queued, and a Reconcile knows the pod as it is.
LEMMA PodsKnownNext ==
  ASSUME EcsTypes, PodOK, NothingKnown, Settled, Covered, PodsKnown, [Next]_vars PROVE PodsKnown'
<1> SUFFICES ASSUME synced', NEW x \in Pods, pod'[x] # Absent, x \notin leaving', x \notin podWork'
             PROVE  AsItIs(x)'
  BY DEF PodsKnown, PresentPods
<1>0. EcsNext
  BY StepsOfEcs
<1>1. ASSUME NEW p \in Pods, PodReconcile(p) PROVE AsItIs(x)'
  <2>1. UNCHANGED <<pod, leaving, hostips>> /\ x \in PresentPods \ leaving
    BY <1>1 DEF PodReconcile, PresentPods, hostVars, pubVars
  <2>2. CASE SyncOnce(p)
    <3>1. podInfo'[x] = Stat(x)
      BY <2>1, <2>2 DEF SyncOnce
    <3>2. reading[Me] = Idle /\ copy[Me] # NoHosts
      BY <2>2 DEF SyncOnce, HostsKnown
    <3>3. KnownIps(x)' = Stat(x).ips
      BY <2>1, <3>1, StatType, UnknownAssumption DEF KnownIps, StatIP
    <3>4. /\ Stat(x).ready = pod[x].ready
          /\ pod[x].host \in Ips => hostips[pod[x].host] \subseteq Stat(x).ips
      BY <2>1, <3>2, StatIsAsItIs
    <3> QED BY <2>1, <3>1, <3>3, <3>4 DEF AsItIs
  <2>3. CASE x # p /\ ~SyncOnce(p)
    <3>1. synced /\ x \notin podWork /\ podInfo'[x] = podInfo[x]
      BY <1>1, <2>1, <2>3 DEF PodReconcile, PodGone, PodLeaves, PodChanged, PodOK
    <3> QED BY <2>1, <3>1 DEF PodsKnown, AsItIs, KnownIps
  <2>4. CASE x = p /\ PodChanged(p)
    <3>1. /\ Stat(x).ready = pod[x].ready
          /\ pod[x].host \in Ips => hostips[pod[x].host] \subseteq Stat(x).ips
      BY <2>1, <2>4, StatIsAsItIs DEF PodChanged
    <3>2. CASE podInfo'[x] = Stat(x)
      <4>1. KnownIps(x)' = Stat(x).ips
        BY <2>1, <3>2, StatType, UnknownAssumption DEF KnownIps, StatIP
      <4> QED BY <2>1, <3>1, <3>2, <4>1 DEF AsItIs
    <3>3. CASE podInfo'[x] = Unknown /\ Stat(x).ips = {}
      BY <2>1, <3>1, <3>3 DEF AsItIs, KnownIps
    <3>4. podInfo'[x] = Stat(x) \/ (podInfo'[x] = Unknown /\ Stat(x).ips = {})
      BY <2>4 DEF PodChanged, HadChanged, PodOK
    <3> QED BY <3>2, <3>3, <3>4
  <2>5. ~(x = p /\ (PodGone(p) \/ PodLeaves(p)))
    BY <2>1 DEF PodGone, PodLeaves
  <2> QED BY <1>1, <2>2, <2>3, <2>4, <2>5 DEF PodReconcile
<1>2. ASSUME NEW p \in Pods, WritePod(p) \/ DeletePod(p) PROVE AsItIs(x)'
  <2>1. podWork' = podWork \cup {p} /\ UNCHANGED <<synced, podInfo, hostips>>
    BY <1>2 DEF WritePod, DeletePod, TouchPod, hostVars, pubVars
  <2>2. x # p /\ x \notin podWork
    BY <2>1
  <2>3. pod'[x] = pod[x] /\ (x \in leaving => x \in leaving')
    BY <1>2, <2>2 DEF WritePod, DeletePod, PodOK
  <2>4. AsItIs(x)
    BY <2>1, <2>2, <2>3 DEF PodsKnown, PresentPods
  <2> QED BY <2>1, <2>3, <2>4 DEF AsItIs, KnownIps
<1>3. CASE UNCHANGED <<pod, leaving, podWork, synced, podInfo>>
  <2>1. AsItIs(x) /\ inited
    BY <1>3 DEF PodsKnown, PresentPods, NothingKnown
  <2>2. CASE inited'
    <3>1. \A k \in Ips : hostips'[k] \subseteq hostips[k]
      BY <1>0, <2>1, <2>2, EntriesShrink
    <3>2. KnownIps(x)' = KnownIps(x)
      BY <1>3 DEF KnownIps
    <3> QED BY <1>3, <2>1, <3>1, <3>2 DEF AsItIs
  <2>3. CASE ~inited'
    <3>1. NothingKnown'
      BY NothingKnownNext
    <3> QED BY <2>3, <3>1 DEF NothingKnown
  <2> QED BY <2>2, <2>3
<1>4. CASE SvcCrash
  BY <1>4 DEF SvcCrash
<1> QED
  BY <1>1, <1>2, <1>3, <1>4
  DEF Next, Hosts, HostReader, PodWorker, PodPublish, SvcReader, SvcReceive, Tell, SyncList, SyncFails,
      PutService, PutEndpoints, SvcRetry, SvcWorker, SvcReconcile, SvcSend, DeliverEndpoints, EditService,
      EditEndpoints, Resync, vars, podVars

\* A sync lists nothing before the pods are listed, and ends with the process.
LEMMA ListedSyncedNext == ASSUME ListedSynced, [Next]_vars PROVE ListedSynced'
<1>1. CASE UNCHANGED <<synced, sync>>
  BY <1>1 DEF ListedSynced
<1>2. ASSUME NEW p \in Pods, PodReconcile(p) PROVE ListedSynced'
  <2>1. UNCHANGED sync
    BY <1>2 DEF PodReconcile, svcVars, syncVars
  <2>2. synced => synced'
    BY <1>2 DEF PodReconcile, SyncOnce, PodGone, PodLeaves, PodChanged
  <2> QED BY <2>1, <2>2 DEF ListedSynced
<1>3. CASE SvcReader
  BY <1>3, NoSyncType
  DEF SvcReader, SvcReceive, Tell, SyncList, SyncFails, PutService, PutEndpoints, podVars, ListedSynced
<1>4. CASE SvcCrash
  BY <1>4 DEF SvcCrash, ListedSynced
<1> QED
  BY <1>1, <1>2, <1>3, <1>4
  DEF Next, Hosts, HostReader, PodWorker, PodPublish, SvcRetry, SvcWorker, SvcReconcile, SvcSend,
      DeliverEndpoints, EditService, EditEndpoints, Resync, WritePod, DeletePod, TouchPod, vars, podVars,
      svcVars, syncVars

\* What reaches the Endpoints is the last list, and that has every pod that is ready.
LEMMA PutKeepsPods ==
  ASSUME EcsTypes, PodOK, SignalInv, ReadyInv, PutEndpoints, ep # Absent,
         NEW x \in PresentPods \ leaving, pod[x].ready, pod[x].host \in Ips,
         synced => x \notin podWork /\ ~Signalled
  PROVE  (ep \cap hostips[pod[x].host]) \subseteq ep'
<1>1. x \in Pods
  BY DEF PresentPods
<1>2. sync # NoSync
  BY NoSyncType DEF PutEndpoints
<1>3. synced /\ x \notin podWork /\ ~Signalled
  BY <1>2 DEF ReadyInv, ListedSynced
<1>4. sync.want = ListPodHostIP
  BY <1>2, <1>3 DEF SignalInv, ListIsLast
<1>5. AsItIs(x)
  BY <1>3 DEF ReadyInv, PodsKnown
<1>6. KnownIps(x) \subseteq ListPodHostIP
  BY <1>1, <1>5 DEF KnownIps, ListPodHostIP, AsItIs
<1>7. ep' = ep \/ ep' = sync.want
  BY DEF PutEndpoints
<1> QED BY <1>4, <1>5, <1>6, <1>7 DEF AsItIs

\* pod.go:133-150, 168-197, 200-246, service.go:208-250: no sync takes an address of a
\* ready pod's host out of the Endpoints, with any number of restarts, of pods that come
\* and go, and of dropped signals and failed writes, once the pod's last change has been
\* handled.  It needs hosts that are told apart and do not change after they are listed.
THEOREM ReadyPodsAreKept ==
  Spec /\ []HostsApart /\ [][HostsStay]_vars => KeepsReadyPods
<1>1. Init => EcsTypes /\ PodOK /\ SvcOK /\ SignalInv /\ ReadyInv
  <2>1. Init => ReadyInv
    BY MeAssumption
    DEF Init, EcsInit, ReadyInv, NothingKnown, Settled, Covered, PodsKnown, ListedSynced
  <2> QED BY <2>1, InitType, SignalInit
<1>2. /\ EcsTypes /\ PodOK /\ SvcOK /\ SignalInv /\ ReadyInv
      /\ HostsApart /\ [HostsStay]_vars /\ [Next]_vars
      => (EcsTypes /\ PodOK /\ SvcOK /\ SignalInv /\ ReadyInv)'
  <2> SUFFICES ASSUME EcsTypes, PodOK, SvcOK, SignalInv, ReadyInv, HostsApart,
                      [HostsStay]_vars, [Next]_vars
               PROVE  (EcsTypes /\ PodOK /\ SvcOK /\ SignalInv /\ ReadyInv)'
    OBVIOUS
  <2>1. NothingKnown /\ Settled /\ Covered /\ PodsKnown /\ ListedSynced
    BY DEF ReadyInv
  <2>2. Settled'
    <3>1. EcsNext
      BY StepsOfEcs
    <3>2. CASE HostsStay
      BY <2>1, <3>1, <3>2, SettledNext
    <3>3. CASE UNCHANGED vars
      BY <2>1, <3>3 DEF vars, hostVars, apiVars, pubVars, Settled, HasMaster, Present, Entry
    <3> QED BY <3>2, <3>3
  <2>3. NothingKnown' /\ Covered' /\ PodsKnown' /\ ListedSynced'
    BY <2>1, NothingKnownNext, CoveredNext, PodsKnownNext, ListedSyncedNext
  <2>4. (EcsTypes /\ PodOK /\ SvcOK /\ SignalInv)'
    BY StepsOfEcs, EcsNextType, PodNextType, SvcNextType, SignalNext
  <2> QED BY <2>2, <2>3, <2>4 DEF ReadyInv
<1>3. EcsTypes /\ PodOK /\ SvcOK /\ SignalInv /\ ReadyInv /\ [Next]_vars
      => [PutEndpoints /\ ep # Absent =>
            \A p \in PresentPods \ leaving :
              pod[p].ready /\ pod[p].host \in Ips /\ (synced => p \notin podWork /\ ~Signalled)
                => (ep \cap hostips[pod[p].host]) \subseteq ep']_vars
  BY PutKeepsPods
<1> QED BY <1>1, <1>2, <1>3, PTL DEF Spec, KeepsReadyPods

=============================================================================
