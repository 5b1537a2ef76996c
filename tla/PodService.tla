------------------------------ MODULE PodService ------------------------------
(***************************************************************************)
(* The Pod controller of ecsnode (pkg/controller/pod.go), which joins the  *)
(* pods' state with the host IPs of the ECSNode controller, and the        *)
(* Service controller (pkg/controller/service.go), which writes the IPs of *)
(* the pods' hosts to a headless Service and its Endpoints.                *)
(*                                                                         *)
(* A message of PodTopic is only a signal.  The Service controller watches *)
(* Endpoints too, but its filters let no event of an Endpoints through.    *)
(***************************************************************************)
EXTENDS EcsNode

CONSTANTS
  Me,            \* the Pod controller's subscriber ID
  Pods,          \* names of pods with the configured labels
  PodStates,     \* [host |-> status.hostIP or NoIp, ready |-> isReady]
  PodChanges,    \* "delete": pods are deleted
  MaxPodChanges, \* bound: changes of pods
  PublishNotReady, \* ServiceConfig.PublishNotReady
  SvcTriggerCap, \* capacity of the channel triggerch (10)
  Unknown        \* not in podInfo

ASSUME MeAssumption   == Me \in Subscribers
ASSUME PodAssumption  == PodStates \subseteq [host : Ips \cup {NoIp}, ready : BOOLEAN]
ASSUME AbsentPodAssumption == Absent \notin PodStates
ASSUME UnknownAssumption == Unknown \notin [ready : BOOLEAN, ips : SUBSET Ips]
ASSUME SvcCapAssumption == SvcTriggerCap \in Nat \ {0} /\ MaxPodChanges \in Nat
ASSUME PublishAssumption == PublishNotReady \in BOOLEAN /\ PodChanges \subseteq {"delete"}

VARIABLES
  pod,         \* the pods, as the informer's cache has them
  leaving,     \* pods with a DeletionTimestamp
  podWork,     \* the Pod controller's workqueue
  synced,      \* PodCtrl.done is closed
  podInfo,     \* PodCtrl.podInfo
  publishing,  \* the Pod controller's Reconcile is about to publish
  podChanges,
  signals,     \* number of messages in the Service controller's channel
  telling,     \* the reader of triggerch is about to send to it
  triggers,    \* number of elements in triggerch
  sync,        \* where syncService is, and the addresses it has listed
  retries,     \* goroutines that will send to triggerch after RequeuDelay
  svcWork,     \* the Service is in the Service controller's workqueue
  svcSending,  \* the Service controller's Reconcile is about to send to triggerch
  svcinfo,     \* addresses of the last sync that succeeded
  svc,         \* the Service: "absent", "wrong" or "right"
  ep,          \* the addresses in the Endpoints, or Absent
  epCache,     \* the client's copy of them
  epStale      \* ... is an old one

podVars   == <<pod, leaving, podWork, synced, podInfo, publishing, podChanges>>
syncVars  == <<telling, triggers, sync, retries>>
storeVars == <<svc, ep, epCache, epStale>>
svcVars   == <<signals, syncVars, svcWork, svcSending, svcinfo, storeVars>>
hostVars  == <<apiVars, pubVars, subVars>>
vars      == <<hostVars, faults, podVars, svcVars>>

NoSync == [at |-> "none", want |-> {}]

-----------------------------------------------------------------------------
(* The pods *)

PresentPods == {p \in Pods : pod[p] # Absent}

TouchPod(p) ==
  /\ podChanges < MaxPodChanges /\ podChanges' = podChanges + 1
  /\ podWork' = podWork \cup {p}
  /\ UNCHANGED <<hostVars, faults, synced, podInfo, publishing, svcVars>>

\* A pod is created or changes; it stays on its host.
WritePod(p) ==
  /\ \E s \in PodStates :
       /\ s # pod[p] /\ pod' = [pod EXCEPT ![p] = s]
       /\ p \in PresentPods => pod[p].host \in {NoIp, s.host}
  /\ UNCHANGED leaving
  /\ TouchPod(p)

DeletePod(p) ==
  /\ "delete" \in PodChanges /\ p \in PresentPods
  /\ \/ p \notin leaving /\ leaving' = leaving \cup {p} /\ UNCHANGED pod
     \/ p \in leaving /\ leaving' = leaving \ {p} /\ pod' = [pod EXCEPT ![p] = Absent]
  /\ TouchPod(p)

-----------------------------------------------------------------------------
(* The Pod controller *)

\* The goroutine of Start copies the hosts; no change of a host goes any further.
HostReader ==
  /\ Reader(Me) \/ Merged(Me)
  /\ UNCHANGED <<podVars, svcVars>>

\* Mutated form of Stat: a host IP that is not in hostIPDict is used as it is.
HostStat(p) == [ready |-> pod[p].ready,
                ips |-> IF pod[p].host \in Ips THEN copy[Me][pod[p].host] ELSE {pod[p].host}]

\* stat: the IPs are the ones the host has now.
Stat(p) == [ready |-> pod[p].ready,
            ips |-> IF pod[p].host \in Ips THEN copy[Me][pod[p].host] ELSE {}]

\* Mutated form of HadChanged: a pod that is known is compared by its IPs only.
NewIps(old, new) == IF old = Unknown THEN new.ips # {} ELSE old.ips # new.ips

HadChanged(old, new) == IF old = Unknown THEN new.ips # {} ELSE old # new

\* Mutated form of HostsKnown: the pods are listed without waiting for hosts.
NoWait == reading[Me] = Idle

\* hostHadSync, which waits for the goroutine that writes hostIPDict.
HostsKnown == reading[Me] = Idle /\ copy[Me] # NoHosts

\* syncOnce lists all pods; the reconcile goes on with its own pod, which it drops
\* again if it leaves.
SyncOnce(p) ==
  /\ ~synced /\ HostsKnown /\ synced' = TRUE
  /\ podWork' = podWork \ {p}
  /\ podInfo' = [q \in Pods |-> IF q \in PresentPods \ ({p} \cap leaving) THEN Stat(q) ELSE Unknown]
  /\ publishing' = TRUE

\* A pod that is gone leaves podInfo alone: it is looked up by an empty name.
PodGone(p) ==
  /\ synced /\ p \notin PresentPods
  /\ podWork' = podWork \ {p}
  /\ UNCHANGED <<synced, podInfo, publishing>>

PodLeaves(p) ==
  /\ synced /\ p \in leaving /\ podInfo[p] # Unknown
  /\ podWork' = podWork \ {p}
  /\ podInfo' = [podInfo EXCEPT ![p] = Unknown]
  /\ publishing' = TRUE
  /\ UNCHANGED synced

\* Any other pod, also one that leaves and is not in podInfo any more.
PodChanged(p) ==
  /\ synced /\ p \in PresentPods /\ ~(p \in leaving /\ podInfo[p] # Unknown)
  /\ reading[Me] = Idle
  /\ podWork' = podWork \ {p}
  /\ IF HadChanged(podInfo[p], Stat(p))
     THEN podInfo' = [podInfo EXCEPT ![p] = Stat(p)] /\ publishing' = TRUE
     ELSE UNCHANGED <<podInfo, publishing>>
  /\ UNCHANGED synced

PodReconcile(p) ==
  /\ p \in podWork /\ ~publishing
  /\ SyncOnce(p) \/ PodGone(p) \/ PodLeaves(p) \/ PodChanged(p)
  /\ UNCHANGED <<hostVars, faults, pod, leaving, podChanges, svcVars>>

PodPublish ==
  /\ publishing /\ publishing' = FALSE
  /\ signals' = IF signals < QueueCap THEN signals + 1 ELSE signals
  /\ UNCHANGED <<hostVars, faults, pod, leaving, podWork, synced, podInfo, podChanges,
                 syncVars, svcWork, svcSending, svcinfo, storeVars>>

\* ListPodHostIP: the IPs of the hosts of the pods that count.
ListPodHostIP ==
  UNION {podInfo[p].ips : p \in {q \in Pods : /\ podInfo[q] # Unknown
                                              /\ PublishNotReady \/ podInfo[q].ready}}

-----------------------------------------------------------------------------
(* The goroutine of ServiceSync.Start *)

AtSelect == ~telling /\ sync = NoSync

SvcReceive ==
  /\ AtSelect /\ signals > 0 /\ signals' = signals - 1
  /\ telling' = TRUE
  /\ UNCHANGED <<hostVars, faults, podVars, triggers, sync, retries, svcWork, svcSending,
                 svcinfo, storeVars>>

\* The goroutine that reads triggerch sends to it.
Tell ==
  /\ telling /\ telling' = FALSE
  /\ triggers < SvcTriggerCap /\ triggers' = triggers + 1
  /\ UNCHANGED <<hostVars, faults, podVars, signals, sync, retries, svcWork, svcSending,
                 svcinfo, storeVars>>

\* Mutated form of Delayed: a sync that fails is not tried again.
Forgotten == retries

\* A goroutine will send to triggerch after RequeuDelay.
Delayed == retries + 1

\* syncService lists the addresses, or fails and is tried again.
SyncList ==
  /\ AtSelect /\ triggers > 0 /\ triggers' = triggers - 1
  /\ IF synced THEN sync' = [at |-> "service", want |-> ListPodHostIP] /\ UNCHANGED retries
               ELSE retries' = Delayed /\ UNCHANGED sync
  /\ UNCHANGED <<hostVars, faults, podVars, signals, telling, svcWork, svcSending, svcinfo,
                 storeVars>>

\* CreateOrUpdate of the Service, then of the Endpoints, fails.
SyncFails ==
  /\ sync # NoSync /\ sync' = NoSync
  /\ \/ Fault
     \/ sync.at = "endpoints" /\ epCache # sync.want /\ epStale /\ UNCHANGED faults
  /\ retries' = Delayed
  /\ UNCHANGED <<hostVars, podVars, signals, telling, triggers, svcWork, svcSending, svcinfo,
                 storeVars>>

PutService ==
  /\ sync.at = "service" /\ sync' = [sync EXCEPT !.at = "endpoints"]
  /\ svc' = "right"
  /\ svcWork' = (svcWork \/ svc # "right")
  /\ UNCHANGED <<hostVars, faults, podVars, signals, telling, triggers, retries, svcSending,
                 svcinfo, ep, epCache, epStale>>

\* The Endpoints are written if the client's copy of them has other addresses.
PutEndpoints ==
  /\ sync.at = "endpoints" /\ sync' = NoSync
  /\ \/ epCache = sync.want /\ UNCHANGED <<ep, epStale>>
     \/ epCache # sync.want /\ ~epStale /\ ep' = sync.want /\ epStale' = TRUE
  /\ svcinfo' = sync.want
  /\ UNCHANGED <<hostVars, faults, podVars, signals, telling, triggers, retries, svcWork,
                 svcSending, svc, epCache>>

SvcRetry ==
  /\ retries > 0 /\ retries' = retries - 1
  /\ triggers < SvcTriggerCap /\ triggers' = triggers + 1
  /\ UNCHANGED <<hostVars, faults, podVars, signals, telling, sync, svcWork, svcSending,
                 svcinfo, storeVars>>

-----------------------------------------------------------------------------
(* ServiceSync.Reconcile *)

SvcReconcile ==
  /\ svcWork /\ svcWork' = FALSE
  /\ ~svcSending /\ svcSending' = (svc # "right" \/ epCache # svcinfo)
  /\ UNCHANGED <<hostVars, faults, podVars, signals, syncVars, svcinfo, storeVars>>

SvcSend ==
  /\ svcSending /\ svcSending' = FALSE
  /\ triggers < SvcTriggerCap /\ triggers' = triggers + 1
  /\ UNCHANGED <<hostVars, faults, podVars, signals, telling, sync, retries, svcWork, svcinfo,
                 storeVars>>

-----------------------------------------------------------------------------
(* The API server *)

\* The client's cache catches up.  No reconcile follows.
DeliverEndpoints ==
  /\ epStale /\ epStale' = FALSE /\ epCache' = ep
  /\ UNCHANGED <<hostVars, faults, podVars, signals, syncVars, svcWork, svcSending, svcinfo,
                 svc, ep>>

\* Somebody else changes or deletes the Service or the Endpoints.
EditService ==
  /\ Fault
  /\ svc' \in {"absent", "wrong"} \ {svc} /\ svcWork' = TRUE
  /\ UNCHANGED <<hostVars, podVars, signals, syncVars, svcSending, svcinfo, ep, epCache, epStale>>

EditEndpoints ==
  /\ Fault
  /\ ep' \in {Absent, {}} \ {ep} /\ epStale' = TRUE
  /\ UNCHANGED <<hostVars, podVars, signals, syncVars, svcWork, svcSending, svcinfo, svc, epCache>>

\* The informer queues the Service again every few hours, long after what is in
\* triggerch has been handled.
Resync ==
  /\ svc # "absent" /\ ~svcWork /\ svcWork' = TRUE
  /\ ~svcSending /\ triggers = 0 /\ retries = 0
  /\ UNCHANGED <<hostVars, faults, podVars, signals, syncVars, svcSending, svcinfo, storeVars>>

-----------------------------------------------------------------------------
\* The process ends, and another one starts.
SvcCrash ==
  /\ EcsCrash
  /\ podWork' = PresentPods /\ synced' = FALSE
  /\ podInfo' = [p \in Pods |-> Unknown] /\ publishing' = FALSE
  /\ signals' = 0 /\ telling' = FALSE /\ triggers' = 0 /\ sync' = NoSync /\ retries' = 0
  /\ svcWork' = (svc # "absent") /\ svcSending' = FALSE /\ svcinfo' = {}
  /\ epCache' = ep /\ epStale' = FALSE
  /\ UNCHANGED <<pod, leaving, podChanges, svc, ep>>

Init ==
  /\ EcsInit
  /\ pod \in [Pods -> PodStates \cup {Absent}] /\ leaving \in SUBSET PresentPods
  /\ podWork = PresentPods /\ synced = FALSE
  /\ podInfo = [p \in Pods |-> Unknown] /\ publishing = FALSE /\ podChanges = 0
  /\ signals = 0 /\ telling = FALSE /\ triggers = 0 /\ sync = NoSync /\ retries = 0
  /\ svcWork = FALSE /\ svcSending = FALSE /\ svcinfo = {}
  /\ svc = "absent" /\ ep = Absent /\ epCache = Absent /\ epStale = FALSE

Hosts     == (Controller \/ Publish) /\ UNCHANGED <<podVars, svcVars>>
PodWorker == PodPublish \/ \E p \in Pods : PodReconcile(p)
SvcReader == SvcReceive \/ Tell \/ SyncList \/ SyncFails \/ PutService \/ PutEndpoints
SvcWorker == SvcReconcile \/ SvcSend

Next ==
  \/ EcsApi /\ UNCHANGED <<podVars, svcVars>>
  \/ Hosts \/ HostReader \/ PodWorker
  \/ SvcReader \/ SvcRetry \/ SvcWorker
  \/ DeliverEndpoints \/ EditService \/ EditEndpoints \/ Resync
  \/ \E p \in Pods : WritePod(p) \/ DeletePod(p)
  \/ SvcCrash

Spec == Init /\ [][Next]_vars

\* Each goroutine keeps running, and the informers deliver and resync.
Fairness ==
  /\ WF_vars(Controller /\ UNCHANGED <<podVars, svcVars>>)
  /\ WF_vars(Publish /\ UNCHANGED <<podVars, svcVars>>)
  /\ WF_vars(HostReader) /\ WF_vars(PodWorker)
  /\ WF_vars(SvcReader) /\ WF_vars(SvcRetry) /\ WF_vars(SvcWorker)
  /\ WF_vars(DeliverEndpoints) /\ WF_vars(Resync)

FairSpec == Spec /\ Fairness

-----------------------------------------------------------------------------
(* Properties *)

StatIP    == [ready : BOOLEAN, ips : SUBSET Ips]
Addresses == (SUBSET Ips) \cup {Absent}

TypeOK ==
  /\ EcsTypeOK
  /\ pod \in [Pods -> PodStates \cup {Absent}]
  /\ leaving \subseteq PresentPods /\ podWork \subseteq Pods
  /\ synced \in BOOLEAN /\ publishing \in BOOLEAN
  /\ podInfo \in [Pods -> StatIP \cup {Unknown}]
  /\ signals \in 0..QueueCap /\ triggers \in 0..SvcTriggerCap /\ retries \in Nat
  /\ telling \in BOOLEAN /\ svcWork \in BOOLEAN /\ svcSending \in BOOLEAN
  /\ sync \in [at : {"none", "service", "endpoints"}, want : SUBSET Ips]
  /\ svcinfo \in SUBSET Ips /\ svc \in {"absent", "wrong", "right"}
  /\ ep \in Addresses /\ epCache \in Addresses /\ epStale \in BOOLEAN
  /\ podChanges \in 0..MaxPodChanges

\* A change of podInfo that no sync has listed yet.
Signalled == publishing \/ signals > 0 \/ telling \/ triggers > 0 \/ retries > 0

\* service.go:183-206, pubsub.go:80-87: podInfo is always listed again after its
\* last change, although signals are dropped, retried after five seconds, and
\* arrive while an earlier list is being written.
NoLostSignal ==
  synced /\ ListPodHostIP # svcinfo =>
    Signalled \/ (sync # NoSync /\ sync.want = ListPodHostIP)

\* pod.go:168-197, 204-210, service.go:246-250: nothing that is listed before the
\* hosts and the pods are known reaches the Endpoints: after a restart they keep
\* the addresses of every ready pod, unless a change of it is on its way.  One event more
\* than the run's bounds allow, two changes of a host and a restart, breaks it: a host loses
\* an address, a new process lists its pod without it, the address comes back while that
\* list is being written, and nobody is told (pod.go:148-150).
KeepsReadyPods ==
  [][PutEndpoints /\ ep # Absent =>
       \A p \in PresentPods \ leaving :
         pod[p].ready /\ pod[p].host \in Ips /\ (synced => p \notin podWork /\ ~Signalled)
           => (ep \cap hostips[pod[p].host]) \subseteq ep']_vars

\* ecsnode.md:187, 197: in the end the addresses are those of the hosts of the ready
\* pods.  Those of a pod that is gone may stay (pod.go:241-249), and a host that
\* changes later is not noticed (pod.go:148-150).
Counts(p) == p \in PresentPods \ leaving /\ (PublishNotReady \/ pod[p].ready)

Wanted ==
  UNION {IpSet(node[o]) : o \in {h \in Objects :
           HasMaster(h) /\ \E p \in Pods : Counts(p) /\ pod[p].host = MasterIp(node[h])}}

ServesReadyPods ==
  <>[](changes = 0 /\ PresentPods # {} /\ (\E o \in Objects : HasMaster(o)) =>
         /\ ep # Absent /\ Wanted \subseteq ep
         /\ PresentPods \ leaving = Pods => ep = Wanted)

=============================================================================
