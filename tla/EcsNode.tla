------------------------------- MODULE EcsNode -------------------------------
(***************************************************************************)
(* The ECSNode controller of ecsnode (pkg/controller/ecnode.go), the topic *)
(* it publishes to (pkg/util/pubsub.go), and the loop with which each      *)
(* subscriber copies what was published (configmap.go:98-127, and the same *)
(* code in pod.go:122-151).                                                *)
(*                                                                         *)
(* A message holds no data of its own: what is published is h.hostips      *)
(* itself, which the subscribers iterate over without a lock while         *)
(* Reconcile goes on writing it.  So a queue is only a number of messages. *)
(***************************************************************************)
EXTENDS Naturals, FiniteSets

CONSTANTS
  Objects,      \* names of ECSNode objects
  Ips,          \* IP addresses
  NoIp,         \* an endpoint without an address
  Interfaces,   \* EcsNodeConfig.Interfaces
  MasterIf,     \* EcsNodeConfig.MasterIf
  Endpoints,    \* Endpoints[o]: what Spec.Endpoints of o may be
  Absent,       \* an object that does not exist
  Subscribers,  \* IDs of the subscribers of EcsNodeTopic
  QueueCap,     \* capacity of a subscriber's channel (10)
  TriggerCap,   \* capacity of the channel trigger (10)
  Changes,      \* which of ChangeKinds may happen
  MaxChanges,   \* bound: changes of ECSNode objects
  MaxFaults     \* bound: crashes and other faults

ChangeKinds ==
  {"finalize",  \* an object gets a DeletionTimestamp, and a finalizer keeps it
   "vanish"}    \* an object is gone

ASSUME IpsAssumption    == IsFiniteSet(Ips)
ASSUME NoIpAssumption   == NoIp \notin Ips
ASSUME AbsentAssumption == \A o \in Objects : Absent \notin Endpoints[o]
ASSUME EcsCapAssumption == QueueCap \in Nat \ {0} /\ TriggerCap \in Nat \ {0}
ASSUME EcsBoundAssumption == Changes \subseteq ChangeKinds /\ MaxChanges \in Nat /\ MaxFaults \in Nat
ASSUME EndpointsAssumption ==
  \A o \in Objects : \A e \in Endpoints[o] : \A i \in DOMAIN e : e[i] \in Ips \cup {NoIp}

VARIABLES
  node,      \* the ECSNode objects, as the informer's cache has them
  deleting,  \* objects with a DeletionTimestamp
  work,      \* the controller's workqueue
  inited,    \* h.done is closed
  hostips,   \* h.hostips: {} where there is no entry for a master IP
  sending,   \* Reconcile is about to send to trigger
  trigger,   \* number of elements in h.trigger
  queue,     \* number of messages in each subscriber's channel
  copy,      \* each subscriber's copy of hostips (ConfigMapSync.data, PodCtrl.hostIPDict)
  reading,   \* keys each subscriber has still to read in its range over origin
  pruning,   \* keys of the copy that it has still to look up in origin, after that range
  changed,   \* whether len(changed) > 0 so far
  changes, faults

apiVars  == <<node, deleting, changes>>
pubVars  == <<work, inited, hostips, sending, trigger>>
subVars  == <<queue, copy, reading, pruning, changed>>
ecsVars  == <<apiVars, pubVars, subVars, faults>>

Fault == faults < MaxFaults /\ faults' = faults + 1

Idle      == {NoIp}               \* not in the range loop
HostMap   == [Ips -> SUBSET Ips]
NoHosts   == [k \in Ips |-> {}]
Keys(m)   == {k \in Ips : m[k] # {}}

-----------------------------------------------------------------------------
(* The ECSNode objects *)

\* getIpmap: the master IP and the IPs of the interfaces in the configuration.
Tracked(e)  == DOMAIN e \cap Interfaces
MasterIp(e) == IF MasterIf \in Tracked(e) THEN e[MasterIf] ELSE NoIp

\* Mutated form of IpSet: an endpoint without an address counts.
EveryIp(e) == {e[i] : i \in Tracked(e)}

IpSet(e) == {e[i] : i \in Tracked(e)} \ {NoIp}

Present == {o \in Objects : node[o] # Absent}

\* o exists, and has a master IP.
HasMaster(o) == o \in Present /\ MasterIp(node[o]) # NoIp

\* The informer sees a change of o and queues it.
Touch(o) ==
  /\ changes < MaxChanges /\ changes' = changes + 1
  /\ work' = work \cup {o}
  /\ UNCHANGED <<inited, hostips, sending, trigger, subVars, faults>>

WriteObject(o) ==
  /\ \E e \in Endpoints[o] : e # node[o] /\ node' = [node EXCEPT ![o] = e]
  /\ UNCHANGED deleting
  /\ Touch(o)

FinalizeObject(o) ==
  /\ "finalize" \in Changes /\ o \in Present \ deleting
  /\ deleting' = deleting \cup {o}
  /\ UNCHANGED node
  /\ Touch(o)

Vanish(o) ==
  /\ "vanish" \in Changes /\ o \in Present
  /\ node' = [node EXCEPT ![o] = Absent]
  /\ deleting' = deleting \ {o}
  /\ Touch(o)

-----------------------------------------------------------------------------
(* Reconcile *)

\* onceInit's loop over the list: the last of the objects with a master IP wins.
Listed ==
  {m \in HostMap : \A k \in Ips :
     LET here == {o \in Present : MasterIp(node[o]) = k}
     IN  IF here = {} THEN m[k] = {} ELSE \E o \in here : m[k] = IpSet(node[o])}

OnceInit(o) ==
  /\ ~inited /\ inited' = TRUE
  /\ hostips' \in Listed
  /\ sending' = TRUE

\* An object that is gone, or has no master IP, leaves hostips alone.
Ignore(o) ==
  /\ inited /\ ~HasMaster(o)
  /\ UNCHANGED <<inited, hostips, sending>>

\* What a reconcile of o writes to hostips at o's master IP.
Entry(o) == IF o \in deleting THEN {} ELSE IpSet(node[o])

\* Mutated form of NeedsPublish: removing an entry publishes nothing.
OnlyNew(o) == o \notin deleting /\ hostips[MasterIp(node[o])] # Entry(o)

NeedsPublish(o) == o \in deleting \/ hostips[MasterIp(node[o])] # Entry(o)

Update(o) ==
  /\ inited /\ HasMaster(o)
  /\ hostips' = [hostips EXCEPT ![MasterIp(node[o])] = Entry(o)]
  /\ sending' = NeedsPublish(o)
  /\ UNCHANGED inited

Reconcile(o) ==
  /\ o \in work /\ ~sending
  /\ work' = work \ {o}
  /\ OnceInit(o) \/ Ignore(o) \/ Update(o)
  /\ UNCHANGED <<apiVars, trigger, subVars, faults>>

\* The deferred send, which blocks while the channel is full.
SendTrigger ==
  /\ sending /\ trigger < TriggerCap
  /\ sending' = FALSE /\ trigger' = trigger + 1
  /\ UNCHANGED <<apiVars, work, inited, hostips, subVars, faults>>

\* Publish: a subscriber whose channel is full does not get the message.
Publish ==
  /\ trigger > 0 /\ trigger' = trigger - 1
  /\ queue' = [s \in Subscribers |-> IF queue[s] < QueueCap THEN queue[s] + 1 ELSE queue[s]]
  /\ UNCHANGED <<apiVars, work, inited, hostips, sending, copy, reading, pruning, changed, faults>>

-----------------------------------------------------------------------------
(* A subscriber's goroutine *)

Receive(s) ==
  /\ queue[s] > 0 /\ reading[s] = Idle
  /\ queue' = [queue EXCEPT ![s] = @ - 1]
  /\ reading' = [reading EXCEPT ![s] = Ips]
  /\ changed' = [changed EXCEPT ![s] = FALSE]
  /\ UNCHANGED <<apiVars, pubVars, copy, pruning, faults>>

\* One iteration of the range over origin, which is hostips as it is now.
ReadHost(s, k) ==
  /\ reading[s] # Idle /\ pruning[s] = Idle /\ k \in reading[s]
  /\ reading' = [reading EXCEPT ![s] = @ \ {k}]
  /\ IF hostips[k] \in {{}, copy[s][k]}
     THEN UNCHANGED <<copy, changed>>
     ELSE /\ copy' = [copy EXCEPT ![s][k] = hostips[k]]
          /\ changed' = [changed EXCEPT ![s] = TRUE]
  /\ UNCHANGED <<apiVars, pubVars, queue, pruning, faults>>

\* len(s.data) > len(origin): there are entries of hosts that are gone.
TooMany(s) == Cardinality(Keys(copy[s])) > Cardinality(Keys(hostips))

\* The range over the copy, which looks up each of its keys in hostips as it is then.
StartPrune(s) ==
  /\ reading[s] = {} /\ pruning[s] = Idle /\ TooMany(s)
  /\ pruning' = [pruning EXCEPT ![s] = Keys(copy[s])]
  /\ UNCHANGED <<apiVars, pubVars, queue, copy, reading, changed, faults>>

\* Mutated form of Gone: the copy is emptied.
AnyKey(k) == TRUE

Gone(k) == hostips[k] = {}

\* Mutated form of Deleted: an entry that is removed does not count as a change.
DeletedSilently(s, k) == copy' = [copy EXCEPT ![s][k] = {}] /\ UNCHANGED changed

Deleted(s, k) ==
  /\ copy' = [copy EXCEPT ![s][k] = {}]
  /\ changed' = [changed EXCEPT ![s] = TRUE]

PruneHost(s, k) ==
  /\ reading[s] = {} /\ pruning[s] # Idle /\ k \in pruning[s]
  /\ pruning' = [pruning EXCEPT ![s] = @ \ {k}]
  /\ \/ Gone(k) /\ Deleted(s, k)
     \/ ~Gone(k) /\ UNCHANGED <<copy, changed>>
  /\ UNCHANGED <<apiVars, pubVars, queue, reading, faults>>

\* The end of the loops.
Merged(s) ==
  /\ reading[s] = {}
  /\ pruning[s] = {} \/ (pruning[s] = Idle /\ ~TooMany(s))
  /\ reading' = [reading EXCEPT ![s] = Idle]
  /\ pruning' = [pruning EXCEPT ![s] = Idle]
  /\ changed' = [changed EXCEPT ![s] = FALSE]
  /\ UNCHANGED <<apiVars, pubVars, queue, copy, faults>>

-----------------------------------------------------------------------------
(* The process *)

\* A new process, or a new leader: the informer queues every object it lists.
EcsRestart ==
  /\ work' = Present
  /\ inited' = FALSE /\ hostips' = NoHosts
  /\ sending' = FALSE /\ trigger' = 0
  /\ queue' = [s \in Subscribers |-> 0]
  /\ copy' = [s \in Subscribers |-> NoHosts]
  /\ reading' = [s \in Subscribers |-> Idle]
  /\ pruning' = [s \in Subscribers |-> Idle]
  /\ changed' = [s \in Subscribers |-> FALSE]
  /\ UNCHANGED apiVars

\* The process crashes, also because the Go runtime notices that a map is written
\* while another goroutine iterates over it, or its leadership is lost.
EcsCrash == EcsRestart /\ Fault

-----------------------------------------------------------------------------
\* What any ECSNode may be.
Specs == (UNION {Endpoints[o] : o \in Objects}) \cup {Absent}

EcsInit ==
  /\ node \in [Objects -> Specs]
  /\ \A o \in Objects : node[o] \in Endpoints[o] \cup {Absent}
  /\ deleting = {}
  /\ work = Present /\ inited = FALSE /\ hostips = NoHosts
  /\ sending = FALSE /\ trigger = 0
  /\ queue = [s \in Subscribers |-> 0]
  /\ copy = [s \in Subscribers |-> NoHosts]
  /\ reading = [s \in Subscribers |-> Idle]
  /\ pruning = [s \in Subscribers |-> Idle]
  /\ changed = [s \in Subscribers |-> FALSE]
  /\ changes = 0 /\ faults = 0

EcsApi     == \E o \in Objects : WriteObject(o) \/ FinalizeObject(o) \/ Vanish(o)
Controller == SendTrigger \/ \E o \in Objects : Reconcile(o)
Reader(s)  == Receive(s) \/ StartPrune(s) \/ \E k \in Ips : ReadHost(s, k) \/ PruneHost(s, k)

-----------------------------------------------------------------------------
(* Properties *)

EcsTypeOK ==
  /\ node \in [Objects -> Specs] /\ \A o \in Objects : node[o] \in Endpoints[o] \cup {Absent}
  /\ deleting \subseteq Present /\ work \subseteq Objects
  /\ inited \in BOOLEAN /\ sending \in BOOLEAN
  /\ hostips \in HostMap
  /\ trigger \in 0..TriggerCap
  /\ queue \in [Subscribers -> 0..QueueCap]
  /\ copy \in [Subscribers -> HostMap]
  /\ reading \in [Subscribers -> (SUBSET Ips) \cup {Idle}]
  /\ pruning \in [Subscribers -> (SUBSET Ips) \cup {Idle}]
  /\ changed \in [Subscribers -> BOOLEAN]
  /\ changes \in 0..MaxChanges /\ faults \in 0..MaxFaults

\* ecnode.go:121-128, pubsub.go:80-87: a copy that differs from hostips is always
\* about to be corrected, although a subscriber with a full channel gets no
\* message and the map changes under the subscriber that reads it.
NoLostUpdate ==
  \A s \in Subscribers : \A k \in Ips :
    copy[s][k] # hostips[k] =>
      \/ sending \/ trigger > 0 \/ queue[s] > 0
      \/ reading[s] # Idle /\ k \in reading[s]
      \/ reading[s] # Idle /\ hostips[k] = {} /\ (pruning[s] = Idle \/ k \in pruning[s])

\* What the subscribers may rely on.
Promise == INSTANCE HostSync WITH hosts <- hostips, copies <- copy

\* ecnode.go:110-131, configmap.go:98-126: whatever the queues, the triggers and the
\* loops over the live map do, each step of the controllers sets entries of one copy to
\* what is published at this moment, or leaves the copies alone.
CopiesHosts == Promise!Spec

\* ... and an entry that differs is adopted in the end.
CopiesCatchUp == Promise!Fairness

=============================================================================
