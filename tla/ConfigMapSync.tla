---------------------------- MODULE ConfigMapSync ----------------------------
(***************************************************************************)
(* The ConfigMap controller of ecsnode (pkg/controller/configmap.go): a    *)
(* subscriber of the ECSNode controller that writes its copy of the host   *)
(* IPs to one ConfigMap, from which etcdcluster's IP files are mounted.    *)
(***************************************************************************)
EXTENDS EcsNode

CONSTANTS
  Me,           \* this controller's subscriber ID
  CmTriggerCap, \* capacity of the channel triggerch (10)
  Edits         \* what others may write to the ConfigMap

ASSUME MeAssumption  == Me \in Subscribers
ASSUME CmCapAssumption == CmTriggerCap \in Nat \ {0}
ASSUME EditsAssumption == Edits \subseteq [Ips -> SUBSET (Ips \cup {NoIp})]

VARIABLES
  cm,        \* the ConfigMap: Data, as sets of IPs, or Absent
  cache,     \* the informer's copy of it
  stale,     \* the cache is older than the ConfigMap
  cmWork,    \* the ConfigMap is in the controller's workqueue
  cmSending, \* Reconcile is about to send to triggerch
  telling,   \* the reader of triggerch is about to send to it
  triggers,  \* number of elements in triggerch
  sync,      \* syncConfigmap has read the ConfigMap and not yet written it
  retries    \* goroutines that will send to triggerch after RequeuDelay

storeVars == <<cm, cache, stale>>
workVars  == <<cmWork, cmSending>>
loopVars  == <<telling, triggers, sync, retries>>
cmVars    == <<storeVars, workVars, loopVars>>
vars      == <<ecsVars, cmVars>>

NoSync == [on |-> FALSE, base |-> Absent, fresh |-> FALSE]

\* The goroutine waits in its select.
AtSelect == reading[Me] = Idle /\ ~telling /\ ~sync.on

-----------------------------------------------------------------------------
(* The ConfigMap *)

\* A new version of the ConfigMap makes every copy read before an old one.
Store(m) == cm' = m /\ stale' = TRUE

\* Somebody else writes or deletes the ConfigMap.
Edit ==
  /\ Fault
  /\ \E m \in Edits \cup {Absent} : m # cm /\ Store(m)
  /\ sync' = [sync EXCEPT !.fresh = FALSE]
  /\ UNCHANGED <<apiVars, pubVars, subVars, cache, workVars, telling, triggers, retries>>

Deliver ==
  /\ stale /\ stale' = FALSE
  /\ cache' = cm
  /\ cmWork' = TRUE
  /\ UNCHANGED <<ecsVars, cm, cmSending, loopVars>>

-----------------------------------------------------------------------------
(* Reconcile *)

\* Mutated form of NotSynced: the ConfigMap is compared whatever is known.
NeverEmpty == FALSE

\* No ECSNode is known yet (or any more): the ConfigMap is left alone.
NotSynced == copy[Me] = NoHosts

\* A ConfigMap that does not exist, or differs from the copy, asks for a sync.
CmReconcile ==
  /\ cmWork /\ cmWork' = FALSE
  /\ ~cmSending
  /\ \/ NotSynced /\ UNCHANGED cmSending
     \/ ~NotSynced /\ cache = Absent /\ cmSending' = TRUE
     \/ ~NotSynced /\ cache # Absent /\ reading[Me] = Idle /\ cmSending' = (cache # copy[Me])
  /\ UNCHANGED <<ecsVars, storeVars, loopVars>>

CmSend ==
  /\ cmSending /\ cmSending' = FALSE
  /\ triggers < CmTriggerCap /\ triggers' = triggers + 1
  /\ UNCHANGED <<ecsVars, storeVars, cmWork, telling, sync, retries>>

-----------------------------------------------------------------------------
(* The goroutine of Start *)

CmReceive == AtSelect /\ Receive(Me) /\ UNCHANGED cmVars

CmRead ==
  /\ StartPrune(Me) \/ \E k \in Ips : ReadHost(Me, k) \/ PruneHost(Me, k)
  /\ UNCHANGED cmVars

CmMerged ==
  /\ Merged(Me)
  /\ telling' = changed[Me]
  /\ UNCHANGED <<storeVars, workVars, triggers, sync, retries>>

\* The goroutine that reads triggerch sends to it.
Tell ==
  /\ telling /\ telling' = FALSE
  /\ triggers < CmTriggerCap /\ triggers' = triggers + 1
  /\ UNCHANGED <<ecsVars, storeVars, workVars, sync, retries>>

\* syncConfigmap: CreateOrUpdate reads the ConfigMap from the cache ...
SyncGet ==
  /\ AtSelect /\ triggers > 0 /\ triggers' = triggers - 1
  /\ sync' = [on |-> TRUE, base |-> cache, fresh |-> ~stale]
  /\ UNCHANGED <<ecsVars, storeVars, workVars, telling, retries>>

\* Mutated form of UpToDate: only the keys are compared.
SameKeys(m) == m # Absent /\ Keys(m) = Keys(copy[Me])

UpToDate(m) == m = copy[Me]

\* ... and writes the copy, if it differs from what was read, or fails.
SyncPut ==
  /\ sync.on /\ sync' = NoSync
  /\ \/ UpToDate(sync.base) /\ UNCHANGED <<cm, stale, retries, faults>>
     \/ ~UpToDate(sync.base) /\ sync.fresh /\ Store(copy[Me]) /\ UNCHANGED <<retries, faults>>
     \/ ~UpToDate(sync.base) /\ ~sync.fresh /\ retries' = retries + 1 /\ UNCHANGED <<cm, stale, faults>>
     \/ Fault /\ retries' = retries + 1 /\ UNCHANGED <<cm, stale>>
  /\ UNCHANGED <<apiVars, pubVars, subVars, cache, workVars, telling, triggers>>

Retry ==
  /\ retries > 0 /\ retries' = retries - 1
  /\ triggers < CmTriggerCap /\ triggers' = triggers + 1
  /\ UNCHANGED <<ecsVars, storeVars, workVars, telling, sync>>

-----------------------------------------------------------------------------
\* The process ends, and another one starts.
CmCrash ==
  /\ EcsCrash
  /\ cache' = cm /\ stale' = FALSE
  /\ cmWork' = (cm # Absent) /\ cmSending' = FALSE
  /\ telling' = FALSE /\ triggers' = 0 /\ sync' = NoSync /\ retries' = 0
  /\ UNCHANGED cm

Init ==
  /\ EcsInit
  /\ cm \in Edits \cup {Absent}
  /\ cache = cm /\ stale = FALSE
  /\ cmWork = (cm # Absent) /\ cmSending = FALSE
  /\ telling = FALSE /\ triggers = 0 /\ sync = NoSync /\ retries = 0

Ecs        == (Controller \/ Publish) /\ UNCHANGED cmVars
CmWorker   == CmReconcile \/ CmSend
CmReader   == CmReceive \/ CmRead \/ CmMerged \/ Tell \/ SyncGet \/ SyncPut

Next ==
  \/ EcsApi /\ UNCHANGED cmVars
  \/ Ecs \/ CmWorker \/ CmReader \/ Deliver \/ Retry
  \/ Edit \/ CmCrash

Spec == Init /\ [][Next]_vars

\* Each goroutine keeps running, and the API server delivers its events.
Fairness ==
  /\ WF_vars(Controller /\ UNCHANGED cmVars) /\ WF_vars(Publish /\ UNCHANGED cmVars)
  /\ WF_vars(CmWorker) /\ WF_vars(CmReader) /\ WF_vars(Deliver) /\ WF_vars(Retry)

FairSpec == Spec /\ Fairness

-----------------------------------------------------------------------------
(* Properties *)

Data == [Ips -> SUBSET (Ips \cup {NoIp})] \cup {Absent}

TypeOK ==
  /\ EcsTypeOK
  /\ cm \in Data /\ cache \in Data
  /\ stale \in BOOLEAN /\ cmWork \in BOOLEAN /\ cmSending \in BOOLEAN /\ telling \in BOOLEAN
  /\ triggers \in 0..CmTriggerCap /\ retries \in Nat
  /\ sync \in [on : BOOLEAN, base : Data, fresh : BOOLEAN]

Live == {o \in Objects : HasMaster(o) /\ o \notin deleting}

\* configmap.go:123-140, 154-183: a ConfigMap that differs from the copy is always
\* about to be compared or written again, whatever is stale, refused or edited.
NoLostSync ==
  cm # copy[Me] /\ ~NotSynced =>
    \/ stale \/ cmWork \/ cmSending
    \/ reading[Me] # Idle \/ telling \/ triggers > 0 \/ sync.on \/ retries > 0

\* A change of o has not reached the copy yet.
OnItsWay(o) == o \in work \/ sending \/ trigger > 0 \/ queue[Me] > 0

\* configmap.go:154-157, ecnode.go:97-105: a sync never takes away the entry of a
\* host that exists, also not after a restart, when the copy is empty at first
\* while the old ConfigMap is in use.  Once the hosts are listed it says nothing of a host
\* while anything is OnItsWay, be the host a new one or not.
KeepsLiveHosts ==
  [][SyncPut /\ cm # Absent =>
       \A o \in Live : LET k == MasterIp(node[o])
                       IN  (inited => ~OnItsWay(o)) /\ cm[k] \cap Ips # {} => cm'[k] # {}]_vars

\* ecsnode.md:213 (the ConfigMap has, for each master IP, all IPs of the node): in
\* the end it has those of every host, whatever was lost, edited or refused before.
ListsEveryHost ==
  <>[](Live # {} => cm # Absent /\ \A o \in Live : cm[MasterIp(node[o])] = IpSet(node[o]))

=============================================================================
