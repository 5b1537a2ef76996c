------------------------------ MODULE Replicas ------------------------------
(***************************************************************************)
(* The replica controller of ecsnode (pkg/controller/node.go): it counts   *)
(* the nodes whose labels match, and writes MinReplicas or MaxReplicas to  *)
(* the StatefulSet of etcd.                                                *)
(***************************************************************************)
EXTENDS Naturals, FiniteSets

CONSTANTS
  Nodes,          \* names of nodes
  Sts,            \* the request for the StatefulSet ("__sts__")
  MinReplicas, MaxReplicas,
  NodeTriggerCap, \* capacity of the channel trigger (10)
  Tries,          \* tries of an update that conflicts (3)
  Sizes,          \* what others may set the replicas to
  StsEvents,      \* which of StsKinds may happen
  MaxNodeChanges, \* bound: changes of nodes
  MaxStsEvents    \* bound: events other than those of nodes

StsKinds ==
  {"scale",    \* somebody scales the StatefulSet
   "status",   \* another field of it is written
   "delete",   \* it is deleted, or created
   "leader",   \* the process ends, and another one leads
   "lost",     \* an update is applied, but its answer is lost
   "call",     \* a call fails
   "unlabel"}  \* the labels of a node match no more

NoSts == 0     \* the StatefulSet does not exist

ASSUME ReplicasAssumption == MinReplicas \in Nat \ {0} /\ MaxReplicas \in Nat /\ MinReplicas <= MaxReplicas
ASSUME NodesAssumption    == IsFiniteSet(Nodes) /\ Sts \notin Nodes
ASSUME SizesAssumption    == Sizes \subseteq Nat \ {0}
ASSUME TriesAssumption    == Tries \in Nat \ {0} /\ NodeTriggerCap \in Nat \ {0}
ASSUME EventsAssumption   == StsEvents \subseteq StsKinds /\ MaxNodeChanges \in Nat /\ MaxStsEvents \in Nat

VARIABLES
  labels,     \* each node: "match", "other", or "gone"
  listed,     \* the informer's copy of labels
  replicas,   \* Spec.Replicas of the StatefulSet
  stsNews,    \* a watch event of the StatefulSet is under way
  requests,   \* the controller's workqueue
  waiting,    \* number of elements in the channel trigger
  syncing,    \* what syncReplicas does
  nodeChanges, stsEvents

nodeVars     == <<labels, nodeChanges>>
stsVars      == <<replicas, stsNews>>
ctrlVars     == <<listed, requests>>
replicasVars == <<nodeVars, stsVars, ctrlVars, waiting, syncing, stsEvents>>

Labels == {"match", "other", "gone"}

Event(k) == k \in StsEvents /\ stsEvents < MaxStsEvents /\ stsEvents' = stsEvents + 1
NoEvent  == UNCHANGED stsEvents

\* syncReplicas: the replicas it wants, the tries it has left, and whether it has read
\* the StatefulSet, which is read or not, and still is the last version or not.
NoReplicasSync == [on |-> FALSE, desired |-> MinReplicas, left |-> 0, got |-> FALSE, fresh |-> FALSE]

-----------------------------------------------------------------------------
(* Nodes *)

CountNodes(l) == Cardinality({n \in Nodes : l[n] = "match"})

\* The replicas that so many nodes ask for.
Desired(l) == IF CountNodes(l) < MaxReplicas THEN MinReplicas ELSE MaxReplicas

\* A node is registered or removed, or its labels change.  A name returns only after
\* the informer knows that it was gone.
ChangeNode(n) ==
  /\ nodeChanges < MaxNodeChanges /\ nodeChanges' = nodeChanges + 1
  /\ \E l \in Labels \ {labels[n]} :
       /\ labels[n] = "gone" => listed[n] = "gone"
       /\ IF labels[n] = "match" /\ l = "other" THEN Event("unlabel") ELSE NoEvent
       /\ labels' = [labels EXCEPT ![n] = l]
  /\ UNCHANGED <<stsVars, ctrlVars, waiting, syncing>>

\* Mutated form of Passes: a deletion is filtered by what is there now.
PassesNow(n) == labels[n] = "match"

\* The predicate sees the new object of an update, and the last one of a deletion.
Passes(n) == labels[n] = "match" \/ (labels[n] = "gone" /\ listed[n] = "match")

\* The informer's cache follows, and the event, if it passes, queues a request.
DeliverNode(n) ==
  /\ listed[n] # labels[n]
  /\ listed' = [listed EXCEPT ![n] = labels[n]]
  /\ requests' = IF Passes(n) THEN requests \cup {n} ELSE requests
  /\ UNCHANGED <<nodeVars, stsVars, waiting, syncing, stsEvents>>

-----------------------------------------------------------------------------
(* The StatefulSet *)

\* A new version of it makes what was read before an old one.
StsWritten == stsNews' = TRUE /\ syncing' = [syncing EXCEPT !.fresh = FALSE]

EditSts ==
  /\ StsWritten
  /\ \/ Event("scale") /\ replicas # NoSts /\ replicas' \in Sizes \ {replicas}
     \/ Event("status") /\ replicas # NoSts /\ UNCHANGED replicas
     \/ Event("delete") /\ replicas # NoSts /\ replicas' = NoSts
     \/ Event("delete") /\ replicas = NoSts /\ replicas' \in Sizes
  /\ UNCHANGED <<nodeVars, ctrlVars, waiting>>

DeliverSts ==
  /\ stsNews /\ stsNews' = FALSE
  /\ requests' = requests \cup {Sts}
  /\ UNCHANGED <<nodeVars, replicas, listed, waiting, syncing, stsEvents>>

-----------------------------------------------------------------------------
(* Reconcile and syncReplicas *)

\* Mutated form of TriggerSync: nothing is sent while the receiver is busy.
TriggerIdle == waiting' = IF waiting < NodeTriggerCap /\ ~syncing.on THEN waiting + 1 ELSE waiting

\* The channel drops what it has no place for.
TriggerSync == waiting' = IF waiting < NodeTriggerCap THEN waiting + 1 ELSE waiting

\* Every request, of whatever node, triggers a sync.
ReconcileNode(r) ==
  /\ r \in requests /\ requests' = requests \ {r}
  /\ TriggerSync
  /\ UNCHANGED <<nodeVars, stsVars, listed, syncing, stsEvents>>

\* The goroutine receives a trigger, and lists the nodes from the cache.
ListNodes ==
  /\ ~syncing.on /\ waiting > 0 /\ waiting' = waiting - 1
  /\ \/ /\ syncing' = [NoReplicasSync EXCEPT !.on = TRUE, !.desired = Desired(listed), !.left = Tries]
        /\ NoEvent
     \/ Event("call") /\ UNCHANGED syncing
  /\ UNCHANGED <<nodeVars, stsVars, ctrlVars>>

\* It reads the StatefulSet, which may need no change.
GetSts ==
  /\ syncing.on /\ ~syncing.got
  /\ \/ replicas \in {NoSts, syncing.desired} /\ syncing' = NoReplicasSync /\ NoEvent
     \/ /\ replicas \notin {NoSts, syncing.desired} /\ NoEvent
        /\ syncing' = [syncing EXCEPT !.got = TRUE, !.fresh = TRUE]
     \/ Event("call") /\ syncing' = NoReplicasSync
  /\ UNCHANGED <<nodeVars, stsVars, ctrlVars, waiting>>

\* An update that is applied.
Scaled == replicas' = syncing.desired /\ stsNews' = TRUE /\ syncing' = NoReplicasSync

\* Mutated form of Conflicted: one try too many.
ConflictedAgain ==
  /\ UNCHANGED stsVars
  /\ syncing' = IF syncing.left = 0 THEN NoReplicasSync
                ELSE [syncing EXCEPT !.left = @ - 1, !.got = FALSE]

\* A conflict is tried again, a few times.
Conflicted ==
  /\ UNCHANGED stsVars
  /\ syncing' = IF syncing.left = 1 THEN NoReplicasSync
                ELSE [syncing EXCEPT !.left = @ - 1, !.got = FALSE]

\* A StatefulSet that was deleted meanwhile is not found, which ends the sync.
UpdateSts ==
  /\ syncing.got
  /\ \/ syncing.fresh /\ Scaled /\ NoEvent
     \/ syncing.fresh /\ Scaled /\ Event("lost")
     \/ ~syncing.fresh /\ replicas # NoSts /\ Conflicted /\ NoEvent
     \/ ~syncing.fresh /\ replicas = NoSts /\ UNCHANGED stsVars /\ syncing' = NoReplicasSync /\ NoEvent
     \/ Event("call") /\ UNCHANGED stsVars /\ syncing' = NoReplicasSync
  /\ UNCHANGED <<nodeVars, ctrlVars, waiting>>

\* The process ends; the next one lists the nodes and the StatefulSet.
NewLeader ==
  /\ Event("leader")
  /\ listed' = labels /\ stsNews' = FALSE
  /\ requests' = {n \in Nodes : labels[n] = "match"} \cup (IF replicas = NoSts THEN {} ELSE {Sts})
  /\ waiting' = 0 /\ syncing' = NoReplicasSync
  /\ UNCHANGED <<nodeVars, replicas>>

-----------------------------------------------------------------------------
ReplicasInit ==
  /\ labels \in [Nodes -> Labels] /\ listed = labels
  /\ replicas \in Sizes \cup {NoSts} /\ stsNews = FALSE
  /\ requests = {n \in Nodes : labels[n] = "match"} \cup (IF replicas = NoSts THEN {} ELSE {Sts})
  /\ waiting = 0 /\ syncing = NoReplicasSync
  /\ nodeChanges = 0 /\ stsEvents = 0

SyncReplicas == ListNodes \/ GetSts \/ UpdateSts
NodeWorker   == \E r \in Nodes \cup {Sts} : ReconcileNode(r)
NodeInformer == DeliverSts \/ \E n \in Nodes : DeliverNode(n)

ReplicasNext ==
  \/ SyncReplicas \/ NodeWorker \/ NodeInformer
  \/ EditSts \/ NewLeader \/ \E n \in Nodes : ChangeNode(n)

ReplicasSpec == ReplicasInit /\ [][ReplicasNext]_replicasVars

-----------------------------------------------------------------------------
(* Properties *)

ReplicasTypeOK ==
  /\ labels \in [Nodes -> Labels] /\ listed \in [Nodes -> Labels]
  /\ replicas \in Nat /\ stsNews \in BOOLEAN
  /\ requests \subseteq Nodes \cup {Sts} /\ waiting \in 0..NodeTriggerCap
  /\ syncing \in [on : BOOLEAN, desired : {MinReplicas, MaxReplicas}, left : 0..Tries,
                  got : BOOLEAN, fresh : BOOLEAN]
  /\ (syncing.on <=> syncing.left > 0) /\ (syncing.got => syncing.on)
  /\ nodeChanges \in 0..MaxNodeChanges /\ stsEvents \in 0..MaxStsEvents

\* node.go:146-152, 189-250: replicas that are not those that the nodes ask for are
\* always about to be looked at again, although triggers are dropped, the number of
\* nodes is read before the StatefulSet and from a cache, an update is given up after
\* three conflicts and its answer may be lost.
NoLostScale ==
  replicas \notin {NoSts, Desired(labels)} =>
    \/ \E n \in Nodes : (listed[n] = "match") # (labels[n] = "match")
    \/ stsNews \/ requests # {} \/ waiting > 0
    \/ syncing.on /\ syncing.desired = Desired(labels)

\* ecsnode.md:239-244: in the end the StatefulSet, if there is one, has the replicas
\* that the nodes ask for, whatever was scaled by others, relabelled or refused before.
ReplicasFollowNodes == <>[](replicas \in {NoSts, Desired(labels)})

=============================================================================
