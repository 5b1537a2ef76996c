--------------------------- MODULE Replicas_proofs ---------------------------
(***************************************************************************)
(* What holds of the replica controller for any nodes, sizes, capacity of  *)
(* its channel and number of tries.                                        *)
(***************************************************************************)
EXTENDS Replicas, TLAPS

NodesOK   == labels \in [Nodes -> Labels] /\ listed \in [Nodes -> Labels]
StsOK     == replicas \in Nat /\ stsNews \in BOOLEAN
QueueOK   == requests \subseteq Nodes \cup {Sts}
ChannelOK == waiting \in 0..NodeTriggerCap
SyncingOK ==
  /\ syncing \in [on : BOOLEAN, desired : {MinReplicas, MaxReplicas}, left : 0..Tries,
                  got : BOOLEAN, fresh : BOOLEAN]
  /\ (syncing.on <=> syncing.left > 0) /\ (syncing.got => syncing.on)
CountsOK  == nodeChanges \in 0..MaxNodeChanges /\ stsEvents \in 0..MaxStsEvents

Types == NodesOK /\ StsOK /\ QueueOK /\ ChannelOK /\ SyncingOK /\ CountsOK

\* The parts make up the type invariant.
LEMMA Parts == Types <=> ReplicasTypeOK
BY DEF Types, ReplicasTypeOK, NodesOK, StsOK, QueueOK, ChannelOK, SyncingOK, CountsOK

\* An event that may happen is within the bound.
LEMMA EventType ==
  ASSUME CountsOK, UNCHANGED nodeChanges, NoEvent \/ \E k \in StsKinds : Event(k) PROVE CountsOK'
BY EventsAssumption DEF CountsOK, NoEvent, Event

\* No sync is under way, or one that begins, or goes on.
LEMMA SyncingTypes ==
  /\ 0 \in 0..NodeTriggerCap
  /\ Sizes \subseteq Nat /\ NoSts \in Nat
  /\ NoReplicasSync \in [on : BOOLEAN, desired : {MinReplicas, MaxReplicas}, left : 0..Tries,
                         got : BOOLEAN, fresh : BOOLEAN]
  /\ ~NoReplicasSync.on /\ ~NoReplicasSync.got /\ NoReplicasSync.left = 0
<1>1. 0 \in 0..Tries /\ 0 \in 0..NodeTriggerCap
  BY TriesAssumption
<1> QED BY <1>1, SizesAssumption DEF NoReplicasSync, NoSts

-----------------------------------------------------------------------------
(* Types *)

\* A trigger that is sent fits into the channel.
LEMMA ChannelType == ASSUME ChannelOK, TriggerSync PROVE ChannelOK' /\ waiting' > 0
BY TriesAssumption DEF ChannelOK, TriggerSync

\* A conflict leaves one try less.
LEMMA ConflictedType == ASSUME SyncingOK, syncing.got, Conflicted PROVE SyncingOK'
<1>1. CASE syncing.left = 1
  BY <1>1, SyncingTypes DEF Conflicted, SyncingOK
<1>2. CASE syncing.left # 1
  <2>1. syncing' = [syncing EXCEPT !.left = @ - 1, !.got = FALSE]
    BY <1>2 DEF Conflicted
  <2>2. syncing.left - 1 \in 0..Tries /\ syncing.left - 1 > 0
    BY <1>2, TriesAssumption DEF SyncingOK
  <2>3. syncing' \in [on : BOOLEAN, desired : {MinReplicas, MaxReplicas}, left : 0..Tries,
                      got : BOOLEAN, fresh : BOOLEAN]
    BY <2>1, <2>2 DEF SyncingOK
  <2>4. syncing'.on = syncing.on /\ syncing'.left = syncing.left - 1 /\ ~syncing'.got /\ syncing.on
    BY <2>1 DEF SyncingOK
  <2> QED BY <2>2, <2>3, <2>4 DEF SyncingOK
<1> QED BY <1>1, <1>2

\* Every step keeps the types.
LEMMA NextType == ASSUME Types, [ReplicasNext]_replicasVars PROVE Types'
<1> USE SyncingTypes DEF Types, StsKinds
<1>1. CASE \E n \in Nodes : ChangeNode(n)
  <2>1. UNCHANGED <<stsVars, ctrlVars, waiting, syncing>>
    BY <1>1 DEF ChangeNode
  <2>2. labels' \in [Nodes -> Labels]
    BY <1>1 DEF ChangeNode, NodesOK
  <2>3. CountsOK'
    BY <1>1, EventsAssumption DEF ChangeNode, Event, NoEvent, CountsOK
  <2> QED BY <2>1, <2>2, <2>3 DEF stsVars, ctrlVars, NodesOK, StsOK, QueueOK, ChannelOK, SyncingOK
<1>2. CASE \E n \in Nodes : DeliverNode(n)
  <2>1. UNCHANGED <<nodeVars, stsVars, waiting, syncing, stsEvents>>
    BY <1>2 DEF DeliverNode
  <2>2. listed' \in [Nodes -> Labels] /\ requests' \subseteq Nodes \cup {Sts}
    BY <1>2 DEF DeliverNode, NodesOK, QueueOK
  <2> QED BY <2>1, <2>2 DEF nodeVars, stsVars, NodesOK, StsOK, QueueOK, ChannelOK, SyncingOK, CountsOK
<1>3. CASE EditSts
  <2>1. UNCHANGED <<nodeVars, ctrlVars, waiting>>
    BY <1>3 DEF EditSts
  <2>2. CountsOK'
    BY <1>3, <2>1, EventType DEF EditSts, nodeVars
  <2>3. StsOK'
    BY <1>3 DEF EditSts, StsWritten, StsOK
  <2>4. SyncingOK'
    BY <1>3 DEF EditSts, StsWritten, SyncingOK
  <2> QED BY <2>1, <2>2, <2>3, <2>4 DEF nodeVars, ctrlVars, NodesOK, QueueOK, ChannelOK
<1>4. CASE DeliverSts
  BY <1>4 DEF DeliverSts, nodeVars, NodesOK, StsOK, QueueOK, ChannelOK, SyncingOK, CountsOK
<1>5. CASE \E r \in Nodes \cup {Sts} : ReconcileNode(r)
  <2>1. UNCHANGED <<nodeVars, stsVars, listed, syncing, stsEvents>> /\ TriggerSync /\ requests' \subseteq requests
    BY <1>5 DEF ReconcileNode
  <2> QED BY <2>1, ChannelType DEF nodeVars, stsVars, NodesOK, StsOK, QueueOK, SyncingOK, CountsOK
<1>6. CASE ListNodes
  <2>1. UNCHANGED <<nodeVars, stsVars, ctrlVars>> /\ (NoEvent \/ Event("call"))
    BY <1>6 DEF ListNodes
  <2>2. ChannelOK'
    BY <1>6, TriesAssumption DEF ListNodes, ChannelOK
  <2>3. SyncingOK'
    <3>1. CASE syncing' = [NoReplicasSync EXCEPT !.on = TRUE, !.desired = Desired(listed), !.left = Tries]
      <4>1. Desired(listed) \in {MinReplicas, MaxReplicas} /\ Tries \in 0..Tries /\ Tries > 0
        BY TriesAssumption DEF Desired
      <4>2. syncing' = [on |-> TRUE, desired |-> Desired(listed), left |-> Tries, got |-> FALSE, fresh |-> FALSE]
        BY <3>1 DEF NoReplicasSync
      <4> QED BY <4>1, <4>2 DEF SyncingOK
    <3>2. CASE UNCHANGED syncing
      BY <3>2 DEF SyncingOK
    <3> QED BY <1>6, <3>1, <3>2 DEF ListNodes
  <2> QED BY <2>1, <2>2, <2>3, EventType DEF nodeVars, stsVars, ctrlVars, NodesOK, StsOK, QueueOK
<1>7. CASE GetSts
  <2>1. UNCHANGED <<nodeVars, stsVars, ctrlVars, waiting>> /\ (NoEvent \/ Event("call"))
    BY <1>7 DEF GetSts
  <2>2. SyncingOK'
    <3>1. CASE syncing' = NoReplicasSync
      BY <3>1 DEF SyncingOK
    <3>2. CASE syncing' = [syncing EXCEPT !.got = TRUE, !.fresh = TRUE]
      <4>1. syncing.on
        BY <1>7 DEF GetSts
      <4>2. /\ syncing' \in [on : BOOLEAN, desired : {MinReplicas, MaxReplicas}, left : 0..Tries,
                              got : BOOLEAN, fresh : BOOLEAN]
            /\ syncing'.on = syncing.on /\ syncing'.left = syncing.left
        BY <3>2 DEF SyncingOK
      <4> QED BY <4>1, <4>2 DEF SyncingOK
    <3> QED BY <1>7, <3>1, <3>2 DEF GetSts
  <2> QED BY <2>1, <2>2, EventType DEF nodeVars, stsVars, ctrlVars, NodesOK, StsOK, QueueOK, ChannelOK
<1>8. CASE UpdateSts
  <2>1. UNCHANGED <<nodeVars, ctrlVars, waiting>> /\ (NoEvent \/ \E k \in StsKinds : Event(k))
    BY <1>8 DEF UpdateSts
  <2>2. StsOK'
    BY <1>8, ReplicasAssumption DEF UpdateSts, Scaled, Conflicted, stsVars, StsOK, SyncingOK
  <2>3. SyncingOK'
    BY <1>8, ConflictedType DEF UpdateSts, Scaled, SyncingOK
  <2> QED BY <2>1, <2>2, <2>3, EventType DEF nodeVars, ctrlVars, NodesOK, QueueOK, ChannelOK
<1>9. CASE NewLeader
  <2>1. UNCHANGED <<nodeVars, replicas>> /\ CountsOK'
    BY <1>9, EventType DEF NewLeader, nodeVars
  <2>2. NodesOK' /\ QueueOK' /\ StsOK' /\ ChannelOK'
    BY <1>9 DEF NewLeader, nodeVars, NodesOK, QueueOK, StsOK, ChannelOK
  <2>3. SyncingOK'
    BY <1>9 DEF NewLeader, SyncingOK
  <2> QED BY <2>1, <2>2, <2>3
<1>10. CASE UNCHANGED replicasVars
  BY <1>10 DEF replicasVars, nodeVars, stsVars, ctrlVars, NodesOK, StsOK, QueueOK, ChannelOK, SyncingOK, CountsOK
<1> QED BY <1>1, <1>2, <1>3, <1>4, <1>5, <1>6, <1>7, <1>8, <1>9, <1>10
        DEF ReplicasNext, SyncReplicas, NodeWorker, NodeInformer

\* At the start nothing is under way.
LEMMA InitType == ASSUME ReplicasInit PROVE Types
<1>1. 0 \in 0..MaxNodeChanges /\ 0 \in 0..MaxStsEvents
  BY EventsAssumption
<1>2. SyncingOK
  BY SyncingTypes DEF ReplicasInit, SyncingOK
<1>3. NodesOK /\ StsOK
  BY SyncingTypes DEF ReplicasInit, NodesOK, StsOK
<1>4. QueueOK /\ ChannelOK /\ CountsOK
  BY <1>1, SyncingTypes DEF ReplicasInit, QueueOK, ChannelOK, CountsOK
<1> QED BY <1>2, <1>3, <1>4 DEF Types

\* node.go:146-250: every variable keeps its type; in particular the channel never holds
\* more than its capacity, and an update is tried no more often than allowed.
THEOREM TypeCorrect == ReplicasSpec => []ReplicasTypeOK
<1> QED BY InitType, NextType, Parts, PTL DEF ReplicasSpec

-----------------------------------------------------------------------------
(* What is counted reaches the StatefulSet *)

\* No call of the goroutine fails, and no node stops to match.
Answered == {"call", "unlabel"} \cap StsEvents = {}

\* The goroutine will read the nodes and the StatefulSet again.
Pending == stsNews \/ requests # {} \/ waiting > 0

Agree == \A n \in Nodes : (listed[n] = "match") = (labels[n] = "match")

\* A node that was counted and is not any more is gone, and its event passes.
NotRelabelled == \A n \in Nodes : ~(listed[n] = "match" /\ labels[n] = "other")

\* A sync that works on old nodes, or an old StatefulSet, is not the last one.
Looked ==
  /\ NotRelabelled
  /\ syncing.on => Pending \/ syncing.desired = Desired(listed)
  /\ syncing.got /\ ~syncing.fresh => Pending
  /\ replicas \notin {NoSts, Desired(listed)} => Pending \/ syncing.on

\* Nodes that match where others match ask for the same replicas.
LEMMA SameDesired ==
  ASSUME NEW l, NEW m, \A n \in Nodes : (l[n] = "match") = (m[n] = "match")
  PROVE  Desired(l) = Desired(m)
<1>1. {n \in Nodes : l[n] = "match"} = {n \in Nodes : m[n] = "match"}
  OBVIOUS
<1> QED BY <1>1 DEF Desired, CountNodes

\* As long as something is pending, only the relabelling of nodes could do harm.
LEMMA PendingSuffices == ASSUME Pending', NotRelabelled' PROVE Looked'
BY DEF Looked

\* Every step keeps the promise to look again.
LEMMA LookedNext ==
  ASSUME Types, Looked, Answered, [ReplicasNext]_replicasVars PROVE Looked'
<1> USE DEF Types
<1>0. ~Event("call") /\ ~Event("unlabel")
  BY DEF Event, Answered
<1>1. CASE \E n \in Nodes : ChangeNode(n)
  <2> PICK n \in Nodes : ChangeNode(n)
    BY <1>1
  <2>1. UNCHANGED <<stsVars, ctrlVars, waiting, syncing>>
    BY DEF ChangeNode
  <2>2. PICK l \in Labels \ {labels[n]} :
          /\ labels[n] = "gone" => listed[n] = "gone"
          /\ ~(labels[n] = "match" /\ l = "other")
          /\ labels' = [labels EXCEPT ![n] = l]
    BY <1>0 DEF ChangeNode
  <2>3. labels[n] \in Labels
    BY DEF NodesOK
  <2>4. NotRelabelled'
    BY <2>1, <2>2, <2>3 DEF ctrlVars, NotRelabelled, Looked, Labels, NodesOK
  <2> QED BY <2>1, <2>4 DEF stsVars, ctrlVars, Looked, Pending
<1>2. CASE \E n \in Nodes : DeliverNode(n)
  <2> PICK n \in Nodes : DeliverNode(n)
    BY <1>2
  <2>1. UNCHANGED <<nodeVars, stsVars, waiting, syncing, stsEvents>> /\ listed' = [listed EXCEPT ![n] = labels[n]]
    BY DEF DeliverNode
  <2>2. NotRelabelled'
    BY <2>1 DEF nodeVars, NotRelabelled, Looked, NodesOK
  <2>3. CASE Passes(n)
    <3>1. Pending'
      BY <2>3 DEF DeliverNode, Pending
    <3> QED BY <2>2, <3>1, PendingSuffices
  <2>4. CASE ~Passes(n)
    <3>1. \A m \in Nodes : (listed'[m] = "match") = (listed[m] = "match")
      BY <2>1, <2>4 DEF Passes, NotRelabelled, Looked, NodesOK, Labels
    <3>2. Desired(listed') = Desired(listed) /\ requests' = requests
      BY <2>4, <3>1, SameDesired DEF DeliverNode
    <3> QED BY <2>1, <2>2, <3>2 DEF stsVars, Looked, Pending
  <2> QED BY <2>3, <2>4
<1>3. CASE EditSts
  <2>1. Pending' /\ UNCHANGED <<nodeVars, ctrlVars>>
    BY <1>3 DEF EditSts, StsWritten, Pending
  <2> QED BY <2>1, PendingSuffices DEF nodeVars, ctrlVars, Looked, NotRelabelled
<1>4. CASE DeliverSts
  <2>1. Pending' /\ UNCHANGED <<nodeVars, listed>>
    BY <1>4 DEF DeliverSts, Pending
  <2> QED BY <2>1, PendingSuffices DEF nodeVars, Looked, NotRelabelled
<1>5. CASE \E r \in Nodes \cup {Sts} : ReconcileNode(r)
  <2>1. Pending' /\ UNCHANGED <<nodeVars, listed>>
    BY <1>5, ChannelType DEF ReconcileNode, Pending
  <2> QED BY <2>1, PendingSuffices DEF nodeVars, Looked, NotRelabelled
<1>6. CASE ListNodes
  <2>1. UNCHANGED <<nodeVars, stsVars, ctrlVars>>
    BY <1>6 DEF ListNodes
  <2>2. syncing'.on /\ syncing'.desired = Desired(listed) /\ ~syncing'.got
    BY <1>0, <1>6 DEF ListNodes, NoReplicasSync
  <2> QED BY <2>1, <2>2 DEF nodeVars, stsVars, ctrlVars, Looked, NotRelabelled
<1>7. CASE GetSts
  <2>1. UNCHANGED <<nodeVars, stsVars, ctrlVars, waiting>> /\ syncing.on
    BY <1>7 DEF GetSts
  <2>2. Pending' = Pending /\ NotRelabelled'
    BY <2>1 DEF nodeVars, stsVars, ctrlVars, Pending, Looked, NotRelabelled
  <2>3. CASE replicas \in {NoSts, syncing.desired} /\ syncing' = NoReplicasSync
    BY <2>1, <2>2, <2>3, SyncingTypes DEF stsVars, ctrlVars, Looked
  <2>4. CASE syncing' = [syncing EXCEPT !.got = TRUE, !.fresh = TRUE]
    <3>1. syncing'.on /\ syncing'.fresh /\ syncing'.desired = syncing.desired
      BY <2>1, <2>4 DEF SyncingOK
    <3> QED BY <2>1, <2>2, <3>1 DEF stsVars, ctrlVars, Looked
  <2> QED BY <1>0, <1>7, <2>3, <2>4 DEF GetSts
<1>8. CASE UpdateSts
  <2>1. UNCHANGED <<nodeVars, ctrlVars, waiting>> /\ syncing.got
    BY <1>8 DEF UpdateSts
  <2>2. NotRelabelled'
    BY <2>1 DEF nodeVars, ctrlVars, Looked, NotRelabelled
  <2>3. CASE Scaled
    <3>1. Pending'
      BY <2>3 DEF Scaled, Pending
    <3> QED BY <2>2, <3>1, PendingSuffices
  <2>4. CASE ~syncing.fresh /\ Conflicted
    <3>1. Pending'
      BY <2>1, <2>4 DEF Conflicted, stsVars, ctrlVars, Looked, Pending
    <3> QED BY <2>2, <3>1, PendingSuffices
  <2>5. CASE ~syncing.fresh /\ UNCHANGED stsVars
    <3>1. Pending'
      BY <2>1, <2>5 DEF stsVars, ctrlVars, Looked, Pending
    <3> QED BY <2>2, <3>1, PendingSuffices
  <2> QED BY <1>0, <1>8, <2>3, <2>4, <2>5 DEF UpdateSts
<1>9. CASE NewLeader
  <2>1. listed' = labels /\ labels' = labels /\ replicas' = replicas /\ syncing' = NoReplicasSync
    BY <1>9 DEF NewLeader, nodeVars
  <2>2. NotRelabelled'
    BY <2>1 DEF NotRelabelled
  <2>3. replicas # NoSts => Pending'
    BY <1>9 DEF NewLeader, Pending
  <2> QED BY <2>1, <2>2, <2>3, SyncingTypes DEF Looked
<1>10. CASE UNCHANGED replicasVars
  BY <1>10 DEF replicasVars, nodeVars, stsVars, ctrlVars, Looked, NotRelabelled, Pending
<1> QED BY <1>1, <1>2, <1>3, <1>4, <1>5, <1>6, <1>7, <1>8, <1>9, <1>10
        DEF ReplicasNext, SyncReplicas, NodeWorker, NodeInformer

\* At the start everything is looked at.
LEMMA LookedInit == ASSUME ReplicasInit PROVE Looked
BY SyncingTypes DEF ReplicasInit, Looked, NotRelabelled, Pending

\* node.go:146-250: unless a call fails or a node is relabelled, replicas that are not
\* those the nodes ask for are about to be looked at again, however small the channel
\* is, and whatever others do to the StatefulSet between a read and an update.
THEOREM NoScaleIsLost == ASSUME Answered PROVE ReplicasSpec => []NoLostScale
<1>1. ReplicasInit => Types /\ Looked
  BY InitType, LookedInit
<1>2. Types /\ Looked /\ [ReplicasNext]_replicasVars => (Types /\ Looked)'
  BY NextType, LookedNext
<1>3. Looked => NoLostScale
  <2>1. CASE Agree
    <3>1. Desired(listed) = Desired(labels)
      BY <2>1, SameDesired DEF Agree
    <3> QED BY <3>1 DEF Looked, NoLostScale, Pending
  <2> QED BY <2>1 DEF Agree, NoLostScale
<1> QED BY <1>1, <1>2, <1>3, PTL DEF ReplicasSpec

=============================================================================
