---------------------------- MODULE MCPodService ----------------------------
(* Instances of PodService for TLC. *)
EXTENDS PodService

CONSTANTS a, b, i1, i2, p, q

\* Every host has one IP; b may have no ECSNode.
NodeSpecs == [o \in {a, b} |->
  {[interface \in {"eth0"} |-> IF o = a THEN i1 ELSE i2]}]

\* A pod is not yet scheduled, not ready, or ready.
States == {[host |-> NoIp, ready |-> FALSE]}
          \cup [host : {i1, i2}, ready : BOOLEAN]

\* Both hosts are known, a pod is not scheduled yet, and the other one not ready; or
\* a host is not known yet, one pod is ready on the other one, and one is leaving.
Starting == /\ node[a] # Absent /\ node[b] # Absent /\ leaving = {}
            /\ pod[p] = [host |-> NoIp, ready |-> FALSE]
            /\ pod[q] = [host |-> i2, ready |-> FALSE]
Leaving  == /\ node[a] # Absent /\ node[b] = Absent /\ leaving = {q}
            /\ pod[p] = [host |-> i1, ready |-> TRUE]
            /\ pod[q] = [host |-> i2, ready |-> TRUE]

PodsInit == Init /\ (Starting \/ Leaving)
\* At most two of: a change of a pod, a change of an ECSNode, a fault.
PodsNext == Next /\ changes' + podChanges' + faults' <= 2

PodsSpec == PodsInit /\ [][PodsNext]_vars /\ Fairness

=============================================================================
