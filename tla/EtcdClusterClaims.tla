--------------------------- MODULE EtcdClusterClaims ---------------------------
(***************************************************************************)
(* What the comments and documents of the repository say of etcdcluster    *)
(* and the code does not do: each definition quotes its sentence, and TLC  *)
(* finds a behaviour of EtcdCluster that violates it.                      *)
(***************************************************************************)
EXTENDS EtcdCluster

\* proposals/20260812-cluster-discovery-fix.md:503, a pod-0 that restarts and cannot
\* reach the others for a moment waits, tries again and joins: it initialises a
\* second cluster next to the one that serves.
NoSplit == OneServing

\* proposals/20260812-cluster-discovery-fix.md:506, a failed promotion is cleaned
\* up and the pod joins again: promoting is over once the pod is a running voter.
PromotionSettles ==
  \A p \in Pods : pc[p] = "promote" ~> \E c \in Clusters : Running(p, c)

\* main.go:511, 520, proposals/20260812-cluster-discovery-fix.md:504, after a split
\* pod-0 joins the existing cluster again.
SplitRejoins ==
  pc[Pod0] = "split" ~>
    \E c \in Clusters : Running(Pod0, c) /\ \E q \in Pods \ {Pod0} : Running(q, c)

\* README.md:138, only members that are gone are removed as dead: a voting member whose
\* etcd runs never is, also when its pod's IP file cannot be read.
RemovesOnlyGone ==
  [][\A p \in Pods, id \in Ids : RemoveDeadMember(p, id) =>
       \A c \in Clusters : \A m \in Voters(c) :
         m.id \notin {n.id : n \in members'[c]} => ~IsUp(c, m)]_vars

\* main.go:402, proposals/20260812-cluster-discovery-fix.md:501, pod-0 initialises and the
\* others join: a cluster is only ever founded by pod-0.
OnlyPod0Founds == [][\A p \in Pods : EtcdBootstraps(p) => p = Pod0]_vars

=============================================================================
