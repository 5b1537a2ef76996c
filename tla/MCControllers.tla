---------------------------- MODULE MCControllers ----------------------------
(***************************************************************************)
(* Instances of Certificates and Replicas for TLC.  The Secret and the     *)
(* replica controller share no state, so a behaviour is about one of them, *)
(* and the other one stands still.                                         *)
(***************************************************************************)
EXTENDS Certificates, Replicas

CONSTANTS RemoteNs, MaxPodMishaps

VARIABLE part

vars == <<part, secretVars, filesVars, replicasVars>>

\* CA Secrets before ecsnode starts.
Secrets(self, remote) == [n \in CaSpaces |-> IF n = SelfNs THEN self ELSE remote]

Agreeing     == {Secrets(Absent, Absent), Secrets(1, Absent), Secrets(Absent, 1), Secrets(Absent, Partial)}
Installations == Agreeing \cup {Secrets(Partial, Absent), Secrets(3, 1)}

Init ==
  /\ part \in {"secrets", "pods", "replicas"}
  /\ SecretInit /\ FilesInit /\ ReplicasInit
  /\ caNs = SelfNs => \A n \in CaSpaces \ {SelfNs} : caSecret[n] = Absent
  /\ \E c \in GivenClients : \A n \in active : client[n] = c
  /\ part # "secrets" => caSecret \in Agreeing /\ active = {SelfNs} /\ client[SelfNs] = Absent
  /\ part = "replicas" => caNs = SelfNs /\ caSecret = Secrets(Absent, Absent)
  /\ part # "replicas" => labels = [n \in Nodes |-> "gone"] /\ replicas = NoSts

Secret   == part = "secrets" /\ UNCHANGED <<part, filesVars, replicasVars>>
Pod      == part = "pods" /\ UNCHANGED <<part, replicasVars>>
Replica  == part = "replicas" /\ UNCHANGED <<part, secretVars, filesVars>>

\* Of ecsnode, the pods' certificates depend on Start only.
PodsStep ==
  \/ (Start \/ RestartSecret) /\ UNCHANGED filesVars
  \/ PodsNext /\ UNCHANGED secretVars

Next ==
  \/ Secret /\ SecretNext
  \/ Pod /\ PodsStep /\ mishaps' <= MaxPodMishaps
  \/ Replica /\ ReplicasNext

\* Every goroutine keeps running and the informers deliver; an event of a client Secret
\* does not lose every race with the worker's next round.
SecretFairness ==
  /\ WF_vars(Secret /\ Start) /\ WF_vars(Secret /\ Worker) /\ WF_vars(Secret /\ Informer)
  /\ \A n \in Namespaces : SF_vars(Secret /\ job = NoJob /\ DeliverSecret(n))

PodFairness ==
  /\ WF_vars(Pod /\ UNCHANGED filesVars /\ Start)
  /\ \A p \in Pods : WF_vars(Pod /\ UNCHANGED secretVars /\ (Initialise(p) \/ KubeletMounts(p)))

ReplicaFairness ==
  WF_vars(Replica /\ SyncReplicas) /\ WF_vars(Replica /\ NodeWorker) /\ WF_vars(Replica /\ NodeInformer)

Spec == Init /\ [][Next]_vars /\ SecretFairness /\ PodFairness /\ ReplicaFairness

\* ecsnode.md:223 (client certificates for all configured namespaces; a Reconcile
\* verifies and recreates them), secret.go:228-284, 303-318: ClientsFollowCA, in the part with
\* the worker.
ClientsFollow == part = "secrets" => ClientsFollowCA

\* etcd-sts.yml:157-159, cert.go:43-67, 136-181: PodsGetReady, in the part with the pods.
StoredCAReachesPods == part = "pods" => PodsGetReady

=============================================================================
