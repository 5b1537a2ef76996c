---------------------------- MODULE Certificates ----------------------------
(***************************************************************************)
(* The way of a CA: ecsnode stores it in the Secret of its namespace, from *)
(* which the kubelet mounts it into the pods of etcdcluster, which sign    *)
(* their certificates with it.                                             *)
(***************************************************************************)
EXTENDS SecretSync, CertFiles

ASSUME IssuersAssumption == Issuers \subseteq CAs

certificatesVars == <<secretVars, filesVars>>

\* What the pods mount: the CA Secret next to them.
Mounted == caSecret[SelfNs]

KubeletMounts(p) == Mounted \in Issuers /\ Kubelet(p, Mounted)

PodsNext == \E p \in Pods : Initialise(p) \/ Kill(p) \/ KubeletMounts(p)

CertificatesInit == SecretInit /\ FilesInit

CertificatesNext ==
  \/ SecretNext /\ UNCHANGED filesVars
  \/ PodsNext /\ UNCHANGED secretVars

CertificatesSpec == CertificatesInit /\ [][CertificatesNext]_certificatesVars

-----------------------------------------------------------------------------
(* Properties *)

\* The CAs that p has signed with, or trusts.
Trusted(p) == {c \in Issuers : ca[p] = c \/ (cert[p] \in Pairs /\ cert[p].ca = c)}

\* secret.go:167-209, cert.go:43, 56, 173-181: the certificates and the copies of the CA on
\* the disks of all pods, made at different times and kept over restarts of either
\* program, come from one CA, and ecsnode still has it; or etcd's members would not
\* talk to each other.
OneTrust ==
  LET trusted == UNION {Trusted(p) : p \in Pods}
  IN  trusted \subseteq StoredCAs /\ Cardinality(trusted) <= 1

\* A certificate, its key and a copy of the CA, each of them complete.
Usable(p) == cert[p] \in Pairs /\ key[p] = cert[p].key /\ ca[p] \in Issuers

\* The container of p is down, and what it has left is never completed: it was killed
\* after the key was created and before the copy of the CA was written, and cert.go:43-46
\* skips all of it once there is a certificate and a key.
CutShort(p) == at[p] = "off" /\ key[p] # NoFile /\ ~Usable(p)

\* etcd-sts.yml:157-159 (the pods mount the Secret of the CA), cert.go:43-67, 136-181: in
\* the end every pod gets through its initialisation with files that etcd can use,
\* although the CA it waits for may be generated only later, by ecsnode, and the
\* container, or the pod, is killed wherever it is; all but a pod that was CutShort.
PodsGetReady == \A p \in Pods : <>CutShort(p) \/ <>[](at[p] = "ready" /\ Usable(p))

=============================================================================
