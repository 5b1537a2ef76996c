------------------------- MODULE Certificates_proofs -------------------------
(***************************************************************************)
(* What holds of ecsnode's CA and the pods' certificates together, for any *)
(* number of pods, crashes and failed calls.                               *)
(***************************************************************************)
EXTENDS Certificates, SecretSync_proofs, CertFiles_proofs, FiniteSetTheorems

\* The CA Secrets do not disagree before ecsnode starts.
AgreedAtFirst == \A f \in Given : \A m, n \in CaSpaces : {f[m], f[n]} \subseteq CAs => f[m] = f[n]

OneStored == \A c, d \in StoredCAs : c = d

\* Whatever a pod has of a CA, it has of one that is stored.
FromStored(p) ==
  /\ at[p] # "off" => mount[p] \in StoredCAs
  /\ held[p] \in Pairs => held[p].ca \in StoredCAs
  /\ Trusted(p) \subseteq StoredCAs

TrustInv ==
  /\ SecretTypes /\ StoreInv /\ FilesInv
  /\ OneStored /\ \A p \in Pods : FromStored(p)

\* The steps of the composition are steps of its two parts.
LEMMA StepsOfParts ==
  ASSUME [CertificatesNext]_certificatesVars
  PROVE  /\ [SecretNext]_secretVars /\ [FilesNext]_filesVars
         /\ UNCHANGED filesVars \/ (PodsNext /\ UNCHANGED secretVars)
<1>1. CASE PodsNext /\ UNCHANGED secretVars
  <2>1. FilesNext
    BY <1>1 DEF PodsNext, KubeletMounts, FilesNext
  <2> QED BY <1>1, <2>1
<1> QED BY <1>1 DEF CertificatesNext, certificatesVars

\* Once there is a CA it stays the one that is stored.
LEMMA StoredNext ==
  ASSUME TrustInv, Undisturbed, [SecretNext]_secretVars
  PROVE  OneStored' /\ (StoredCAs # {} => StoredCAs' = StoredCAs)
<1> USE DEF TrustInv, OneStored
<1>1. CASE StoredCAs = {}
  BY <1>1, CaFirst
<1>2. CASE StoredCAs # {}
  <2>1. StoredCAs' # {} /\ StoredCAs' \subseteq StoredCAs
    BY <1>2, CaKept
  <2> QED BY <2>1
<1> QED BY <1>1, <1>2

\* A step of ecsnode takes no pod's CA away.
LEMMA EcsnodeTrust ==
  ASSUME TrustInv, Undisturbed, [SecretNext]_secretVars, UNCHANGED filesVars, NEW p \in Pods
  PROVE  FromStored(p)'
<1>1. StoredCAs \subseteq StoredCAs'
  BY StoredNext
<1>2. at' = at /\ mount' = mount /\ held' = held /\ cert' = cert /\ ca' = ca
  BY DEF filesVars, diskVars
<1>3. FromStored(p)
  BY DEF TrustInv
<1>4. Trusted(p)' = Trusted(p)
  BY <1>2 DEF Trusted
<1> QED BY <1>1, <1>2, <1>3, <1>4 DEF FromStored

\* A step of a pod uses no other CA than the one that is mounted.
LEMMA PodTrust ==
  ASSUME TrustInv, PodsNext, UNCHANGED secretVars, NEW q \in Pods PROVE FromStored(q)'
<1> USE NoFileAssumption, Contents DEF TrustInv, FilesInv, FilesTypeOK, FromStored, Trusted, NoPair
<1>0. StoredCAs' = StoredCAs
  BY DEF secretVars, clusterVars, StoredCAs
<1>1. ASSUME NEW p \in Pods, KubeletMounts(p) PROVE FromStored(q)'
  <2>1. Mounted \in StoredCAs
    BY <1>1, IssuersAssumption DEF KubeletMounts, Mounted, StoredCAs
  <2> QED BY <1>0, <1>1, <2>1 DEF KubeletMounts, Kubelet, Boot, Remount, Step, diskVars
<1>2. ASSUME NEW p \in Pods, Kill(p) PROVE FromStored(q)'
  BY <1>0, <1>2 DEF Kill, Die, DeletePod, diskVars
<1>3. ASSUME NEW p \in Pods, LoadConfig(p) \/ SkipCertificate(p) \/ SkipCopy(p) \/ SetupEnvironment(p)
      PROVE  FromStored(q)'
  BY <1>0, <1>3 DEF LoadConfig, SkipCertificate, SkipCopy, SetupEnvironment, Step, diskVars
<1>4. ASSUME NEW p \in Pods, GenerateCertificate(p) PROVE FromStored(q)'
  BY <1>0, <1>4 DEF LoadCA, GenerateCertificate, Step, diskVars
<1>5. ASSUME NEW p \in Pods, CreateCert(p) \/ WriteCert(p) PROVE FromStored(q)'
  BY <1>0, <1>5 DEF CreateCert, WriteCert, Step, Create, Write
<1>6. ASSUME NEW p \in Pods, CreateKey(p) \/ WriteKey(p) PROVE FromStored(q)'
  BY <1>0, <1>6 DEF CreateKey, WriteKey, Step
<1>7. ASSUME NEW p \in Pods, CopyCA(p) PROVE FromStored(q)'
  <2>1. mount[p] \in StoredCAs /\ held[p] \in Pairs
    BY <1>7 DEF CopyCA, Step, Loaded
  <2>2. [held[p] EXCEPT !.ca = mount[p]].ca = mount[p]
    BY <2>1 DEF Pairs
  <2>3. held' = [held EXCEPT ![p] = [held[p] EXCEPT !.ca = mount[p]]] /\ UNCHANGED <<mount, cert>>
    BY <1>7 DEF CopyCA
  <2>4. ca' = [ca EXCEPT ![p] = Empty] /\ at' = [at EXCEPT ![p] = "writeCA"] /\ at[p] # "off"
    BY <1>7 DEF CopyCA, Step, Create
  <2>5. Trusted(q)' \subseteq Trusted(q)
    BY <2>3, <2>4
  <2> QED BY <1>0, <2>1, <2>2, <2>3, <2>4, <2>5
<1>8. ASSUME NEW p \in Pods, WriteCopy(p) PROVE FromStored(q)'
  <2>1. held[p].ca \in StoredCAs
    BY <1>8 DEF WriteCopy, Step, Loaded
  <2> QED BY <1>0, <1>8, <2>1 DEF WriteCopy, Step, Write
<1> QED BY <1>1, <1>2, <1>3, <1>4, <1>5, <1>6, <1>7, <1>8 DEF PodsNext, Initialise, Certificate

\* At the start no pod has anything.
LEMMA TrustInit == ASSUME CertificatesInit, Undisturbed, AgreedAtFirst PROVE TrustInv
<1>1. SecretTypes /\ StoreInv /\ FilesInv
  BY InitType, StoreInit, FilesStart DEF CertificatesInit
<1>2. OneStored
  <2>1. caSecret \in Given /\ caNs \in CaSpaces /\ SelfNs \in CaSpaces
    BY DEF CertificatesInit, SecretInit, CaSpaces
  <2> QED BY <2>1 DEF AgreedAtFirst, OneStored, StoredCAs
<1>3. \A p \in Pods : FromStored(p)
  BY Contents, NoFileAssumption DEF CertificatesInit, FilesInit, FromStored, Trusted, NoPair
<1> QED BY <1>1, <1>2, <1>3 DEF TrustInv

\* A set of equals has at most one element.
LEMMA OneAtMost == ASSUME NEW S, \A c, d \in S : c = d PROVE Cardinality(S) <= 1
<1>1. CASE S = {}
  BY <1>1, FS_EmptySet
<1>2. CASE S # {}
  <2> PICK c \in S : TRUE
    BY <1>2
  <2>1. S = {c}
    OBVIOUS
  <2>2. Cardinality({c}) = 1
    BY FS_Singleton
  <2> QED BY <2>1, <2>2
<1> QED BY <1>1, <1>2

\* secret.go:162-226, cert.go:43, 56, 173-181: any number of pods, which sign and copy at
\* different times and keep what they have over restarts, trust one CA, the one that
\* ecsnode stores, provided that the CA Secrets do not disagree at first (AgreedAtFirst),
\* and (Undisturbed) that none of them holds a CA that does not parse, that nobody else
\* writes one, and that no read of a CA Secret fails: after a failed read ecsnode takes
\* the CA for missing and may generate another, which the next start may put in its place.
THEOREM PodsTrustOneCa == ASSUME Undisturbed, AgreedAtFirst PROVE CertificatesSpec => []OneTrust
<1>1. CertificatesInit => TrustInv
  BY TrustInit
<1>2. TrustInv /\ [CertificatesNext]_certificatesVars => TrustInv'
  <2> SUFFICES ASSUME TrustInv, [CertificatesNext]_certificatesVars PROVE TrustInv'
    OBVIOUS
  <2>1. SecretTypes' /\ StoreInv' /\ FilesInv'
    BY StepsOfParts, NextType, StoreNext, FilesKept DEF TrustInv
  <2>2. OneStored'
    BY StepsOfParts, StoredNext
  <2>3. \A p \in Pods : FromStored(p)'
    BY StepsOfParts, EcsnodeTrust, PodTrust
  <2> QED BY <2>1, <2>2, <2>3 DEF TrustInv
<1>3. TrustInv => OneTrust
  <2> SUFFICES ASSUME TrustInv PROVE OneTrust
    OBVIOUS
  <2> DEFINE trusted == UNION {Trusted(p) : p \in Pods}
  <2>1. trusted \subseteq StoredCAs
    BY DEF TrustInv, FromStored
  <2>2. \A c, d \in trusted : c = d
    BY <2>1 DEF TrustInv, OneStored
  <2>3. Cardinality(trusted) <= 1
    <3> HIDE DEF trusted
    <3> QED BY <2>2, OneAtMost
  <2> QED BY <2>1, <2>3 DEF OneTrust
<1> QED BY <1>1, <1>2, <1>3, PTL DEF CertificatesSpec

=============================================================================
