--------------------------- MODULE CertFiles_proofs ---------------------------
(***************************************************************************)
(* What holds of the certificate files for any pods, issuers and number of *)
(* container crashes.                                                      *)
(***************************************************************************)
EXTENDS CertFiles, TLAPS

\* Main works on a CA that is mounted, and a certificate it holds.
Loaded(p) ==
  /\ at[p] # "off" => mount[p] \in Issuers
  /\ at[p] \in {"createCert", "writeCert", "createKey", "writeKey", "copyCA", "writeCA"} => held[p] \in Pairs

\* Until the key file is there it has none, and then it is the key of the certificate.
Matching(p) ==
  /\ key[p] # NoFile => cert[p] \in Pairs /\ key[p] \in {Empty, cert[p].key}
  /\ at[p] \in {"createCert", "writeCert", "createKey"} => key[p] = NoFile
  /\ at[p] \in {"createKey", "writeKey"} => cert[p] = held[p]
  /\ at[p] \in {"writeKey", "copyCA", "writeCA", "environment", "ready"} => key[p] # NoFile

FilesInv == FilesTypeOK /\ \A p \in Pods : Loaded(p) /\ Matching(p)

\* A file that is not there, or empty, has no content.
LEMMA Contents ==
  /\ NoFile # Empty /\ NoFile \notin Pairs /\ Empty \notin Pairs
  /\ NoFile \notin Nat /\ Empty \notin Nat
BY NoFileAssumption, NoPairAssumption DEF Pairs

\* A new pair is one.
LEMMA NewPair ==
  ASSUME NEW c \in Issuers, NEW k \in Nat
  PROVE  [ca |-> c, key |-> k] \in Pairs /\ [ca |-> c, key |-> k].key = k
BY DEF Pairs

\* Every step of a pod keeps the types.
LEMMA TypeNext == ASSUME FilesInv, [FilesNext]_filesVars PROVE FilesTypeOK'
<1> USE DEF FilesInv, FilesTypeOK, MainSteps, NoPair
<1>1. CASE UNCHANGED filesVars
  BY <1>1 DEF filesVars, diskVars
<1>2. ASSUME NEW p \in Pods, NEW c \in Issuers, Kubelet(p, c) PROVE FilesTypeOK'
  BY <1>2 DEF Kubelet, Boot, Remount, Step, diskVars
<1>3. ASSUME NEW p \in Pods, Kill(p) PROVE FilesTypeOK'
  <2>1. kills' \in 0..MaxKills
    BY <1>3, KillsAssumption DEF Kill, Die, DeletePod
  <2>2. CASE Die(p)
    BY <2>1, <2>2 DEF Die, diskVars
  <2>3. CASE DeletePod(p)
    BY <2>1, <2>3 DEF DeletePod
  <2> QED BY <1>3, <2>2, <2>3 DEF Kill
<1>4. ASSUME NEW p \in Pods, LoadConfig(p) \/ SkipCertificate(p) \/ SkipCopy(p) \/ SetupEnvironment(p)
      PROVE  FilesTypeOK'
  BY <1>4 DEF LoadConfig, SkipCertificate, SkipCopy, SetupEnvironment, Step, diskVars
<1>5. ASSUME NEW p \in Pods, GenerateCertificate(p) PROVE FilesTypeOK'
  <2>1. mount[p] \in Issuers /\ made + 1 \in Nat
    BY <1>5 DEF LoadCA, GenerateCertificate, Step, Loaded
  <2>2. held' \in [Pods -> Pairs \cup {NoPair}]
    BY <1>5, <2>1, NewPair DEF LoadCA, GenerateCertificate
  <2> QED BY <1>5, <2>1, <2>2 DEF LoadCA, GenerateCertificate, Step, diskVars
<1>6. ASSUME NEW p \in Pods, CreateCert(p) \/ WriteCert(p) \/ CreateKey(p) PROVE FilesTypeOK'
  BY <1>6 DEF CreateCert, WriteCert, CreateKey, Step, Create, Write, Loaded
<1>7. ASSUME NEW p \in Pods, WriteKey(p) PROVE FilesTypeOK'
  <2>1. held[p].key \in Nat
    BY <1>7 DEF WriteKey, Step, Loaded, Pairs
  <2> QED BY <1>7, <2>1 DEF WriteKey, Step, Write
<1>8. ASSUME NEW p \in Pods, CopyCA(p) PROVE FilesTypeOK'
  <2>1. mount[p] \in Issuers /\ held[p] \in Pairs
    BY <1>8 DEF CopyCA, Step, Loaded
  <2>2. [held[p] EXCEPT !.ca = mount[p]] \in Pairs
    BY <2>1 DEF Pairs
  <2>3. held' = [held EXCEPT ![p] = [held[p] EXCEPT !.ca = mount[p]]]
    BY <1>8 DEF CopyCA
  <2>4. held' \in [Pods -> Pairs \cup {NoPair}]
    BY <2>2, <2>3
  <2> QED BY <1>8, <2>4 DEF CopyCA, Step, Create
<1>9. ASSUME NEW p \in Pods, WriteCopy(p) PROVE FilesTypeOK'
  <2>1. held[p].ca \in Issuers
    BY <1>9 DEF WriteCopy, Step, Loaded, Pairs
  <2> QED BY <1>9, <2>1 DEF WriteCopy, Step, Write
<1> QED BY <1>1, <1>2, <1>3, <1>4, <1>5, <1>6, <1>7, <1>8, <1>9 DEF FilesNext, Initialise, Certificate

\* The steps of a pod that has a CA keep it.
LEMMA LoadedNext == ASSUME FilesInv, [FilesNext]_filesVars, NEW q \in Pods PROVE Loaded(q)'
<1> USE DEF FilesInv, FilesTypeOK, Loaded
<1>1. CASE UNCHANGED filesVars
  BY <1>1 DEF filesVars, diskVars
<1>2. ASSUME NEW p \in Pods, NEW c \in Issuers, Kubelet(p, c) PROVE Loaded(q)'
  BY <1>2 DEF Kubelet, Boot, Remount, Step
<1>3. ASSUME NEW p \in Pods, Kill(p) PROVE Loaded(q)'
  BY <1>3 DEF Kill, Die, DeletePod
<1>4. ASSUME NEW p \in Pods, LoadConfig(p) \/ SkipCertificate(p) \/ SkipCopy(p) \/ SetupEnvironment(p)
      PROVE  Loaded(q)'
  BY <1>4 DEF LoadConfig, SkipCertificate, SkipCopy, SetupEnvironment, Step
<1>5. ASSUME NEW p \in Pods, GenerateCertificate(p) PROVE Loaded(q)'
  <2>1. mount[p] \in Issuers /\ made + 1 \in Nat
    BY <1>5 DEF LoadCA, GenerateCertificate, Step
  <2> QED BY <1>5, <2>1, NewPair DEF LoadCA, GenerateCertificate, Step
<1>6. ASSUME NEW p \in Pods, CreateCert(p) \/ WriteCert(p) \/ CreateKey(p) \/ WriteKey(p) \/ WriteCopy(p)
      PROVE  Loaded(q)'
  BY <1>6 DEF CreateCert, WriteCert, CreateKey, WriteKey, WriteCopy, Step
<1>7. ASSUME NEW p \in Pods, CopyCA(p) PROVE Loaded(q)'
  <2>1. mount[p] \in Issuers /\ held[p] \in Pairs
    BY <1>7 DEF CopyCA, Step
  <2>2. [held[p] EXCEPT !.ca = mount[p]] \in Pairs
    BY <2>1 DEF Pairs
  <2> QED BY <1>7, <2>1, <2>2 DEF CopyCA, Step
<1> QED BY <1>1, <1>2, <1>3, <1>4, <1>5, <1>6, <1>7 DEF FilesNext, Initialise, Certificate

\* And so they do with the pair of files.
LEMMA MatchingNext == ASSUME FilesInv, [FilesNext]_filesVars, NEW q \in Pods PROVE Matching(q)'
<1> USE Contents DEF FilesInv, FilesTypeOK, Matching
<1>1. CASE UNCHANGED filesVars
  BY <1>1 DEF filesVars, diskVars
<1>2. ASSUME NEW p \in Pods, NEW c \in Issuers, Kubelet(p, c) PROVE Matching(q)'
  BY <1>2 DEF Kubelet, Boot, Remount, Step, diskVars
<1>3. ASSUME NEW p \in Pods, Kill(p) PROVE Matching(q)'
  BY <1>3 DEF Kill, Die, DeletePod, diskVars
<1>4. ASSUME NEW p \in Pods, LoadConfig(p) \/ SkipCopy(p) \/ SetupEnvironment(p) PROVE Matching(q)'
  BY <1>4 DEF LoadConfig, SkipCopy, SetupEnvironment, Step, diskVars
<1>5. ASSUME NEW p \in Pods, SkipCertificate(p) \/ GenerateCertificate(p) PROVE Matching(q)'
  BY <1>5 DEF SkipCertificate, LoadCA, GenerateCertificate, HasFiles, Step, diskVars
<1>6. ASSUME NEW p \in Pods, CreateCert(p) PROVE Matching(q)'
  BY <1>6 DEF CreateCert, Step, Create
<1>7. ASSUME NEW p \in Pods, WriteCert(p) PROVE Matching(q)'
  BY <1>7 DEF WriteCert, Step, Write
<1>8. ASSUME NEW p \in Pods, CreateKey(p) PROVE Matching(q)'
  BY <1>8 DEF CreateKey, Step, Create, Loaded
<1>9. ASSUME NEW p \in Pods, WriteKey(p) PROVE Matching(q)'
  <2>1. held[p].key \in Nat
    BY <1>9 DEF WriteKey, Step, Loaded, Pairs
  <2> QED BY <1>9, <2>1 DEF WriteKey, Step, Write, Loaded
<1>10. ASSUME NEW p \in Pods, CopyCA(p) \/ WriteCopy(p) PROVE Matching(q)'
  BY <1>10 DEF CopyCA, WriteCopy, Step
<1> QED BY <1>1, <1>2, <1>3, <1>4, <1>5, <1>6, <1>7, <1>8, <1>9, <1>10 DEF FilesNext, Initialise, Certificate

\* At the start there are no files.
LEMMA FilesStart == ASSUME FilesInit PROVE FilesInv
<1>1. FilesTypeOK
  BY KillsAssumption DEF FilesInit, FilesTypeOK, MainSteps
<1> QED BY <1>1, Contents DEF FilesInit, FilesInv, Loaded, Matching

\* The invariant as a whole.
LEMMA FilesKept == ASSUME FilesInv, [FilesNext]_filesVars PROVE FilesInv'
BY TypeNext, LoadedNext, MatchingNext DEF FilesInv

\* cert.go:34-180: every file is empty or holds what main writes there; in particular
\* a certificate is only signed, and a copy only made, of a CA that is mounted.
THEOREM FilesTypeCorrect == FilesSpec => []FilesTypeOK
<1>1. FilesInv => FilesTypeOK
  BY DEF FilesInv
<1> QED BY <1>1, FilesStart, FilesKept, PTL DEF FilesSpec

\* cert.go:43-46, 141-170: for any number of pods and crashes, at whatever write, a key
\* on disk is empty or that of the certificate next to it.
THEOREM PairsAlwaysMatch == FilesSpec => []PairMatches
<1>1. FilesInv => PairMatches
  BY DEF FilesInv, Matching, PairMatches
<1> QED BY <1>1, FilesStart, FilesKept, PTL DEF FilesSpec

=============================================================================
