------------------------------ MODULE CertFiles ------------------------------
(***************************************************************************)
(* What etcdcluster does before its loop (cmd/etcdcluster/main.go:90-123,  *)
(* 248-330 and pkg/init/cert.go): it reads its configuration, makes the    *)
(* pod's certificate, key and copy of the CA, and writes its environment.  *)
(* The files are on an emptyDir: they outlive the container, not the pod.  *)
(***************************************************************************)
EXTENDS Naturals

CONSTANTS
  Pods,
  Issuers,   \* CAs that may be mounted
  NoFile,    \* a file that does not exist
  Empty,     \* a file that was created and not written
  MaxKills   \* bound: container crashes and deleted pods

ASSUME NoFileAssumption == NoFile # Empty /\ {NoFile, Empty} \cap (Issuers \cup Nat) = {}
ASSUME NoPairAssumption == {NoFile, Empty} \cap [ca : Issuers, key : Nat] = {}
ASSUME KillsAssumption  == MaxKills \in Nat

VARIABLES
  mount,  \* the CA in CA_FILE and CA_KEY_FILE
  at,     \* where each pod's main is
  held,   \* the certificate in memory: the CA that signed it, and its key
  cert,   \* $CERT_DIR/$POD_NAME.pem
  key,    \* $CERT_DIR/$POD_NAME-key.pem
  ca,     \* $CERT_DIR/ca.pem
  made,   \* number of private keys generated so far
  kills

diskVars  == <<cert, key, ca>>
filesVars == <<mount, at, held, diskVars, made, kills>>

Pairs  == [ca : Issuers, key : Nat]
NoPair == NoFile

Step(p, from, to) == at[p] = from /\ at' = [at EXCEPT ![p] = to]

\* os.Create, which truncates, and the write of what is in memory.
Create(file, p)     == file' = [file EXCEPT ![p] = Empty]
Write(file, p, data) == file' = [file EXCEPT ![p] = data]

-----------------------------------------------------------------------------
\* The kubelet mounts the CA Secret, and starts the container only then.
Boot(p, c) ==
  /\ Step(p, "off", "config")
  /\ mount' = [mount EXCEPT ![p] = c]
  /\ UNCHANGED <<held, diskVars, made, kills>>

\* The kubelet notices that the Secret has changed.
Remount(p, c) ==
  /\ at[p] # "off" /\ mount[p] # c
  /\ mount' = [mount EXCEPT ![p] = c]
  /\ UNCHANGED <<at, held, diskVars, made, kills>>

\* loadConfig: the CA files are there.
LoadConfig(p) ==
  /\ Step(p, "config", "generate")
  /\ UNCHANGED <<mount, held, diskVars, made, kills>>

\* Mutated form of HasFiles: a certificate is enough to skip its generation.
HasCert(p) == cert[p] # NoFile

HasFiles(p) == cert[p] # NoFile /\ key[p] # NoFile

\* GenerateCertificate does nothing when both files exist, whatever is in them.
SkipCertificate(p) ==
  /\ Step(p, "generate", "environment")
  /\ HasFiles(p)
  /\ UNCHANGED <<mount, held, diskVars, made, kills>>

\* Mutated form of LoadCA: the CA is read from the pod's own copy.
LoadCopy(p) == ca[p]

\* loadCA: the CA as it is mounted now.
LoadCA(p) == mount[p]

\* A new key, and a certificate signed by the CA.
GenerateCertificate(p) ==
  /\ Step(p, "generate", "createCert")
  /\ ~HasFiles(p)
  /\ made' = made + 1
  /\ held' = [held EXCEPT ![p] = [ca |-> LoadCA(p), key |-> made + 1]]
  /\ UNCHANGED <<mount, diskVars, kills>>

\* writeCertFiles: the certificate, then the key.
CreateCert(p) ==
  /\ Step(p, "createCert", "writeCert")
  /\ Create(cert, p)
  /\ UNCHANGED <<mount, held, key, ca, made, kills>>

WriteCert(p) ==
  /\ Step(p, "writeCert", "createKey")
  /\ Write(cert, p, held[p])
  /\ UNCHANGED <<mount, held, key, ca, made, kills>>

CreateKey(p) ==
  /\ Step(p, "createKey", "writeKey")
  /\ Create(key, p)
  /\ UNCHANGED <<mount, held, cert, ca, made, kills>>

WriteKey(p) ==
  /\ Step(p, "writeKey", "copyCA")
  /\ Write(key, p, held[p].key)
  /\ UNCHANGED <<mount, held, cert, ca, made, kills>>

\* copyCACert: the CA is read again, unless there is a copy.
SkipCopy(p) ==
  /\ Step(p, "copyCA", "environment")
  /\ ca[p] # NoFile
  /\ UNCHANGED <<mount, held, diskVars, made, kills>>

CopyCA(p) ==
  /\ Step(p, "copyCA", "writeCA")
  /\ ca[p] = NoFile /\ Create(ca, p)
  /\ held' = [held EXCEPT ![p].ca = mount[p]]
  /\ UNCHANGED <<mount, cert, key, made, kills>>

WriteCopy(p) ==
  /\ Step(p, "writeCA", "environment")
  /\ Write(ca, p, held[p].ca)
  /\ UNCHANGED <<mount, held, cert, key, made, kills>>

\* The environment and the scripts, written anew each time.
SetupEnvironment(p) ==
  /\ Step(p, "environment", "ready")
  /\ UNCHANGED <<mount, held, diskVars, made, kills>>

\* An error (klog.Fatalf) or a crash ends the container, which starts again.
Die(p) ==
  /\ at[p] # "off" /\ at' = [at EXCEPT ![p] = "off"]
  /\ kills < MaxKills /\ kills' = kills + 1
  /\ held' = [held EXCEPT ![p] = NoPair]
  /\ UNCHANGED <<mount, diskVars, made>>

\* The pod is deleted, and its files with it.
DeletePod(p) ==
  /\ at' = [at EXCEPT ![p] = "off"]
  /\ kills < MaxKills /\ kills' = kills + 1
  /\ held' = [held EXCEPT ![p] = NoPair]
  /\ cert' = [cert EXCEPT ![p] = NoFile]
  /\ key' = [key EXCEPT ![p] = NoFile]
  /\ ca' = [ca EXCEPT ![p] = NoFile]
  /\ UNCHANGED <<mount, made>>

-----------------------------------------------------------------------------
FilesInit ==
  /\ mount \in [Pods -> {NoFile}] /\ at = [p \in Pods |-> "off"]
  /\ held = [p \in Pods |-> NoPair]
  /\ cert = [p \in Pods |-> NoFile] /\ key = [p \in Pods |-> NoFile] /\ ca = [p \in Pods |-> NoFile]
  /\ made = 0 /\ kills = 0

Certificate(p) ==
  \/ SkipCertificate(p) \/ GenerateCertificate(p)
  \/ CreateCert(p) \/ WriteCert(p) \/ CreateKey(p) \/ WriteKey(p)
  \/ SkipCopy(p) \/ CopyCA(p) \/ WriteCopy(p)
Initialise(p) == LoadConfig(p) \/ Certificate(p) \/ SetupEnvironment(p)
Kubelet(p, c) == Boot(p, c) \/ Remount(p, c)
Kill(p)       == Die(p) \/ DeletePod(p)

FilesNext == \E p \in Pods : Initialise(p) \/ Kill(p) \/ \E c \in Issuers : Kubelet(p, c)

FilesSpec == FilesInit /\ [][FilesNext]_filesVars

-----------------------------------------------------------------------------
(* Properties *)

MainSteps == {"off", "config", "generate", "createCert", "writeCert", "createKey", "writeKey",
              "copyCA", "writeCA", "environment", "ready"}

FilesTypeOK ==
  /\ mount \in [Pods -> Issuers \cup {NoFile}] /\ at \in [Pods -> MainSteps]
  /\ held \in [Pods -> Pairs \cup {NoPair}]
  /\ cert \in [Pods -> Pairs \cup {NoFile, Empty}]
  /\ key \in [Pods -> Nat \cup {NoFile, Empty}]
  /\ ca \in [Pods -> Issuers \cup {NoFile, Empty}]
  /\ made \in Nat /\ kills \in 0..MaxKills

\* cert.go:43-46, 141-170: a key on disk is always that of the certificate next to it,
\* wherever the container was killed, however often, and whatever it was writing; and
\* nobody goes on to the cluster without a complete certificate.
PairMatches ==
  \A p \in Pods :
    /\ key[p] # NoFile => cert[p] \in Pairs /\ key[p] \in {Empty, cert[p].key}
    /\ at[p] \in {"environment", "ready"} => key[p] # NoFile

=============================================================================
