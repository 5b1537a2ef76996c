----------------------------- MODULE SecretSync -----------------------------
(***************************************************************************)
(* The Secret controller of ecsnode (pkg/controller/secret.go) with its    *)
(* secret manager (pkg/cert/secret.go): Start loads, generates and copies  *)
(* the CA and issues client certificates, while the worker of Reconcile    *)
(* already runs and repairs the client Secrets.                            *)
(*                                                                         *)
(* A Secret is represented by the CA whose certificate it holds.           *)
(***************************************************************************)
EXTENDS Naturals, FiniteSets

CONSTANTS
  CAs,          \* CA certificates, with their keys
  Absent,       \* a Secret that does not exist, or no CA in memory
  Partial,      \* a CA Secret in which a key is missing
  Foreign,      \* a CA Secret with both keys that does not parse
  Broken,       \* a client Secret without its certificate
  SelfNs,       \* the namespace of ecsnode
  CaNamespaces, \* what CASecretNamespace may be
  Namespaces,   \* CertConfig.clientSecretNamespaceSet
  Given,        \* what the CA Secrets may be before ecsnode starts
  GivenClients, \* what a client Secret may be then
  Mishaps,      \* which of MishapKinds may happen
  MaxMishaps    \* bound: mishaps

MishapKinds ==
  {"call",       \* a call fails, or its answer is lost
   "load",       \* LoadCAFromSecret cannot read a Secret that is there
   "crash",      \* the process ends
   "client",     \* somebody deletes a client Secret, or its certificate
   "touch",      \* somebody writes the metadata of a CA Secret
   "ca",         \* somebody writes a CA Secret
   "namespace"}  \* a namespace is deleted or created

CaSpaces  == CaNamespaces \cup {SelfNs}
CaData    == CAs \cup {Absent, Partial, Foreign}
ClientData == CAs \cup {Absent, Broken}

ASSUME CAsAssumption       == CAs \subseteq Nat /\ {Absent, Partial, Foreign, Broken} \cap CAs = {}
ASSUME NoCaAssumption      == Absent \notin {Partial, Foreign, Broken}
ASSUME SelfAssumption      == SelfNs \in Namespaces
ASSUME GivenAssumption     == Given \subseteq [CaSpaces -> CaData] /\ GivenClients \subseteq ClientData
ASSUME MishapsAssumption   == Mishaps \subseteq MishapKinds /\ MaxMishaps \in Nat

VARIABLES
  caNs,      \* CertConfig.CASecretNamespace
  caSecret,  \* the CA Secrets
  client,    \* the client Secrets
  active,    \* namespaces that exist and are not being deleted
  seen,      \* the informer's copy of client
  seenNs,    \* the informer's copy of active
  news,      \* namespaces of client Secrets with watch events under way
  nsNews,    \* namespaces with watch events under way
  work,      \* the controller's workqueue
  pc,        \* where Start is
  into,      \* the namespace Start writes to
  mem,       \* the CA in memory, which is h.ca when HasCA
  fresh,     \* the CA Secret has not changed since Start read it
  todo,      \* namespaces the loop of ensureClientCertificates has still to visit
  job,       \* what the worker does
  mishaps

clusterVars == <<caNs, caSecret, client, active>>
cacheVars   == <<seen, seenNs, news, nsNews, work>>
startVars   == <<pc, into, mem, fresh, todo>>
secretVars  == <<clusterVars, cacheVars, startVars, job, mishaps>>

NoMishap  == UNCHANGED mishaps
Mishap(k) == k \in Mishaps /\ mishaps < MaxMishaps /\ mishaps' = mishaps + 1

\* The client Secret in n becomes c, of which the informer will hear.
SetClient(n, c) == client' = [client EXCEPT ![n] = c] /\ news' = news \cup {n}
NoClient        == UNCHANGED <<client, news>>

NoJob == [at |-> "idle", ns |-> SelfNs]

\* Start has set h.ca.
HasCA == pc \in {"issue", "issuing", "run"}

-----------------------------------------------------------------------------
(* Start: loadOrCreateCA *)

\* Mutated form of Loads: a Secret is loaded whatever is in it.
Exists(n) == caSecret[n] # Absent

\* LoadCAFromSecret: both keys are there and parse.
Loads(n) == caSecret[n] \in CAs

\* Mutated form of StartFails: Start only logs the error.
StartLogs == pc' = "run" /\ fresh' = FALSE /\ UNCHANGED <<into, mem>>

StartFails       == pc' = "failed" /\ fresh' = FALSE /\ UNCHANGED <<into, mem>>
Copy(ca, n)      == pc' = "copy" /\ into' = n /\ mem' = ca /\ fresh' = FALSE
StartIssuing(ca) == pc' = "issue" /\ mem' = ca /\ fresh' = FALSE /\ UNCHANGED into

\* CAs that are, or were, in a Secret.
KnownCAs == {caSecret[n] : n \in CaSpaces} \cup {client[n] : n \in Namespaces} \cup {seen[n] : n \in Namespaces}

\* A CA that nobody has; the least, as one is like the other.
IsNewCA(c) == c \notin KnownCAs /\ \A d \in CAs : d < c => d \in KnownCAs

GenerateCA == pc' = "ensure" /\ into' = SelfNs /\ (\E c \in CAs : IsNewCA(c) /\ mem' = c) /\ UNCHANGED fresh

\* Mutated form of NotLoaded: the CA is generated without a look at this namespace.
NotFallenBack == GenerateCA

NotLoaded ==
  IF caNs = SelfNs THEN GenerateCA ELSE pc' = "loadSelf" /\ UNCHANGED <<into, mem, fresh>>

Load ==
  /\ pc = "load"
  /\ \/ /\ Loads(caNs) /\ NoMishap
        /\ IF caNs = SelfNs THEN StartIssuing(caSecret[caNs]) ELSE Copy(caSecret[caNs], SelfNs)
     \/ ~Loads(caNs) /\ NoMishap /\ NotLoaded
     \/ Loads(caNs) /\ Mishap("load") /\ NotLoaded
  /\ UNCHANGED <<clusterVars, cacheVars, todo, job>>

LoadSelf ==
  /\ pc = "loadSelf"
  /\ \/ Loads(SelfNs) /\ NoMishap /\ Copy(caSecret[SelfNs], caNs)
     \/ ~Loads(SelfNs) /\ NoMishap /\ GenerateCA
     \/ Loads(SelfNs) /\ Mishap("load") /\ GenerateCA
  /\ UNCHANGED <<clusterVars, cacheVars, todo, job>>

\* Mutated form of CaStored: the CA stays in this namespace.
KeptHere == StartIssuing(mem)

\* This namespace has a CA Secret.
CaStored == IF caNs = SelfNs THEN StartIssuing(mem) ELSE Copy(mem, caNs)

\* EnsureCASecret looks for a CA Secret, whose CA it does not compare ...
EnsureCASecret ==
  /\ pc = "ensure"
  /\ \/ /\ caSecret[SelfNs] = Absent /\ NoMishap
        /\ pc' = "create" /\ fresh' = TRUE /\ UNCHANGED <<into, mem>>
     \/ caSecret[SelfNs] \in CAs \cup {Foreign} /\ NoMishap /\ CaStored
     \/ caSecret[SelfNs] = Partial /\ NoMishap /\ StartFails
     \/ Mishap("call") /\ StartFails
  /\ UNCHANGED <<clusterVars, cacheVars, todo, job>>

\* A write of the CA is done, or refused because of another one, or its answer is an
\* error, with or without the write.
WriteCA(done) ==
  LET Write == caSecret' = [caSecret EXCEPT ![into] = mem]
  IN  \/ fresh /\ Write /\ NoMishap /\ done
      \/ ~fresh /\ UNCHANGED caSecret /\ NoMishap /\ StartFails
      \/ Mishap("call") /\ StartFails /\ (UNCHANGED caSecret \/ (fresh /\ Write))

\* ... and creates it.
CreateCASecret ==
  /\ pc = "create"
  /\ WriteCA(CaStored)
  /\ UNCHANGED <<caNs, client, active, cacheVars, todo, job>>

\* CopyCASecretData reads the Secret ...
CopyCASecret ==
  /\ pc = "copy"
  /\ \/ caSecret[into] = mem /\ NoMishap /\ StartIssuing(mem)
     \/ caSecret[into] # mem /\ NoMishap /\ pc' = "put" /\ fresh' = TRUE /\ UNCHANGED <<into, mem>>
     \/ Mishap("call") /\ StartFails
  /\ UNCHANGED <<clusterVars, cacheVars, todo, job>>

\* ... and creates or updates it.
PutCASecret ==
  /\ pc = "put"
  /\ WriteCA(StartIssuing(mem))
  /\ UNCHANGED <<caNs, client, active, cacheVars, todo, job>>

-----------------------------------------------------------------------------
(* Client Secrets *)

\* The Create of EnsureClientSecret, of a certificate of the CA in memory.
CreateClient(n, done, failed) ==
  LET Possible == n \in active /\ client[n] = Absent
      Write    == SetClient(n, mem)
  IN  \/ Possible /\ Write /\ NoMishap /\ done
      \/ ~Possible /\ NoClient /\ NoMishap /\ failed
      \/ Mishap("call") /\ failed /\ (NoClient \/ (Possible /\ Write))

\* ensureClientCertificates: one round of the loop up to its Create; errors are logged.
IssueGet(n) ==
  /\ pc = "issue" /\ n \in todo
  /\ todo' = todo \ {n}
  /\ \/ client[n] = Absent /\ NoMishap /\ pc' = "issuing" /\ into' = n
     \/ client[n] # Absent /\ NoMishap /\ UNCHANGED <<pc, into>>
     \/ Mishap("call") /\ UNCHANGED <<pc, into>>
  /\ UNCHANGED <<clusterVars, cacheVars, mem, fresh, job>>

IssueCreate ==
  /\ pc = "issuing" /\ pc' = "issue"
  /\ CreateClient(into, TRUE, TRUE)
  /\ UNCHANGED <<caNs, caSecret, active, seen, seenNs, nsNews, work, into, mem, fresh, todo, job>>

Issued ==
  /\ pc = "issue" /\ todo = {}
  /\ pc' = "run"
  /\ UNCHANGED <<clusterVars, cacheVars, into, mem, fresh, todo, job, mishaps>>

\* Mutated form of Verdict: any certificate will do.
AnyCertificate(n) == IF seen[n] \in {Absent, Broken} THEN "recreate" ELSE "keep"

\* What Reconcile does about the Secret, once it is read: validateClientCert uses h.ca
\* without a check, and only if the Secret is complete.
Verdict(n) ==
  CASE seen[n] \in {Absent, Broken}          -> "recreate"
    [] seen[n] \in CAs /\ ~HasCA             -> "panic"
    [] seen[n] \in CAs /\ HasCA              -> IF seen[n] = mem THEN "keep" ELSE "recreate"

\* Reconcile of n ends with an error, or a panic: n is queued again.
Requeue(n) == job' = NoJob /\ work' = work \cup {n}
Finish     == job' = NoJob /\ UNCHANGED work

ReconcileSecret(n) ==
  /\ job = NoJob /\ n \in work
  /\ \/ n \notin seenNs /\ work' = work \ {n} /\ UNCHANGED job
     \/ n \in seenNs /\ Verdict(n) = "keep" /\ work' = work \ {n} /\ UNCHANGED job
     \/ n \in seenNs /\ Verdict(n) = "panic" /\ Requeue(n)
     \/ /\ n \in seenNs /\ Verdict(n) = "recreate"
        /\ work' = work \ {n} /\ job' = [at |-> "delete", ns |-> n]
  /\ UNCHANGED <<clusterVars, seen, seenNs, news, nsNews, startVars, mishaps>>

SecretDeleted(n) == IF client[n] = Absent THEN NoClient ELSE SetClient(n, Absent)

\* recreateClientSecret: the Secret is deleted, and only then a certificate is made,
\* which panics without a CA.
Delete ==
  /\ job.at = "delete"
  /\ \/ /\ SecretDeleted(job.ns) /\ NoMishap
        /\ IF HasCA THEN job' = [job EXCEPT !.at = "get"] /\ UNCHANGED work ELSE Requeue(job.ns)
     \/ Mishap("call") /\ Requeue(job.ns) /\ (NoClient \/ SecretDeleted(job.ns))
  /\ UNCHANGED <<caNs, caSecret, active, seen, seenNs, nsNews, startVars>>

RecreateGet ==
  /\ job.at = "get"
  /\ \/ client[job.ns] = Absent /\ NoMishap /\ job' = [job EXCEPT !.at = "create"] /\ UNCHANGED work
     \/ client[job.ns] \in CAs /\ NoMishap /\ Finish
     \/ client[job.ns] = Broken /\ NoMishap /\ Requeue(job.ns)
     \/ Mishap("call") /\ Requeue(job.ns)
  /\ UNCHANGED <<clusterVars, seen, seenNs, news, nsNews, startVars>>

Recreate ==
  /\ job.at = "create"
  /\ CreateClient(job.ns, Finish, Requeue(job.ns))
  /\ UNCHANGED <<caNs, caSecret, active, seen, seenNs, nsNews, startVars>>

-----------------------------------------------------------------------------
(* The API server, other users of it, and the process *)

\* The informers learn of a client Secret, or of a namespace, and queue its key.
DeliverSecret(n) ==
  /\ n \in news /\ news' = news \ {n}
  /\ seen' = [seen EXCEPT ![n] = client[n]]
  /\ work' = work \cup {n}
  /\ UNCHANGED <<clusterVars, seenNs, nsNews, startVars, job, mishaps>>

DeliverNamespace(n) ==
  /\ n \in nsNews /\ nsNews' = nsNews \ {n}
  /\ seenNs' = IF n \in active THEN seenNs \cup {n} ELSE seenNs \ {n}
  /\ work' = work \cup {n}
  /\ UNCHANGED <<clusterVars, seen, news, startVars, job, mishaps>>

\* A CA Secret is written by others, which makes what Start has read an old version.
EditCA ==
  /\ \/ Mishap("touch") /\ fresh /\ caSecret[into] # Absent /\ fresh' = FALSE /\ UNCHANGED caSecret
     \/ Mishap("ca") /\ \E n \in CaSpaces, d \in CaData :
          caSecret' = [caSecret EXCEPT ![n] = d] /\ fresh' = (fresh /\ n # into)
  /\ UNCHANGED <<caNs, client, active, cacheVars, pc, into, mem, todo, job>>

EditClient(n) ==
  /\ Mishap("client") /\ n \in active
  /\ \E d \in {Absent, Broken} \ {client[n]} : SetClient(n, d)
  /\ UNCHANGED <<caNs, caSecret, active, seen, seenNs, nsNews, work, startVars, job>>

\* A namespace of applications goes, with its Secrets, or comes.
EditNamespace(n) ==
  /\ Mishap("namespace") /\ n \notin CaSpaces
  /\ active' = IF n \in active THEN active \ {n} ELSE active \cup {n}
  /\ nsNews' = nsNews \cup {n}
  /\ SecretDeleted(n)
  /\ UNCHANGED <<caNs, caSecret, seen, seenNs, work, startVars, job>>

\* The process ends, because Start has failed or for another reason; the next one
\* lists the namespaces and the Secrets.
RestartSecret ==
  /\ (pc = "failed" /\ NoMishap) \/ Mishap("crash")
  /\ pc' = "load" /\ into' = SelfNs /\ mem' = Absent /\ fresh' = FALSE /\ todo' = Namespaces
  /\ job' = NoJob
  /\ seen' = client /\ seenNs' = active /\ news' = {} /\ nsNews' = {} /\ work' = active
  /\ UNCHANGED clusterVars

-----------------------------------------------------------------------------
SecretInit ==
  /\ caNs \in CaNamespaces /\ caSecret \in Given
  /\ active \in {Namespaces \cap CaSpaces, Namespaces}
  /\ client \in [Namespaces -> GivenClients] /\ \A n \in Namespaces \ active : client[n] = Absent
  /\ seen = client /\ seenNs = active /\ news = {} /\ nsNews = {} /\ work = active
  /\ pc = "load" /\ into = SelfNs /\ mem = Absent /\ fresh = FALSE /\ todo = Namespaces
  /\ job = NoJob /\ mishaps = 0

LoadOrCreateCA == Load \/ LoadSelf \/ EnsureCASecret \/ CreateCASecret \/ CopyCASecret \/ PutCASecret
EnsureClientCertificates == Issued \/ IssueCreate \/ \E n \in Namespaces : IssueGet(n)
Start  == LoadOrCreateCA \/ EnsureClientCertificates \/ (pc = "failed" /\ RestartSecret)
Informer  == \E n \in Namespaces : DeliverSecret(n) \/ DeliverNamespace(n)
Worker == Delete \/ RecreateGet \/ Recreate \/ \E n \in Namespaces : ReconcileSecret(n)
SecretEnv == EditCA \/ RestartSecret \/ \E n \in Namespaces : EditClient(n) \/ EditNamespace(n)

SecretNext == LoadOrCreateCA \/ EnsureClientCertificates \/ Worker \/ Informer \/ SecretEnv

SecretSpec == SecretInit /\ [][SecretNext]_secretVars

-----------------------------------------------------------------------------
(* Properties *)

StartSteps == {"load", "loadSelf", "ensure", "create", "copy", "put", "issue", "issuing", "run", "failed"}

SecretTypeOK ==
  /\ caNs \in CaNamespaces /\ caSecret \in [CaSpaces -> CaData]
  /\ client \in [Namespaces -> ClientData] /\ active \subseteq Namespaces
  /\ seen \in [Namespaces -> ClientData] /\ seenNs \subseteq Namespaces
  /\ news \subseteq Namespaces /\ nsNews \subseteq Namespaces /\ work \subseteq Namespaces
  /\ pc \in StartSteps /\ into \in CaSpaces \cup Namespaces
  /\ mem \in CAs \cup {Absent} /\ (pc \notin {"load", "loadSelf", "failed"} => mem \in CAs)
  /\ fresh \in BOOLEAN /\ todo \subseteq Namespaces
  /\ job \in [at : {"idle", "delete", "get", "create"}, ns : Namespaces]
  /\ mishaps \in 0..MaxMishaps

StoredCAs == {caSecret[n] : n \in {caNs, SelfNs}} \cap CAs

\* secret.go:162-226, 415-422: once Start goes on with a CA, the CA is in the Secret of
\* the configured namespace and in that of ecsnode, although writes failed, or their
\* answers were lost, in this process or an earlier one, and somebody wrote the Secrets'
\* metadata meanwhile.  It does not hold when a CA Secret that is there cannot be read
\* ("load"), when others write one ("ca"), or when one at first does not parse (Foreign).
MemoryIsStored == HasCA => \A n \in {caNs, SelfNs} : caSecret[n] = mem

\* secret.go:167-209: ecsnode never adds another CA to those in the Secrets, nor takes
\* away the last one: a process that ended between two writes left a CA that the next
\* one takes up.  A failed read ("load") lets Start generate another CA or copy the
\* wrong one, so this, too, is about runs without it, and without others' writes.
KeepsCA == [][StoredCAs # {} => StoredCAs' # {} /\ StoredCAs' \subseteq StoredCAs]_secretVars

\* ecsnode.md:223 (client certificates for all configured namespaces; a Reconcile
\* verifies and recreates them): in the end every namespace has a client Secret of the
\* stored CA, although Reconcile may run before there is a CA, deletes before it
\* creates, reads old copies, and Start only logs its errors.
ClientsFollowCA ==
  <>[](HasCA => \A n \in active : client[n] = caSecret[caNs])

=============================================================================
