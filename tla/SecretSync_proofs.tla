-------------------------- MODULE SecretSync_proofs --------------------------
(***************************************************************************)
(* What holds of the Secret controller for any CAs, namespaces and number  *)
(* of mishaps.                                                             *)
(***************************************************************************)
EXTENDS SecretSync, TLAPS

\* The parts of the type invariant, by the variables that change together.
CasOK     == caNs \in CaNamespaces /\ caSecret \in [CaSpaces -> CaData]
ClientsOK == client \in [Namespaces -> ClientData] /\ active \subseteq Namespaces /\ news \subseteq Namespaces
CachesOK  == seen \in [Namespaces -> ClientData] /\ seenNs \subseteq Namespaces /\ nsNews \subseteq Namespaces
StartOK ==
  /\ pc \in StartSteps /\ into \in CaSpaces \cup Namespaces
  /\ mem \in CAs \cup {Absent} /\ (pc \notin {"load", "loadSelf", "failed"} => mem \in CAs)
  /\ fresh \in BOOLEAN /\ todo \subseteq Namespaces
JobOK   == job \in [at : {"idle", "delete", "get", "create"}, ns : Namespaces] /\ work \subseteq Namespaces
CountOK == mishaps \in 0..MaxMishaps

SecretTypes == CasOK /\ ClientsOK /\ CachesOK /\ StartOK /\ JobOK /\ CountOK

\* They make it up.
LEMMA Parts == SecretTypes <=> SecretTypeOK
BY DEF SecretTypes, SecretTypeOK, CasOK, ClientsOK, CachesOK, StartOK, JobOK, CountOK

\* A mishap that may happen is within the bound.
LEMMA CountType == ASSUME CountOK, NoMishap \/ \E k \in MishapKinds : Mishap(k) PROVE CountOK'
BY MishapsAssumption DEF CountOK, NoMishap, Mishap

\* The worker's job is nothing, or one of its steps.
LEMMA NoJobType == NoJob \in [at : {"idle", "delete", "get", "create"}, ns : Namespaces]
BY SelfAssumption DEF NoJob

-----------------------------------------------------------------------------
(* Types *)

\* Each way on of loadOrCreateCA has a CA where it needs one.
LEMMA WayOnType ==
  ASSUME StartOK, UNCHANGED todo, caNs \in CaNamespaces,
         \/ StartFails
         \/ \E d \in CAs : (\E n \in CaSpaces : Copy(d, n)) \/ StartIssuing(d)
         \/ GenerateCA
         \/ pc = "load" /\ pc' = "loadSelf" /\ UNCHANGED <<into, mem, fresh>>
  PROVE  StartOK'
<1> USE DEF StartOK, StartSteps, CaSpaces
<1>1. CASE StartFails
  BY <1>1 DEF StartFails
<1>2. CASE \E d \in CAs : \E n \in CaSpaces : Copy(d, n)
  BY <1>2 DEF Copy
<1>3. CASE \E d \in CAs : StartIssuing(d)
  BY <1>3 DEF StartIssuing
<1>4. CASE GenerateCA
  BY <1>4 DEF GenerateCA
<1>5. CASE pc = "load" /\ pc' = "loadSelf" /\ UNCHANGED <<into, mem, fresh>>
  BY <1>5
<1> QED BY <1>1, <1>2, <1>3, <1>4, <1>5

\* What Start has in its hands is stored, or copied to the other namespace.
LEMMA CaStoredType ==
  ASSUME CaStored, mem \in CAs, caNs \in CaNamespaces
  PROVE  \E d \in CAs : (\E n \in CaSpaces : Copy(d, n)) \/ StartIssuing(d)
BY DEF CaStored, CaSpaces

\* Every step of loadOrCreateCA keeps the types.
LEMMA LoadOrCreateType == ASSUME SecretTypes, LoadOrCreateCA PROVE SecretTypes'
<1> USE DEF SecretTypes, MishapKinds
<1>0. SelfNs \in CaSpaces /\ caNs \in CaSpaces
  BY DEF CaSpaces, CasOK
<1>1. CASE Load
  <2>1. UNCHANGED <<clusterVars, cacheVars, todo, job>> /\ (NoMishap \/ Mishap("load"))
    BY <1>1 DEF Load
  <2>2. StartOK'
    <3>1. CASE Loads(caNs) /\ IF caNs = SelfNs THEN StartIssuing(caSecret[caNs]) ELSE Copy(caSecret[caNs], SelfNs)
      BY <1>0, <2>1, <3>1, WayOnType DEF Loads, CasOK
    <3>2. CASE NotLoaded
      BY <1>1, <2>1, <3>2, WayOnType DEF NotLoaded, Load, CasOK
    <3> QED BY <1>1, <3>1, <3>2 DEF Load
  <2> QED BY <2>1, <2>2, CountType DEF clusterVars, cacheVars, CasOK, ClientsOK, CachesOK, JobOK
<1>2. CASE LoadSelf
  <2>1. UNCHANGED <<clusterVars, cacheVars, todo, job>> /\ (NoMishap \/ Mishap("load"))
    BY <1>2 DEF LoadSelf
  <2>2. StartOK'
    BY <1>0, <1>2, <2>1, WayOnType DEF LoadSelf, Loads, CasOK
  <2> QED BY <2>1, <2>2, CountType DEF clusterVars, cacheVars, CasOK, ClientsOK, CachesOK, JobOK
<1>3. CASE EnsureCASecret
  <2>1. UNCHANGED <<clusterVars, cacheVars, todo, job>> /\ (NoMishap \/ Mishap("call")) /\ mem \in CAs
    BY <1>3 DEF EnsureCASecret, StartOK
  <2>2. StartOK'
    <3>1. CASE pc' = "create" /\ fresh' = TRUE /\ UNCHANGED <<into, mem>>
      BY <2>1, <3>1 DEF StartOK, StartSteps
    <3>2. CASE CaStored \/ StartFails
      BY <2>1, <3>2, WayOnType, CaStoredType DEF CasOK
    <3> QED BY <1>3, <3>1, <3>2 DEF EnsureCASecret
  <2> QED BY <2>1, <2>2, CountType DEF clusterVars, cacheVars, CasOK, ClientsOK, CachesOK, JobOK
<1>4. CASE CreateCASecret \/ PutCASecret
  <2>1. UNCHANGED <<caNs, client, active, cacheVars, todo, job>> /\ (NoMishap \/ Mishap("call")) /\ mem \in CAs
    BY <1>4 DEF CreateCASecret, PutCASecret, WriteCA, StartOK
  <2>2. StartOK'
    BY <1>4, <2>1, WayOnType, CaStoredType DEF CreateCASecret, PutCASecret, WriteCA, CasOK
  <2>3. CasOK'
    <3>1. caSecret' \in {caSecret, [caSecret EXCEPT ![into] = mem]}
      BY <1>4 DEF CreateCASecret, PutCASecret, WriteCA
    <3> QED BY <2>1, <3>1 DEF CasOK, CaData
  <2> QED BY <2>1, <2>2, <2>3, CountType DEF cacheVars, ClientsOK, CachesOK, JobOK
<1>5. CASE CopyCASecret
  <2>1. UNCHANGED <<clusterVars, cacheVars, todo, job>> /\ (NoMishap \/ Mishap("call")) /\ mem \in CAs
    BY <1>5 DEF CopyCASecret, StartOK
  <2>2. StartOK'
    <3>1. CASE pc' = "put" /\ fresh' = TRUE /\ UNCHANGED <<into, mem>>
      BY <2>1, <3>1 DEF StartOK, StartSteps
    <3>2. CASE StartIssuing(mem) \/ StartFails
      BY <2>1, <3>2, WayOnType DEF CasOK
    <3> QED BY <1>5, <3>1, <3>2 DEF CopyCASecret
  <2> QED BY <2>1, <2>2, CountType DEF clusterVars, cacheVars, CasOK, ClientsOK, CachesOK, JobOK
<1> QED BY <1>1, <1>2, <1>3, <1>4, <1>5 DEF LoadOrCreateCA

\* A client Secret that is written is one of those that may be.
LEMMA SetClientType ==
  ASSUME ClientsOK, UNCHANGED active,
         NoClient \/ \E n \in Namespaces, c \in ClientData : SetClient(n, c)
  PROVE  ClientsOK'
BY DEF ClientsOK, NoClient, SetClient

\* The Create of a client Secret writes the CA in memory, or nothing.
LEMMA CreateClientType ==
  ASSUME StartOK, NEW n, NEW done, NEW failed, CreateClient(n, done, failed)
  PROVE  /\ NoClient \/ (n \in active /\ SetClient(n, mem)) 
         /\ mem \in ClientData
         /\ done \/ failed
         /\ NoMishap \/ Mishap("call")
BY DEF CreateClient, StartOK, ClientData

\* So does the Delete, with nothing.
LEMMA DeletedType ==
  ASSUME NEW n, SecretDeleted(n)
  PROVE  NoClient \/ (SetClient(n, Absent) /\ Absent \in ClientData)
BY DEF SecretDeleted, ClientData

\* Every step of ensureClientCertificates keeps the types.
LEMMA IssueType == ASSUME SecretTypes, EnsureClientCertificates PROVE SecretTypes'
<1> USE DEF SecretTypes, MishapKinds
<1>1. CASE \E n \in Namespaces : IssueGet(n)
  <2>1. UNCHANGED <<clusterVars, cacheVars, job>> /\ (NoMishap \/ Mishap("call"))
    BY <1>1 DEF IssueGet
  <2>2. StartOK'
    BY <1>1 DEF IssueGet, StartOK, StartSteps
  <2> QED BY <2>1, <2>2, CountType DEF clusterVars, cacheVars, CasOK, ClientsOK, CachesOK, JobOK
<1>2. CASE IssueCreate
  <2>1. UNCHANGED <<caNs, caSecret, active, seen, seenNs, nsNews, work, job>>
    BY <1>2 DEF IssueCreate
  <2>2. CreateClient(into, TRUE, TRUE)
    BY <1>2 DEF IssueCreate
  <2>3. ClientsOK' /\ CountOK'
    BY <2>1, <2>2, CreateClientType, SetClientType, CountType DEF ClientsOK
  <2>4. StartOK'
    BY <1>2 DEF IssueCreate, StartOK, StartSteps
  <2> QED BY <2>1, <2>3, <2>4 DEF CasOK, CachesOK, JobOK
<1>3. CASE Issued
  <2>1. StartOK'
    BY <1>3 DEF Issued, StartOK, StartSteps
  <2>2. UNCHANGED <<clusterVars, cacheVars, job, mishaps>>
    BY <1>3 DEF Issued
  <2> QED BY <2>1, <2>2 DEF clusterVars, cacheVars, CasOK, ClientsOK, CachesOK, JobOK, CountOK
<1> QED BY <1>1, <1>2, <1>3 DEF EnsureClientCertificates

\* A Reconcile that ends, with or without an error, leaves a key of the queue.
LEMMA JobEndType ==
  ASSUME JobOK, Finish \/ \E n \in Namespaces : Requeue(n) PROVE JobOK'
BY NoJobType DEF JobOK, Finish, Requeue

\* Every step of the worker keeps the types.
LEMMA WorkerType == ASSUME SecretTypes, Worker PROVE SecretTypes'
<1> USE DEF SecretTypes, MishapKinds
<1>0. job.ns \in Namespaces
  BY DEF JobOK
<1>1. CASE \E n \in Namespaces : ReconcileSecret(n)
  <2>1. UNCHANGED <<clusterVars, seen, seenNs, news, nsNews, startVars, mishaps>>
    BY <1>1 DEF ReconcileSecret
  <2>2. JobOK'
    BY <1>1, JobEndType DEF ReconcileSecret, JobOK
  <2> QED BY <2>1, <2>2 DEF clusterVars, startVars, CasOK, ClientsOK, CachesOK, StartOK, CountOK
<1>2. CASE Delete
  <2>1. UNCHANGED <<caNs, caSecret, active, seen, seenNs, nsNews, startVars>> /\ (NoMishap \/ Mishap("call"))
    BY <1>2 DEF Delete
  <2>2. ClientsOK'
    BY <1>0, <1>2, <2>1, DeletedType, SetClientType DEF Delete
  <2>3. JobOK'
    BY <1>0, <1>2, JobEndType DEF Delete, JobOK
  <2> QED BY <2>1, <2>2, <2>3, CountType DEF startVars, CasOK, CachesOK, StartOK
<1>3. CASE RecreateGet
  <2>1. UNCHANGED <<clusterVars, seen, seenNs, news, nsNews, startVars>> /\ (NoMishap \/ Mishap("call"))
    BY <1>3 DEF RecreateGet
  <2>2. JobOK'
    BY <1>0, <1>3, JobEndType DEF RecreateGet, JobOK
  <2> QED BY <2>1, <2>2, CountType DEF clusterVars, startVars, CasOK, ClientsOK, CachesOK, StartOK
<1>4. CASE Recreate
  <2>1. UNCHANGED <<caNs, caSecret, active, seen, seenNs, nsNews, startVars>>
    BY <1>4 DEF Recreate
  <2>2. CreateClient(job.ns, Finish, Requeue(job.ns))
    BY <1>4 DEF Recreate
  <2>3. ClientsOK' /\ CountOK' /\ JobOK'
    BY <1>0, <2>1, <2>2, CreateClientType, SetClientType, CountType, JobEndType
  <2> QED BY <2>1, <2>3 DEF startVars, CasOK, CachesOK, StartOK
<1> QED BY <1>1, <1>2, <1>3, <1>4 DEF Worker

\* So do the informers.
LEMMA InformerType == ASSUME SecretTypes, Informer PROVE SecretTypes'
<1> USE DEF SecretTypes
<1>1. CASE \E n \in Namespaces : DeliverSecret(n)
  <2>1. UNCHANGED <<clusterVars, seenNs, nsNews, startVars, job, mishaps>>
    BY <1>1 DEF DeliverSecret
  <2>2. /\ seen' \in [Namespaces -> ClientData]
        /\ news' \subseteq Namespaces /\ work' \subseteq Namespaces
    BY <1>1 DEF DeliverSecret, CachesOK, ClientsOK, JobOK
  <2> QED BY <2>1, <2>2 DEF clusterVars, startVars, CasOK, ClientsOK, CachesOK, StartOK, JobOK, CountOK
<1>2. CASE \E n \in Namespaces : DeliverNamespace(n)
  <2>1. UNCHANGED <<clusterVars, seen, news, startVars, job, mishaps>>
    BY <1>2 DEF DeliverNamespace
  <2>2. seenNs' \subseteq Namespaces /\ nsNews' \subseteq Namespaces /\ work' \subseteq Namespaces
    BY <1>2 DEF DeliverNamespace, CachesOK, JobOK
  <2> QED BY <2>1, <2>2 DEF clusterVars, startVars, CasOK, ClientsOK, CachesOK, StartOK, JobOK, CountOK
<1> QED BY <1>1, <1>2 DEF Informer

\* And so do the others, and the end of the process.
LEMMA EnvType == ASSUME SecretTypes, SecretEnv PROVE SecretTypes'
<1> USE DEF SecretTypes, MishapKinds
<1>1. CASE EditCA
  <2>1. UNCHANGED <<caNs, client, active, cacheVars, pc, into, mem, todo, job>> /\ \E k \in MishapKinds : Mishap(k)
    BY <1>1 DEF EditCA
  <2>2. caSecret' \in [CaSpaces -> CaData]
    BY <1>1 DEF EditCA, CasOK
  <2>3. fresh' \in BOOLEAN
    BY <1>1 DEF EditCA
  <2> QED BY <2>1, <2>2, <2>3, CountType DEF cacheVars, CasOK, ClientsOK, CachesOK, StartOK, JobOK
<1>2. CASE \E n \in Namespaces : EditClient(n)
  <2>1. UNCHANGED <<caNs, caSecret, active, seen, seenNs, nsNews, work, startVars, job>> /\ Mishap("client")
    BY <1>2 DEF EditClient
  <2>2. ClientsOK'
    BY <1>2, <2>1, SetClientType DEF EditClient, ClientData
  <2> QED BY <2>1, <2>2, CountType DEF startVars, CasOK, CachesOK, StartOK, JobOK
<1>3. CASE \E n \in Namespaces : EditNamespace(n)
  <2>1. UNCHANGED <<caNs, caSecret, seen, seenNs, work, startVars, job>> /\ Mishap("namespace")
    BY <1>3 DEF EditNamespace
  <2>2. active' \subseteq Namespaces /\ nsNews' \subseteq Namespaces
    BY <1>3 DEF EditNamespace, ClientsOK, CachesOK
  <2>3. client' \in [Namespaces -> ClientData] /\ news' \subseteq Namespaces
    BY <1>3, DeletedType DEF EditNamespace, ClientsOK, NoClient, SetClient
  <2> QED BY <2>1, <2>2, <2>3, CountType DEF startVars, CasOK, ClientsOK, CachesOK, StartOK, JobOK
<1>4. CASE RestartSecret
  <2>1. UNCHANGED clusterVars /\ (NoMishap \/ Mishap("crash"))
    BY <1>4 DEF RestartSecret
  <2>2. StartOK'
    BY <1>4 DEF RestartSecret, StartOK, StartSteps, CaSpaces
  <2>3. ClientsOK' /\ CachesOK' /\ JobOK'
    BY <1>4, <2>1, NoJobType DEF RestartSecret, clusterVars, ClientsOK, CachesOK, JobOK
  <2> QED BY <2>1, <2>2, <2>3, CountType DEF clusterVars, CasOK
<1> QED BY <1>1, <1>2, <1>3, <1>4 DEF SecretEnv

\* At the start ecsnode has read nothing.
LEMMA InitType == ASSUME SecretInit PROVE SecretTypes
<1>1. CasOK
  BY GivenAssumption DEF SecretInit, CasOK
<1>2. ClientsOK /\ CachesOK
  BY GivenAssumption DEF SecretInit, ClientsOK, CachesOK
<1>3. StartOK
  BY DEF SecretInit, StartOK, StartSteps, CaSpaces
<1>4. JobOK
  <2>1. active \subseteq Namespaces
    BY DEF SecretInit
  <2> QED BY <2>1, NoJobType DEF SecretInit, JobOK
<1>5. CountOK
  BY MishapsAssumption DEF SecretInit, CountOK
<1> QED BY <1>1, <1>2, <1>3, <1>4, <1>5 DEF SecretTypes

\* Whatever happens keeps the types.
LEMMA NextType == ASSUME SecretTypes, [SecretNext]_secretVars PROVE SecretTypes'
<1>1. CASE UNCHANGED secretVars
  BY <1>1 DEF secretVars, clusterVars, cacheVars, startVars, SecretTypes,
              CasOK, ClientsOK, CachesOK, StartOK, JobOK, CountOK
<1> QED BY <1>1, LoadOrCreateType, IssueType, WorkerType, InformerType, EnvType DEF SecretNext

\* secret.go:143-318: every variable keeps its type; in particular Start never writes a
\* Secret, or issues a certificate, without a CA in its hands.
THEOREM TypeCorrect == SecretSpec => []SecretTypeOK
<1> QED BY InitType, NextType, Parts, PTL DEF SecretSpec

-----------------------------------------------------------------------------
(* The CA *)

\* Every read of a CA Secret succeeds, and nobody else writes one, in which there is
\* nothing that does not parse.
Undisturbed ==
  /\ {"load", "ca"} \cap Mishaps = {}
  /\ \A f \in Given, n \in CaSpaces : f[n] # Foreign

Parsable == \A n \in CaSpaces : caSecret[n] # Foreign

NotStored(n) == caSecret[n] \notin CAs

\* The other namespace is there, and has not got the CA yet.
CopiedFrom(a, b) == caNs # SelfNs /\ into = b /\ caSecret[a] = mem

\* Before each write Start knows that the Secret it read first has still no CA, or
\* still the CA it goes to copy.
StoreInv ==
  /\ Parsable
  /\ pc = "loadSelf" => caNs # SelfNs /\ NotStored(caNs)
  /\ pc \in {"ensure", "create"} => into = SelfNs /\ NotStored(SelfNs) /\ NotStored(caNs)
  /\ pc \in {"copy", "put"} => CopiedFrom(caNs, SelfNs) \/ CopiedFrom(SelfNs, caNs)
  /\ MemoryIsStored

CaVars == <<caNs, caSecret, pc, into, mem>>

\* What is not about a CA does not disturb it.
LEMMA StoreStays == ASSUME StoreInv, UNCHANGED CaVars PROVE StoreInv'
BY DEF StoreInv, CaVars, Parsable, NotStored, CopiedFrom, MemoryIsStored, HasCA

\* Neither does a Start that has failed, or begins again.
LEMMA StoreGone ==
  ASSUME Parsable', pc' \in {"failed", "load"} PROVE StoreInv'
BY DEF StoreInv, MemoryIsStored, HasCA

\* Every step of loadOrCreateCA keeps the order of reads and writes.
LEMMA LoadOrCreateStored ==
  ASSUME SecretTypes, StoreInv, Undisturbed, LoadOrCreateCA PROVE StoreInv'
<1> USE DEF Parsable, NotStored, CopiedFrom
<1>0. SelfNs \in CaSpaces /\ caNs \in CaSpaces /\ ~Mishap("load")
  BY DEF CaSpaces, CasOK, SecretTypes, Mishap, Undisturbed
<1>1. CASE Load
  <2>1. UNCHANGED <<caNs, caSecret>>
    BY <1>1 DEF Load, clusterVars
  <2>2. CASE Loads(caNs)
    BY <1>0, <1>1, <2>1, <2>2 DEF Load, Loads, StartIssuing, Copy, StoreInv, MemoryIsStored, HasCA
  <2>3. CASE ~Loads(caNs) /\ NotLoaded
    BY <2>1, <2>3 DEF Loads, NotLoaded, GenerateCA, StoreInv, MemoryIsStored, HasCA
  <2> QED BY <1>0, <1>1, <2>2, <2>3 DEF Load
<1>2. CASE LoadSelf
  <2>1. UNCHANGED <<caNs, caSecret>>
    BY <1>2 DEF LoadSelf, clusterVars
  <2>2. CASE Copy(caSecret[SelfNs], caNs)
    BY <1>2, <2>1, <2>2 DEF LoadSelf, Copy, StoreInv, MemoryIsStored, HasCA
  <2>3. CASE ~Loads(SelfNs) /\ GenerateCA
    BY <1>2, <2>1, <2>3 DEF LoadSelf, Loads, GenerateCA, StoreInv, MemoryIsStored, HasCA
  <2> QED BY <1>0, <1>2, <2>2, <2>3 DEF LoadSelf
<1>3. CASE EnsureCASecret
  <2>1. UNCHANGED <<caNs, caSecret>>
    BY <1>3 DEF EnsureCASecret, clusterVars
  <2>2. CASE pc' = "create" /\ UNCHANGED <<into, mem>>
    BY <1>3, <2>1, <2>2 DEF EnsureCASecret, StoreInv, MemoryIsStored, HasCA
  <2>3. CASE StartFails
    BY <2>1, <2>3, StoreGone DEF StartFails, StoreInv
  <2>4. caSecret[SelfNs] \notin CAs \cup {Foreign}
    BY <1>0, <1>3 DEF EnsureCASecret, StoreInv
  <2> QED BY <1>3, <2>2, <2>3, <2>4 DEF EnsureCASecret
<1>4. CASE CreateCASecret
  <2>1. UNCHANGED caNs /\ into = SelfNs /\ mem \in CAs /\ mem # Foreign
    BY <1>4, NoCaAssumption, CAsAssumption DEF CreateCASecret, StoreInv, SecretTypes, StartOK
  <2>2. CASE caSecret' = [caSecret EXCEPT ![into] = mem] /\ CaStored
    <3>1. caSecret'[SelfNs] = mem /\ Parsable'
      BY <1>0, <2>1, <2>2 DEF StoreInv, SecretTypes, CasOK
    <3> QED BY <2>1, <2>2, <3>1 DEF CaStored, StartIssuing, Copy, StoreInv, MemoryIsStored, HasCA
  <2>3. CASE StartFails /\ caSecret' \in {caSecret, [caSecret EXCEPT ![into] = mem]}
    <3>1. Parsable'
      BY <2>1, <2>3 DEF StoreInv, SecretTypes, CasOK
    <3> QED BY <2>3, <3>1, StoreGone DEF StartFails
  <2> QED BY <1>4, <2>2, <2>3 DEF CreateCASecret, WriteCA
<1>5. CASE CopyCASecret
  <2>1. UNCHANGED <<caNs, caSecret>>
    BY <1>5 DEF CopyCASecret, clusterVars
  <2>2. CASE caSecret[into] = mem /\ StartIssuing(mem)
    BY <1>5, <2>1, <2>2 DEF CopyCASecret, StartIssuing, StoreInv, MemoryIsStored, HasCA
  <2>3. CASE pc' = "put" /\ UNCHANGED <<into, mem>>
    BY <1>5, <2>1, <2>3 DEF CopyCASecret, StoreInv, MemoryIsStored, HasCA
  <2>4. CASE StartFails
    BY <2>1, <2>4, StoreGone DEF StartFails, StoreInv
  <2> QED BY <1>5, <2>2, <2>3, <2>4 DEF CopyCASecret
<1>6. CASE PutCASecret
  <2>1. UNCHANGED caNs /\ mem \in CAs /\ mem # Foreign /\ (CopiedFrom(caNs, SelfNs) \/ CopiedFrom(SelfNs, caNs))
    BY <1>6, NoCaAssumption, CAsAssumption DEF PutCASecret, StoreInv, SecretTypes, StartOK
  <2>2. CASE caSecret' = [caSecret EXCEPT ![into] = mem] /\ StartIssuing(mem)
    <3>1. caSecret'[SelfNs] = mem /\ caSecret'[caNs] = mem /\ Parsable'
      BY <1>0, <2>1, <2>2 DEF StoreInv, SecretTypes, CasOK
    <3> QED BY <2>1, <2>2, <3>1 DEF StartIssuing, StoreInv, MemoryIsStored, HasCA
  <2>3. CASE StartFails /\ caSecret' \in {caSecret, [caSecret EXCEPT ![into] = mem]}
    <3>1. Parsable'
      BY <2>1, <2>3 DEF StoreInv, SecretTypes, CasOK
    <3> QED BY <2>3, <3>1, StoreGone DEF StartFails
  <2> QED BY <1>6, <2>2, <2>3 DEF PutCASecret, WriteCA
<1> QED BY <1>1, <1>2, <1>3, <1>4, <1>5, <1>6 DEF LoadOrCreateCA

\* So does everything else.
LEMMA StoreNext ==
  ASSUME SecretTypes, StoreInv, Undisturbed, [SecretNext]_secretVars PROVE StoreInv'
<1>1. CASE EnsureClientCertificates
  <2>1. UNCHANGED <<caNs, caSecret, mem>> /\ pc \in {"issue", "issuing"} /\ pc' \in {"issue", "issuing", "run"}
    BY <1>1 DEF EnsureClientCertificates, IssueGet, IssueCreate, Issued, clusterVars
  <2> QED BY <2>1 DEF StoreInv, Parsable, MemoryIsStored, HasCA
<1>2. CASE Worker \/ Informer \/ UNCHANGED secretVars
  <2>1. UNCHANGED CaVars
    BY <1>2 DEF Worker, Informer, ReconcileSecret, Delete, RecreateGet, Recreate,
                DeliverSecret, DeliverNamespace, secretVars, clusterVars, startVars, CaVars
  <2> QED BY <2>1, StoreStays
<1>3. CASE SecretEnv
  <2>1. CASE EditCA \/ \E n \in Namespaces : EditClient(n) \/ EditNamespace(n)
    <3>1. UNCHANGED CaVars
      BY <2>1 DEF EditCA, EditClient, EditNamespace, Mishap, Undisturbed, startVars, CaVars
    <3> QED BY <3>1, StoreStays
  <2>2. CASE RestartSecret
    <3>1. Parsable' /\ pc' = "load"
      BY <2>2 DEF RestartSecret, clusterVars, StoreInv, Parsable
    <3> QED BY <3>1, StoreGone
  <2> QED BY <1>3, <2>1, <2>2 DEF SecretEnv
<1> QED BY <1>1, <1>2, <1>3, LoadOrCreateStored DEF SecretNext

\* At the start there is no CA in memory.
LEMMA StoreInit == ASSUME SecretInit, Undisturbed PROVE StoreInv
BY DEF SecretInit, Undisturbed, StoreInv, Parsable, MemoryIsStored, HasCA

\* secret.go:162-226, 415-422: as long as every Secret that is there can be read, Start
\* goes on only with a CA that is in the Secret of each of its namespaces, however many
\* calls failed or lost their answer, in this process or the ones before it.
THEOREM StoresWhatItUses == ASSUME Undisturbed PROVE SecretSpec => []MemoryIsStored
<1>1. SecretInit => SecretTypes /\ StoreInv
  BY InitType, StoreInit
<1>2. SecretTypes /\ StoreInv /\ [SecretNext]_secretVars => (SecretTypes /\ StoreInv)'
  BY NextType, StoreNext
<1>3. StoreInv => MemoryIsStored
  BY DEF StoreInv
<1> QED BY <1>1, <1>2, <1>3, PTL DEF SecretSpec

\* What is written to a CA Secret is the CA that the other one has, or the first CA.
LEMMA CaWritten ==
  ASSUME SecretTypes, StoreInv, Undisturbed, [SecretNext]_secretVars
  PROVE  /\ UNCHANGED caNs
         /\ \/ UNCHANGED caSecret
            \/ /\ caSecret' = [caSecret EXCEPT ![into] = mem] /\ mem \in CAs
               /\ (into = SelfNs /\ StoredCAs = {}) \/ CopiedFrom(caNs, SelfNs) \/ CopiedFrom(SelfNs, caNs)
<1>1. UNCHANGED caNs
  BY DEF SecretNext, LoadOrCreateCA, Load, LoadSelf, EnsureCASecret, CreateCASecret, CopyCASecret, PutCASecret,
         EnsureClientCertificates, IssueGet, IssueCreate, Issued, Worker, ReconcileSecret, Delete, RecreateGet,
         Recreate, Informer, DeliverSecret, DeliverNamespace, SecretEnv, EditCA, EditClient, EditNamespace,
         RestartSecret, secretVars, clusterVars
<1>2. CASE CreateCASecret
  <2>1. StoredCAs = {} /\ into = SelfNs /\ mem \in CAs
    BY <1>2 DEF CreateCASecret, StoreInv, NotStored, StoredCAs, SecretTypes, StartOK
  <2> QED BY <1>1, <1>2, <2>1 DEF CreateCASecret, WriteCA
<1>3. CASE PutCASecret
  <2>1. mem \in CAs
    BY <1>3 DEF PutCASecret, SecretTypes, StartOK
  <2> QED BY <1>1, <1>3, <2>1 DEF PutCASecret, WriteCA, StoreInv
<1>4. CASE ~(CreateCASecret \/ PutCASecret)
  <2>1. UNCHANGED caSecret
    BY <1>4 DEF SecretNext, LoadOrCreateCA, Load, LoadSelf, EnsureCASecret, CopyCASecret,
         EnsureClientCertificates, IssueGet, IssueCreate, Issued, Worker, ReconcileSecret, Delete, RecreateGet,
         Recreate, Informer, DeliverSecret, DeliverNamespace, SecretEnv, EditCA, EditClient, EditNamespace,
         RestartSecret, secretVars, clusterVars, Mishap, Undisturbed
  <2> QED BY <1>1, <2>1
<1> QED BY <1>2, <1>3, <1>4

\* A CA that is stored stays, and no other one is added.
LEMMA CaKept ==
  ASSUME SecretTypes, StoreInv, Undisturbed, [SecretNext]_secretVars, StoredCAs # {}
  PROVE  StoredCAs' # {} /\ StoredCAs' \subseteq StoredCAs
<1>1. CASE UNCHANGED <<caNs, caSecret>>
  BY <1>1 DEF StoredCAs
<1>2. CASE /\ UNCHANGED caNs /\ caSecret' = [caSecret EXCEPT ![into] = mem] /\ mem \in CAs
           /\ CopiedFrom(caNs, SelfNs) \/ CopiedFrom(SelfNs, caNs)
  <2>1. SelfNs \in CaSpaces /\ caNs \in CaSpaces
    BY DEF CaSpaces, CasOK, SecretTypes
  <2>2. caSecret'[caNs] = mem /\ caSecret'[SelfNs] = mem /\ mem \in StoredCAs
    BY <1>2, <2>1 DEF CopiedFrom, StoredCAs, SecretTypes, CasOK
  <2> QED BY <1>2, <2>2 DEF StoredCAs
<1> QED BY <1>1, <1>2, CaWritten

\* The first CA that is stored is the only one.
LEMMA CaFirst ==
  ASSUME SecretTypes, StoreInv, Undisturbed, [SecretNext]_secretVars, StoredCAs = {}
  PROVE  \A c, d \in StoredCAs' : c = d
<1>1. CASE UNCHANGED <<caNs, caSecret>>
  BY <1>1 DEF StoredCAs
<1>2. CASE UNCHANGED caNs /\ caSecret' = [caSecret EXCEPT ![into] = mem]
  <2>1. \A n \in {caNs, SelfNs} : caSecret'[n] \in {mem, caSecret[n]}
    BY <1>2 DEF SecretTypes, CasOK, CaSpaces
  <2> QED BY <1>2, <2>1 DEF StoredCAs
<1> QED BY <1>1, <1>2, CaWritten

\* secret.go:167-209: under the same conditions a CA that is stored is never replaced
\* by one that was generated, and the last copy of it is never lost.
THEOREM StoredCaSurvives == ASSUME Undisturbed PROVE SecretSpec => KeepsCA
<1>1. SecretInit => SecretTypes /\ StoreInv
  BY InitType, StoreInit
<1>2. SecretTypes /\ StoreInv /\ [SecretNext]_secretVars => (SecretTypes /\ StoreInv)'
  BY NextType, StoreNext
<1>3. SecretTypes /\ StoreInv /\ [SecretNext]_secretVars
        => [StoredCAs # {} => StoredCAs' # {} /\ StoredCAs' \subseteq StoredCAs]_secretVars
  BY CaKept
<1> QED BY <1>1, <1>2, <1>3, PTL DEF SecretSpec, KeepsCA

=============================================================================
