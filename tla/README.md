# A TLA+ model of etcdauto

etcdauto is two programs. **etcdcluster** runs in every pod of an etcd
StatefulSet: it finds the other pods' etcd, decides whether to join a cluster or to
start one, drives etcd's membership API and starts, watches and stops the pod's etcd
process. **ecsnode** is a Kubernetes controller with leader election: it turns
`ECSNode` objects into a ConfigMap of host IPs (from which etcdcluster's IP files
are mounted), a headless Service with its Endpoints, a Secret with certificates, and
the number of replicas of the StatefulSet.

Paths below are relative to `src/`.

## 1. Inventory

### etcdcluster

| Part | State | Operations | Correct when |
|---|---|---|---|
| main loop (`cmd/etcdcluster/main.go:333-421`) | position in the loop, process environment (`ETCD_INITIAL_CLUSTER_STATE`, `ETCD_INITIAL_CLUSTER`) | discover; wait; initialise (pod-0 only); join; wait for etcd to exit | at most one cluster serves; every pod ends up in it |
| discovery (`pkg/cluster/discovery.go`) | endpoints by health: ready, not ready, unreachable; dead masters | one goroutine per endpoint, any order | what it says was true of each endpoint at some moment |
| membership manager (`pkg/cluster/manager.go:44-440`) | view of the member list, data directory | MemberList, remove dead members, remove self, add (as learner), promote, start etcd, clean up | quorum and data of the cluster survive each call, each refusal and each lost answer |
| brain split checker (`manager.go:443-700`, `main.go:476-540`) | place in its check, endpoints still to ask, verified or not | asks the local etcd, then each other endpoint for its health, then each for cluster ID and member list | content only if there is no split; a split pod joins again |
| certificates (`pkg/init/cert.go`) | certificate, key and copy of the CA on an emptyDir | generate or skip, create and write each file | files that outlive the container fit together; all pods trust one CA |
| environment (`pkg/init/env.go`, `scripts.go`, `network.go`) | environment, three scripts | sequential, before the loop, anew at every start | runs to its end |

The pods share nothing but etcd itself: each reads the health endpoints and member
list of the others and acts on what it saw, while the others do the same. etcd
processes outlive the iteration of the loop that started them; containers crash with
or without their data; calls time out after they were applied.

### ecsnode

| Part | State | Operations | Correct when |
|---|---|---|---|
| publish and subscribe (`pkg/util/pubsub.go`) | a channel of ten messages per subscriber | Publish, which drops a message for a full channel | what is dropped does not matter |
| ECSNode controller (`pkg/controller/ecnode.go`) | `hostips`, `trigger` | onceInit, Reconcile, publish | `hostips` follows the objects; every change is published |
| ConfigMap controller (`configmap.go`) | copy of `hostips`, `triggerch` | copy, Reconcile, syncConfigmap, retry | the ConfigMap lists every host with its IPs, also across restarts |
| Pod controller (`pod.go`) | copy of `hostips`, `podInfo` | copy, syncOnce, Reconcile, ListPodHostIP | `podInfo` follows pods and hosts |
| Service controller (`service.go`) | `svcinfo`, `triggerch` | Reconcile, syncService, retry | Endpoints hold the addresses of the ready pods' hosts |
| replica controller (`node.go`) | `trigger` | event filters, triggerSync, syncReplicas with conflicts | replicas follow the number of matching nodes |
| Secret controller (`secret.go`) with its secret manager (`pkg/cert/secret.go`) | the CA in memory and in the Secrets of one or two namespaces; client Secrets | Start: load, fall back, generate, store, copy, issue; Reconcile: validate, delete, create again | there is one CA, it is never lost or replaced, and all client certificates come from it |

Every controller has one worker (Reconcile), and most have one goroutine of their
own; they communicate through channels and by sharing the live map `hostips`. The
API server is read through a cache that may be old, and writes that conflict are
refused. The two programs meet in three places: the ConfigMap (the IP files), the
number of replicas, and the Secret of the CA that the pods of etcdcluster mount.

`PROJECT.json` lists every component with its status, and under `hazards` what is
hard to test in them, each at its line.

## 2. Modules

| Module | Models | State | Actions |
|---|---|---|---|
| `EtcdCluster` | all etcdcluster processes, with etcd and the kubelet as their environment | per pod: `pc` (place in the loop), `todo`/`ready`/`notReady`/`dead` (EndpointInfo), `view` (processMembers' result), `env`, `etcd` (the process), `dir` (the data directory); per cluster: `members` | `Discover` (a probe, or what follows the last one), `Join` (each call of JoinExistingCluster and each way it fails), `Wait` (the checker: `CheckLocal`, `CollectOthers`, `CompareMatches`, `CompareFails`, its verdicts; exit), `Etcd` (boot, stop), `Crash`, `Restart` |
| `EtcdClusterClaims` | nothing of its own: sentences of the repository's documents that the code does not keep | | |
| `EcsNode` | ECSNode controller, publishing, and the loop each subscriber runs over the live map | `node`, `deleting`, `work`, `hostips`, `sending`, `trigger`; per subscriber: `queue`, `copy`, `reading`, `pruning`, `changed` | `Reconcile` (onceInit, ignore, update), `SendTrigger`, `Publish`, `Receive`, `ReadHost` (one key of the first loop), `StartPrune`, `PruneHost` (one key of the second), `Merged`, `EcsCrash` |
| `ConfigMapSync` | EcsNode and the ConfigMap controller | `cm`, `cache`, `stale`, `sync`, `triggers`, `telling`, `retries`, ... | `CmReconcile`, `CmSend`, `Tell`, `SyncGet`, `SyncPut`, `Retry`, `Deliver`, `Edit` |
| `PodService` | EcsNode, the Pod and the Service controller | `pod`, `podInfo`, `synced`, `signals`, `sync`, `svc`, `ep`, `epCache`, ... | `SyncOnce`, `PodLeaves`, `PodChanged`, `SyncList`, `PutService`, `PutEndpoints`, `SvcRetry`, `SvcReconcile`, ... |
| `HostSync` | what publish and subscribe promises, without channels and loops; `Promise` in `EcsNode` maps onto it | `hosts`, `copies` | `Change`, `Adopt` (one entry of a copy becomes what the map has), `Reset` |
| `SecretSync` | Secret controller and secret manager: Start and the worker at the same time | `caSecret`, `client`, `active`; the caches `seen`, `seenNs`, `news`, `nsNews`, `work`; Start's `pc`, `into`, `mem`, `fresh`, `todo`; the worker's `job` | `Load`, `LoadSelf`, `EnsureCASecret`, `CreateCASecret`, `CopyCASecret`, `PutCASecret`, `IssueGet`, `IssueCreate`, `Issued`; `ReconcileSecret`, `Delete`, `RecreateGet`, `Recreate`; `DeliverSecret`, `DeliverNamespace`; `RestartSecret` and others' edits |
| `CertFiles` | what each etcdcluster does before its loop | `mount`, `at`, `held`, the files `cert`, `key`, `ca` | `Boot`, `Remount`, `LoadConfig`, `SkipCertificate`, `GenerateCertificate`, the creation and the write of each file, `CopyCA`, `SetupEnvironment`, `Die`, `DeletePod` |
| `Certificates` | `SecretSync` and `CertFiles`: pods mount the Secret that ecsnode writes | theirs | theirs |
| `Replicas` | replica controller, node and StatefulSet informers | `labels`, `listed`, `replicas`, `stsNews`, `requests`, `waiting`, `syncing` | `ChangeNode`, `DeliverNode`, `EditSts`, `DeliverSts`, `ReconcileNode`, `ListNodes`, `GetSts`, `UpdateSts`, `NewLeader` |
| `EtcdCluster_proofs`, `EcsNode_proofs`, `ConfigMapSync_proofs`, `PodService_proofs`, `SecretSync_proofs`, `CertFiles_proofs`, `Certificates_proofs`, `Replicas_proofs` | | | theorems and lemmas |
| `MC*` | instances for TLC | | |

How the state relates to the code:

* **A handler that makes several calls is several actions**, one per call of the
  membership API or the API server, because other pods act in between. Everything the
  code does between two calls belongs to the action of the first: `MemberList`, say,
  includes processMembers and, if no member is dead, handleMemberJoin up to its next
  call, with the removal of the data directory and the start of etcd.
* **A call** succeeds, is refused by the cluster (`AddOk`, `RemoveOk`, `PromoteOk` are
  etcd's rules), cannot reach a serving cluster, fails for no reason (`"rpc"`), or is
  applied while its answer is lost (`"lostAdd"`, ...). The client balances over the
  endpoints that were ready, so a call may reach any cluster one of them serves now.
* **Probes** are goroutines: `Probe` takes the endpoints whose goroutine ends now, so
  the set that a decision is based on mixes different moments (as far as the instance
  lets it, see the bounds). An empty nodeIPDir gives no endpoints at all (`NoIPFiles`).
* **A check of the brain split checker is several actions**: `CheckLocal` remembers the
  local cluster and member, `CollectOthers` asks which endpoints are healthy, and each
  `Compare...` is one MemberList. A checker that cannot load its certificate closes its
  channel, which `main.go:508` takes for a verdict (fault `"tls"`, in `InitializeNewCluster`).
* **etcd** is external. It is modelled by what this code sees of it: membership checks,
  health, quorum, and how a process boots: it creates its directory; without a WAL it
  then founds a cluster, joins one, or exits when `ETCD_INITIAL_CLUSTER` does not match.
* **The environment belongs to the process** (`env`): only `manager.go:89, 98` and `347-348`
  set `ETCD_INITIAL_CLUSTER_STATE` and `ETCD_INITIAL_CLUSTER`, and a container that restarts
  has neither. etcd's defaults are then state `new` and the member's own peer URLs
  (`ETCD_NAME` and `ETCD_INITIAL_ADVERTISE_PEER_URLS`, `env.go:64, 72`), so a bare etcd without
  a WAL founds a cluster as one of pod-0's does (`Founds`).
* **`hostips` is a total function** on master IPs, `{}` where the map has no entry; an
  entry always contains its master IP, so it is never an empty set. `Publish` sends
  the live map, so a message carries nothing, and a queue is a number.
* **A Secret is the CA whose certificate it holds**, or `Absent`, `Partial` (a key is
  missing), `Foreign` (does not parse), `Broken` (a client Secret without its
  certificate). `fresh` says that the version Start has read is still the last one; a
  write of an old version is refused, and a refused write fails Start.
* **A client Secret is deleted, looked for and created** in three actions of the worker,
  because Start creates the same Secrets meanwhile and the cache tells old news.
  Without a CA, validation and signing panic; controller-runtime recovers, and the key
  is queued again.
* **os.Create and the write of a file are two actions**: a container may be killed
  between them and leave an empty file. Files stay until the pod is deleted.
* **The node predicate** sees the new object of an update, but the last known object of
  a deletion (`Passes`).
* A Go map that is written while another goroutine iterates over it ends the process:
  this is one of the causes of `EcsCrash`.

Assumptions: a pod stays on one host (hostNetwork, one etcd pod per master); pods start in
any order, which contains the OrderedReady of the manifests; each founded cluster and
each member has an ID of its own; two ECSNodes do not have one master IP
in the instances, although the model allows it; the List of onceInit that fails is
only tried again; a ConfigMap with a DeletionTimestamp is treated as one that differs;
the namespace of ecsnode is among those that get client certificates
(`SelfAssumption`, from `cmd/ecsnode/config.go:49-59`), and `1 <= MinReplicas <=
MaxReplicas` (`ReplicasAssumption`, from Valid, `pkg/controller/node.go:44-52`); a
generated CA is one that nobody has; reads through a cache do not fail.

The assumption on IDs is the one to keep in mind. etcd derives the ID of a new cluster,
and of its first member, from the peer URLs and the cluster token, and `env.go:80` fixes
the token (`etcd_tmpfs`). Two clusters that pod-0 founded therefore have one cluster ID,
and the checker's first comparison cannot tell them apart; if the first member of pod-0
is still listed in the older one, its second comparison is content too. The proposal's own test of
the checker (`proposals/20260812-cluster-discovery-fix.md:504`) uses another token. So
`VerifyMeansWhole` and `after_split` are about clusters whose IDs differ: for `after_split`
it is enough that pod-0 had joined the older cluster with MemberAdd, which gives its
member a new ID.

## 3. Runs

Every cfg sets `CHECK_DEADLOCK FALSE`: a settled system waits for its environment,
and the bounds on crashes, faults and changes end it. Several of these runs end in
states in which every pod waits for its etcd.

| Run | Instance | Shows |
|---|---|---|
| `formation` | three fresh pods, endpoints probed one by one, two lost answers or unreadable files, p1's IP a prefix of p2's | **AllJoin**: in the end every pod is a running voter of one cluster |
| `rolling_restart` | from nothing; three crashes or deletions, each while all pods run; one lost answer | **Recoverable** (most voters hold the data), **AddKeepsQuorum**, **AllJoin** |
| `faults` | two mishaps at any moment, each a crash, a deletion, a lost promotion, a failed call or a checker without a certificate; pod-0's probes each at a moment of its own, none of them wrong; up to a bare boot | **OneServing** (no split brain), **RunningHasData**, **KeepsVotersData**, `TypeOK` |
| `split` | two crashes or deletions and one of: a wrong probe or an empty nodeIPDir (which do split the cluster, and hide endpoints from the checker), a checker without a certificate; the checker asks one endpoint after the other; up to a bare boot | **BootstrapWatched**, **VerifyMeansWhole** |
| `config_map` | two ECSNodes with two IPs, one change (write, deletion with or without finalizer), two faults (crash, edit, failed write) | **NoLostUpdate**, **NoLostSync**, **KeepsLiveHosts**, **ListsEveryHost**, `TypeOK`; the refinement: **CopiesHosts** (EcsNode implements `HostSync`) and **CopiesCatchUp** (with its fairness) |
| `pod_service` | two hosts, two pods, at most two of: a pod's change, a host's change, a fault | **NoLostSignal**, **KeepsReadyPods**, **ServesReadyPods**, `TypeOK` |
| `controllers` | three parts, one per behaviour. *secrets*: ecsnode in one namespace or two, six combinations of CA Secrets at first, another namespace that may come or go, one mishap (a failed or lost call, a crash, an edit of a client Secret or of a CA Secret's metadata, a namespace). *pods*: one pod killed or deleted once, ecsnode with one mishap, four CA Secrets that agree. *replicas*: two nodes, one change of a node, three of: scale, other write, deletion, new leader, lost answer | **MemoryIsStored**, **KeepsCA**, **ClientsFollow**; **PairMatches**, **OneTrust**, **StoredCAReachesPods**; **NoLostScale**, **ReplicasFollowNodes**; three type invariants |
| `short_outage`, `after_split`, `promotion_fails`, `unreadable_file`, `bare_restart` | see section 6 | the code does not do what a document says |

Bounds, and why they are enough:

* Three pods are the smallest cluster in which a learner is added (to one voter), a
  voter is added (to two) and a minority can be lost. The deployment runs three.
* `MaxCrashes`, `MaxFaults`, `MaxMishaps`, `MaxChanges`, `MaxPodChanges` bound the environment only.
  Two crashes reach a second crash during recovery from the first; a second fault can
  hit the retry of the first.
* `MaxClusters` = 4 and `MaxIds` = 12 are never reached: each bootstrap and each
  MemberAdd takes the least value nobody remembers.
* `QueueCap` and `TriggerCap` are ten in the code and one in the runs, so that channels
  are full, messages are dropped and senders block within a few changes. The channels
  that their own reader sends to (`CmTriggerCap`, `SvcTriggerCap`) stay at ten, because
  a smaller one would deadlock where the code needs ten waiting triggers to.
* In `controllers` one mishap at any moment covers each failed or lost call of Start and
  of the worker and the process that takes up what it left, because the end of a failed
  Start is not counted. The properties also hold with two (a run too long to keep). Four
  CAs are more than a behaviour generates. `Tries` is three as in the code, and three
  events let the third conflict happen. `NodeTriggerCap` is one, so triggers are dropped.
  The Secret, the pods' and the replica part are independent, except that pods mount
  the Secret; the worker, which writes no CA, stands still in the *pods* part.
* `formation` and `rolling_restart` probe each endpoint at a moment of its own (`OneByOne`).
  In `faults` pod-0, on whose decision its properties depend, does so too, while the others
  probe all endpoints at one instant (`EitherWay` with the constraint `OthersAtOnce`); `split`, where probes
  may be wrong anyway, and the runs of section 6 do so for every pod (`Snapshot`). The checker looks at one endpoint after the
  other in `split` (`CheckSets` is `OneByOne`), the only run about its verdict.
* `faults` and `split` follow a behaviour to the moment at which a restarted etcd
  is about to found a cluster bare, and no further (the constraint `NoBareBoot`): what it then
  does is what `bare_restart` shows, and `OneServing` and `VerifyMeansWhole` do not hold after
  it. `BootstrapWatched` is checked in that state too. `faults` counts all mishaps together
  (`MaxMishaps` is two); three, with five kinds, are out of reach. Three would also break
  `KeepsVotersData`: a pod restarts as a learner, the answer of its promotion is lost, and
  the removal that then precedes the deletion of its data fails (section 6).
* Symmetry over the pods other than pod-0 is used only in runs without liveness.

Fairness is weak, for each process that the code or Kubernetes keeps running: the loop
of each etcdcluster, its etcd, the kubelet's restart; in ecsnode each goroutine, each
worker, each retry timer, the delivery of watch events, and (for the Service) the
informer's periodic resync. No fault, crash, edit or change is fair. `Resync` only
happens when no trigger is waiting, as it comes hours later. In `promote` no fairness
is needed beyond the loop's: its hundred tries take longer than etcd takes to boot.

In `controllers` Start (which includes the restart after it has failed), the worker, the
informers, syncReplicas and a pod's start are weakly fair. One fairness is strong: the
event of a client Secret is delivered, at last, while the worker is idle. The worker's
own Delete queues its key again, and a Reconcile that reads the cache before the event
of its Create arrives deletes what it has just created; weak fairness would let it win
that race for ever, where the code needs an event to be faster than a round of three
calls only once.

Each property of a passing run is violated when one mapped definition is replaced by
a plausible mistake (`mutants` in `PROJECT.json`; the mutated forms stand next to
their definitions).

## 4. Properties

* **OneServing** relates two clusters: at most one has a quorum. It takes pod-0's
  decision, made from probes of different moments in its run, against what the
  others did since. It holds without wrong probes and bare boots only.
* **RunningHasData** needs an argument about the loop: addMemberAndStart sends a
  SIGTERM and goes on, and the loop may then remove the directory.
* **BootstrapWatched**: the environment variable that makes etcd bootstrap is never
  unset; no etcd that is started to join may see it. Whoever is about to found a
  cluster is a pod-0 that decided so and watches (or has no certificate to watch with),
  or a container that restarted with a directory another etcd had begun; a pod
  without a directory founds nothing.
* **VerifyMeansWhole** takes the checker's verdict, put together from calls of different
  moments, against what the other pods did meanwhile.
* **Recoverable**, **AddKeepsQuorum**, **KeepsVotersData** are what leaving and joining
  again, or adding with a stale count of voters, could break.
* **NoLostUpdate**: a copy that differs from `hostips` is about to be corrected. It
  holds although messages are dropped, because a full channel holds one that is read
  later, and reading it reads the live map.
* **NoLostSync**, **NoLostSignal**: the same for the ConfigMap and the Endpoints, with
  stale caches, conflicts and retries.
* **KeepsLiveHosts**, **KeepsReadyPods**: after a restart nothing that is known too
  early, or not yet, wipes what is in use. Once the hosts are listed, `KeepsLiveHosts` says
  nothing of a host while something is on its way to the copy. `KeepsReadyPods` fails one
  event beyond its run's bounds (section 5).
* **ListsEveryHost**, **ServesReadyPods**, **AllJoin**: it gets there in the end.

* **CopiesHosts**, **CopiesCatchUp**: with all of its channels, triggers and loops over a
  live map, a subscriber's copy only ever takes over what the map has at that moment,
  and an entry that stays different is taken over in the end, although both loops of a
  subscriber read the map key by key while it changes.
* **MemoryIsStored**, **KeepsCA**: Start writes one CA to two namespaces, call by call; a
  failure in between must leave something from which the next process takes up the
  same CA, and no generated one may replace it.
* **ClientsFollow**: Start and the worker create the same Secrets, the worker deletes
  first, reads old copies, and runs before there is a CA.
* **PairMatches**: a container killed between two writes restarts with what is there;
  a key never belongs to another certificate than the one next to it.
* **OneTrust**: relates the disks of all pods, written at different times, to the Secrets.
* **StoredCAReachesPods**: the pods wait for a Secret that ecsnode may be about to generate;
  in the end each is through its initialisation with a certificate, its key and a copy of
  the CA, all complete (`Usable`). A pod that was killed after its key was created and
  before its `ca.pem` was written is exempt by name (`CutShort`): it never gets there.
* **NoLostScale**, **ReplicasFollowNodes**: triggers are dropped, the count is older than the
  StatefulSet that is read, an update is given up after three conflicts. It works
  because the write that made the update conflict is itself an event.

`MemoryIsStored`, `KeepsCA` and `OneTrust` leave out that a CA Secret which is there
cannot be read (`"load"`) or parsed and that somebody else writes one (`"ca"`); `NoLostScale`
leaves out a node whose labels stop matching (`"unlabel"`) and a call that fails
(`"call"`). In these cases the code does not keep them (section 6); the models have the
kinds, the run does not use them.

`ServesReadyPods` says nothing of behaviours in which a host's IPs change
(`pod.go:148-150` does not tell anybody), and allows the addresses of pods that are
gone or leaving (`pod.go:241-259`), because the code keeps them.

## 5. Proofs

The theorems hold for any number of pods, hosts, subscribers, crashes and faults, any
set of fault kinds, and any channel capacity, under the `ASSUME`s of the modules.

`EtcdCluster_proofs`:

* **TypeCorrect**: `Spec => []TypeOK`. `TypesOK` adds that member lists are finite
  (counts are numbers). Its last part, that the ID that is removed or promoted is the
  ID of a member, needs the case analysis of `JoinStep`.
* **NoDataLossUnderEtcd**: `Spec => []RunningHasData`, and **FoundsKnowingly**:
  `Spec => []BootstrapWatched`. Neither is inductive. The invariant `Control` adds, for
  each pod: outside `wait`, `promote` and the checker's places its etcd is off or terminating
  (`Idle`), so a directory is never removed under an etcd that is up or will be; a pod
  with `new` in its environment is pod-0, and unless its checker works no etcd of it can
  boot without data (`NewEnv`, `Watched`); in an environment that nobody set, etcd is
  started on a directory only (`BareHasDir`); a learner with data still has it when it is promoted
  (`PromotesData`). `IInv` is `TypesOK /\ Control`; each action has a step of its own.

  What relates several pods rests on one more invariant, **`Owned`**: within a cluster,
  IDs and URLs are unique, no two clusters share an ID, a pod's data directory and what it
  remembers of a member list are about its own member. (`OInv` is `IInv /\ Owned`.) With
  it, `Effect(p)` sums up what a step of p may do to the member lists, and the
  following proofs are by cases of `Effect` instead of by actions.
* **OneClusterServes**: `Spec /\ FormsOnce /\ []NoBareBoot => []OneServing`. The property
  cannot hold unconditionally (the runs `short_outage` and `bare_restart` violate what
  the documents say). There are two ways to a second cluster, and each hypothesis names one:
  `FormsOnce`, that pod-0 calls InitializeNewCluster only while no cluster exists, and
  `NoBareBoot`, that no etcd without a WAL boots in the environment of a restarted
  container. `Single`: only one cluster has members, and an etcd of pod-0 that is about
  to bootstrap, on an old environment perhaps, bootstraps the first.
* **WholeStopsFoundNothing**: `Spec /\ StopsWhole => []NoBareBoot` discharges the second
  hypothesis: no container ends, by a crash or because its etcd exits, between the
  moment etcd makes its directory and the moment it writes the WAL. It is a matter of
  moments in each boot, and a crash is not needed: an etcd whose `ETCD_INITIAL_CLUSTER` no
  longer fits exits and leaves such a directory behind.
* Two theorems discharge `FormsOnce` from what the environment does.
  **ReliableProbesSuffice**: `Spec /\ []NoBareBoot /\ []Attended(q) => FormsOnce /\
  []OneServing`, without the faults `"probe"`, `"file"` and `"dir"`, where `Attended(q)` is that
  the etcd of q runs whenever pod-0 probes although there is a cluster; `Meets(q)`: pod-0
  has found q's etcd or has yet to probe it. **FounderThatStaysUp**: `Spec /\ []NoBareBoot /\
  StaysUp => FormsOnce /\ []OneServing`, with any probes, if pod-0's container does not crash
  once there is a cluster; `Founded`: pod-0 is a member, its etcd is up, and it waits or
  its checker works, which it cannot leave as long as nobody takes its member for a dead
  one (`NoneDead`, without `"file"`).
* **ContentOnlyWhenWhole**: `Spec /\ []NoBareBoot => VerifyMeansWhole`, for at most three pods
  and without `"file"`, with any number of splits. `LoneFounder`: a cluster with a single
  voter is the one pod-0 founded. `Confirmed`: once the checker has matched an endpoint,
  some other pod has no data of any other cluster, and no member list with which it could
  join one, and that stays so whatever the other calls of the checker find; a second
  cluster that serves would be the third pod alone. A checker that has no certificate
  verifies nothing: the theorem does not speak of it.
* **AddingKeepsQuorum**: `Spec /\ FormsOnce /\ []NoBareBoot => AddKeepsQuorum`, without `"file"`.
  `TwoStay`: who has counted two other voters, several calls ago, calls MemberAdd on a
  cluster that still has two: two voters only serve while both run, and a pod that runs is
  only removed if the file with its IP cannot be read.
* **VotersKeepTheirData**: `Spec /\ FormsOnce /\ []NoBareBoot => KeepsVotersData`, without
  `"lostPromote"`. `Knowing`: who is about to remove its member, or its data, knows it as a learner or is
  no member at all; a lost answer makes a voter of what is remembered as a learner.
* **LosingOneIsRecoverable**: `Spec /\ FormsOnce /\ []NoBareBoot /\ LosesOneAtATime =>
  []Recoverable`, for three or more pods, without `"file"` and `"lostPromote"`.
  `LosesOneAtATime`: a pod with data loses it only while every pod runs as a voter, which
  is how a StatefulSet is rolled. `OneMissing`: the voters whose data is gone are at most one of at least three.
  It needs `TwoStay` (a voter is added only next to two that stay) and `Knowing`.

`EcsNode_proofs` has no theorem of its own to report, but the lemmas for whatever
EcsNode is composed with: each of its steps (`EcsNext`) keeps the types and
`NoLostUpdate`, which is inductive by itself, and maps to a step or a stutter of
`HostSync` (`Simulates`). The interesting step is the end of a
subscriber's first loop: if nothing is left to be read, the copy has all current entries,
so one that still has another entry has more of them (`MoreKeys`, which needs
`Ips` to be finite), and that is when the code starts the second loop.

`ConfigMapSync_proofs`:

* **TypeCorrect**, and **NoUpdateIsLost**: `Spec => []NoLostUpdate`.
* **NoSyncIsLost**: `Spec => []NoLostSync`. The property counts any sync under way and
  any reading as "about to be written"; to be inductive it must be stronger
  (`SyncInv`): reading counts only once the copy has changed, a sync only if what it
  read is fresh (an old read may find nothing to do), a fresh read is still the last
  version, a cache that is not old has the ConfigMap, and the goroutine that syncs does
  not read messages meanwhile.
* **CopiesAreHosts**: `Spec => CopiesHosts`, the refinement of `HostSync`, without its
  fairness. ReadHost adopts one entry, and PruneHost one that the map no longer has,
  which needs the types and nothing else (`AdoptedOne`); a crash is `Reset`.
* **LiveHostsAreKept**: `Spec /\ []HostsDiffer => KeepsLiveHosts`. `HostsDiffer`: no ECSNode
  that stays has the master IP of one that is being deleted; the code tells hosts apart by
  it, and deletes an entry that another ECSNode shares. `AtRest`: before onceInit nothing
  is queued, copied or written; `HostsKnown`: after it, `hostips` has an entry for each host
  whose ECSNode is not in the workqueue. With `NoLostUpdate` the copy has it too, or the
  property exempts it.

`PodService_proofs`:

* **TypeCorrect**, and **NoSignalIsLost**: `Spec => []NoLostSignal`, with `ListIsLast`:
  a sync under way has the last list or is followed by another one. Without it the end
  of a sync could install an old list.
* **NoUpdateIsLost** and **CopiesAreHosts**: the Pod controller as a subscriber, from the
  lemmas of `EcsNode_proofs`: this composition implements `HostSync` too.
* **ReadyPodsAreKept**: `Spec /\ []HostsApart /\ [][HostsStay]_vars => KeepsReadyPods`. `HostsApart`:
  ECSNodes have different master IPs; `HostsStay`: none is created or changed after the
  process has listed them (they may be deleted). Without it the property fails after two
  changes of a host and a restart, one event more than the run allows: a host loses an
  address, a new process lists its pod without it, the address comes back while that
  list is being written, and nobody is told (`pod.go:148-150`). `ReadyInv` goes along the way of an address:
  nothing is known before onceInit (`NothingKnown`); then an entry of `hostips` only
  loses addresses (`Settled`, `EntriesShrink`); a copy that is used has all entries but
  those that are being read (`Covered`); `podInfo` has every pod that stays and is
  not queued as it is (`PodsKnown`); and with `ListIsLast` that is what is written.

`SecretSync_proofs` (for any namespaces, mishaps and CAs):

* **TypeCorrect**: `SecretSpec => []SecretTypeOK`; in particular `mem` is a CA wherever
  Start writes, copies or issues.
* **StoresWhatItUses**: `SecretSpec => []MemoryIsStored`, and **StoredCaSurvives**:
  `SecretSpec => KeepsCA`, assuming `Undisturbed`: no `"load"`, no `"ca"`, and every CA
  Secret with both keys parses. The inductive invariant `StoreInv` says where the CA in
  memory is at each place of Start: a CA is generated and created while
  neither namespace has one, and what is copied into one namespace is in the Secret of
  the other. An action property needs it before the step, and one lemma
  per case: no CA yet (`CaFirst`), a CA written (`CaWritten`) or kept (`CaKept`).

`CertFiles_proofs`: **FilesTypeCorrect** and **PairsAlwaysMatch** for any number of pods and
kills. `PairMatches` is not inductive; `FilesInv` adds, per pod, what is in memory and
what is on the disk at each place between two writes (`Loaded`, `Matching`).

`Certificates_proofs`: **PodsTrustOneCa**: `CertificatesSpec => []OneTrust`, of ecsnode and
any number of pods, assuming `AgreedAtFirst` (CA Secrets that are both there at first are
the same) and `Undisturbed`, so no failed read, which is all it takes to break the claim
(section 6, `secret.go:168`), no Secret that does not parse, and nobody else who writes one. `TrustInv` joins `StoreInv` and `FilesInv` with: what
is mounted, held or on a disk is the stored CA. It uses `KeepsCA`'s lemmas for ecsnode's
steps and only the files' types for the pods'.

`Replicas_proofs`: **TypeCorrect**, and **NoScaleIsLost**: `ReplicasSpec => []NoLostScale`
for any number of nodes, tries and capacity, assuming `Answered`: neither `"call"` nor
`"unlabel"`. The inductive invariant `Looked` also says that a sync which has read a
StatefulSet that is no longer the last version has an event of it to come.

The hypotheses about behaviours (`FormsOnce`, `StopsWhole`, `Attended`, `StaysUp`,
`LosesOneAtATime`, `HostsDiffer`, `HostsApart`, `HostsStay`; `NoBareBoot` in `EtcdCluster`) are defined next to the theorems. They say in the model's terms what
the instances say with `Faults`, bounds and reliable probes; what goes wrong without them is
in section 6 and in the comments of the theorems.

Only model-checked: `CopiesCatchUp` and the other liveness properties (`AllJoin`,
`ListsEveryHost`, `ServesReadyPods`, `ClientsFollow`, `StoredCAReachesPods`,
`ReplicasFollowNodes`), which are out of the prover's reach.

## 6. Where the code and its documents disagree

* `short_outage`: one failed probe while pod-0 restarts, and it starts a second cluster
  that serves; the proposal says it waits and joins.
* `after_split`: pod-0 notices the split, ends its etcd and returns to the loop with the
  split cluster's data. Its old member is still listed under its name, so it "is" a
  member with data and starts the split cluster again, now unwatched.
* `promotion_fails`: a promotion fails a hundred times; the next iteration promotes the
  learner while its etcd is terminating. Two voters, one of them gone: no quorum, and
  both pods wait for an endpoint that is not ready. Nothing etcdcluster does ends this;
  the liveness probe of the StatefulSet, which the model leaves out, restarts the containers.
* `unreadable_file`: one failed read of an IP file costs a voting member whose etcd runs
  its membership.
* `bare_restart`: a joiner's container crashes after etcd has made `member/` and before
  the WAL is there. The pod is still listed as a voter and `member/` counts as data
  (`manager.go:207-209`), so etcd is started at once (238), in an environment in which
  nobody has set `ETCD_INITIAL_CLUSTER_STATE`, and founds a cluster of its own. That
  one serves, has no checker, and no probe has gone wrong. A crash is not even needed: an
  etcd that was told to join with a member list which has changed since (or with
  a wrong `ETCD_INITIAL_CLUSTER`) exits, the container ends with it, and the next one boots
  bare.

Seen while modelling, without a run: a learner with data is promoted before its etcd
starts, and may never come up (`manager.go:228`); a promotion whose answer is lost, followed
by a removal that fails, makes a pod remove the data of what is a voter by then
(`manager.go:228-236`), which is what `VotersKeepTheirData` has to exclude and `faults` does
not reach, as it takes a crash before; and one crash with one such promotion leaves a
cluster of which no majority has data. And:

* `manager.go:459`: a checker that cannot load its certificate returns and closes its channel;
  `main.go:508` receives the zero value and logs that the check was successful, though
  `manager.go:446` says that it only exits on a split, a verification or a stop signal. Pod-0
  goes on unwatched.
* `discovery.go:77`: an empty nodeIPDir counts as nothing that answers, and pod-0 founds a
  cluster next to one that serves; `main.go:394` takes the files to be always there.
* `ecnode.go:163`: an ECSNode without a finalizer is gone when it is reconciled; NotFound is
  ignored, and `hostips` and the ConfigMap keep its entry, although `configmap.go:113` says
  "remove not exist host" of the copy.

* `secret.go:168`: a read of the CA Secret that fails is taken for a CA that is not there.
  With one namespace, one failed read at the start is enough: EnsureCASecret finds a
  Secret, does not compare, and the process goes on with a CA that is stored nowhere and
  recreates every client Secret with it, where `ecsnode.md:226` says that a CA is
  generated if there is none. With two namespaces, two failed reads (or one, while the
  own one has no copy) overwrite the other namespace's CA. A CA that does not parse as
  the code expects has the effect of a failed read at every start; so has a late Create
  of a former leader.
* `secret.go:206`: a CA Secret in ecsnode's namespace that lacks one of its keys fails
  Start for ever; a Secret with the CA of the values file is created
  immutable by the chart (`charts/etcdauto/templates/tls-secret.yaml:10`), so an Update that
  would repair it is refused.
* `secret.go:228-284`: a client Secret with a wrong or missing private key counts as valid.
  A Reconcile that runs before the CA is loaded deletes a broken client Secret and
  then panics; it is created again only after the CA is there. Each recreation queues
  its key twice more.
* `cert.go:43`: if the CA Secrets disagree at first, a pod that mounted the old one keeps
  its certificate after ecsnode has overwritten the Secret. A container killed after
  os.Create leaves an empty key, or an empty `ca.pem`, which counts as there at every
  later start; one killed between the key and the copy never gets a `ca.pem`, because
  both are made in one branch. `CutShort` names these pods.
* `main.go:277`: the addresses are read again at each start of the container, but the
  certificate is not made again when they change.
* `node.go:99`: a node whose labels stop matching triggers nothing, so the replicas stay.
  `node.go:189-250`: a call of syncReplicas that fails, other than by a conflict, is not
  tried again before the next event.

## 7. Not modelled, and why

* `pkg/init/env.go`, `network.go`, `scripts.go`: the formatting of environment variables
  and scripts and the choice of interfaces. They are one step of `CertFiles`; what the
  loop changes of the environment is in `EtcdCluster`.
* `pkg/cert/ca.go`, `member.go`: cryptography, and the contents of certificates (names,
  addresses, dates). The rotation functions at the end of `pkg/cert/secret.go` are never
  called, so expiry changes nothing the models tell apart.
* A restart of the whole cluster, and etcd's derivation of IDs from the fixed cluster
  token: `EtcdCluster` gives each bootstrap IDs of its own (see the assumptions in section 2).
* Probes by the kubelet: the liveness probe would end containers in which etcd never gets
  ready. OrderedReady pod management: pods start in any order.
* The deadlock of a goroutine that sends to the channel it reads (ten waiting triggers),
  and the panic of a send to a channel closed at the end of the process.
* Charts, examples, generated API code.

## 8. Plan

1. Done: `EtcdCluster`, `EcsNode`, `ConfigMapSync`, `PodService`, `SecretSync`, `CertFiles`,
   `Certificates`, `Replicas`, their runs; `HostSync` and its refinement; types and the
   safety invariants listed in section 5.
2. Done: proofs of `OneServing`, `VerifyMeansWhole`, `AddKeepsQuorum`, `KeepsVotersData`,
   `Recoverable` under named hypotheses, of `KeepsLiveHosts` and `KeepsReadyPods`, and of
   `HostSync` for `PodService`.
3. An abstract membership (voters, learners, their data) which `EtcdCluster` implements
   under `FormsOnce`, on top of `Owned` and `Effect`.
4. Weaker hypotheses: `KeepsVotersData` with lost promotions but removals that succeed.
5. IDs as etcd derives them from the fixed token, if its derivation is ever taken into the
   model: the checker then compares IDs that repeat (section 2).
