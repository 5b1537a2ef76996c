----------------------------- MODULE EtcdCluster -----------------------------
(***************************************************************************)
(* The etcdcluster process of every pod of the StatefulSet: the loop that  *)
(* probes the other pods' etcd, decides to join a cluster or to initialise *)
(* one, drives etcd's membership API, and starts, watches and stops the    *)
(* pod's etcd process (cmd/etcdcluster/main.go, pkg/cluster/manager.go,    *)
(* pkg/cluster/discovery.go).  etcd itself is external: it is modelled by  *)
(* the answers this code gets from it and by when it serves.               *)
(*                                                                         *)
(* A pod stays on one host (hostNetwork, one etcd pod per master node), so *)
(* a pod also stands for its IP file in nodeIPDir and for its peer URLs.   *)
(***************************************************************************)
EXTENDS Naturals, FiniteSets

CONSTANTS
  Pods,         \* the StatefulSet's pods; nodeIPDir has one IP file for each
  Pod0,         \* the pod with index 0, the only one that may initialise
  None,         \* no member, no name, no data directory
  Partial,      \* a data directory that etcd created and never wrote a WAL to
  PrefixOf,     \* pairs of pods: the first one's IP is a substring of the second one's
  ProbeSets,    \* the sets of endpoints that DiscoverEndpoints may probe at one instant
  CheckSets,    \* the same for the brain split checker
  Faults,       \* which of FaultKinds may happen
  MaxCrashes,   \* bound: containers that crash, pods that are deleted
  MaxFaults,    \* bound: other faults
  MaxMishaps,   \* bound: all of these together
  MaxClusters,  \* bound: clusters that pods hold data of at one time
  MaxIds        \* bound: member IDs in use at one time

FaultKinds ==
  {"crash",        \* a container crashes and restarts with its data directory
   "lose",         \* a pod is deleted, and its emptyDir with it
   "probe",        \* a live endpoint looks unreachable, or not ready
   "file",         \* reading a pod's IP file fails
   "dir",          \* nodeIPDir is empty: ecsnode has not written the ConfigMap yet
   "tls",          \* the brain split checker cannot load its certificate
   "rpc",          \* a call of the membership API fails
   "lostAdd", "lostRemove", "lostPromote"} \* ... or is applied and its answer lost

ASSUME Pod0Assumption   == Pod0 \in Pods
ASSUME NoneAssumption   == None \notin Pods \cup Nat
ASSUME PrefixAssumption == PrefixOf \subseteq Pods \X Pods
ASSUME FaultsAssumption == Faults \subseteq FaultKinds
ASSUME ProbeAssumption  == ProbeSets \subseteq SUBSET Pods /\ CheckSets \subseteq SUBSET Pods
ASSUME BoundAssumption  ==
  MaxCrashes \in Nat /\ MaxFaults \in Nat /\ MaxMishaps \in Nat /\ MaxClusters \in Nat /\ MaxIds \in Nat

VARIABLES
  pc,        \* where each pod's etcdcluster is (States below)
  todo,      \* endpoints DiscoverEndpoints has not probed yet
  ready,     \* EndpointInfo.ReadyNodes, then the endpoints of the client
  notReady,  \* EndpointInfo.NotReadyNodes
  dead,      \* EndpointInfo.DeadNames
  view,      \* what processMembers computed from the member list
  env,       \* ETCD_INITIAL_CLUSTER_STATE and ETCD_INITIAL_CLUSTER
  etcd,      \* the pod's etcd process
  dir,       \* the pod's <data-dir>/member directory
  members,   \* each cluster's member list
  crashes,   \* number of crashes so far
  faults     \* number of other faults so far

loopVars    == <<pc, todo, ready, notReady, dead, view, env>>
vars        == <<loopVars, etcd, dir, members, crashes, faults>>

States == {"discover", "remove", "removeSelf", "add", "promote", "promoteFirst",
           "cleanUp", "wait", "check", "collect", "compare", "match", "split", "down"}

\* waitExitWithBrainSplitCheck: the checker waits for its ticker, collects the healthy
\* endpoints, compares (without a match so far), or compares after a match.
Watching  == {"check", "collect", "compare", "match"}
Clusters  == 1..MaxClusters
Ids       == 1..MaxIds
Member    == [id : Ids, url : Pods, name : Pods \cup {None}, learner : BOOLEAN]
Identity  == [cluster : Clusters, id : Ids]
ASSUME DirAssumption == None \notin Identity /\ Partial \notin Identity \cup {None}
NoView    == [id |-> None, learner |-> FALSE, votes |-> 0, doomed |-> {}]
NoEnv     == [state |-> "unset", peers |-> {}]

Fault(kind) ==
  kind \in Faults /\ faults < MaxFaults /\ crashes + faults < MaxMishaps /\ faults' = faults + 1

-----------------------------------------------------------------------------
(* etcd, as this code sees it *)

\* Member IDs and clusters are never reused: a new one is one that no member
\* list, directory or process remembers (the least, to keep the instance small).
UsedIds ==
  (UNION {{m.id : m \in members[c]} : c \in Clusters})
  \cup {dir[p].id : p \in {q \in Pods : dir[q] \in Identity}}
  \cup {view[p].id : p \in Pods} \cup (UNION {view[p].doomed \cup env[p].peers : p \in Pods})

IsNewId(i) == i \in Ids \ UsedIds /\ \A j \in Ids \ UsedIds : i <= j

KnownClusters == {dir[p].cluster : p \in {q \in Pods : dir[q] \in Identity}}

IsNewCluster(c) ==
  c \in Clusters \ KnownClusters /\ \A d \in Clusters \ KnownClusters : c <= d

\* m's etcd process runs on m's own data.
IsUp(c, m) == etcd[m.url] = "up" /\ dir[m.url] = [cluster |-> c, id |-> m.id]

Voters(c)   == {m \in members[c] : ~m.learner}
UpVoters(c) == {m \in Voters(c) : IsUp(c, m)}
Started(ms) == {m \in ms : m.name # None}

\* Cluster c has a quorum, so a leader: it answers Get and the membership API.
Serving(c) == 2 * Cardinality(UpVoters(c)) > Cardinality(Voters(c))

\* The clusters a call through p's client may reach: the client balances over
\* the endpoints found ready, which may by now belong to different clusters.
Reachable(p) == {c \in Clusters : /\ Serving(c)
                                  /\ \E m \in members[c] : m.url \in ready[p] /\ IsUp(c, m)}

\* What checkSingleEndpoint may find at q: a process that starts or ends may or
\* may not have its port open.
Health(q) ==
  CASE etcd[q] = "off" -> {"unreachable"}
    [] etcd[q] \in {"boot", "term"} -> {"unreachable", "notReady"}
    [] etcd[q] = "up" ->
         IF /\ Serving(dir[q].cluster)
            /\ \E m \in Voters(dir[q].cluster) : m.url = q /\ m.id = dir[q].id
         THEN {"ready"} ELSE {"notReady"}

\* What a fault on the way makes of a running etcd.
ProbeFault(q) == IF etcd[q] = "up" THEN {"unreachable", "notReady"} ELSE {}

\* etcd adds a member only if its peer URLs are new, there is no other learner
\* when it adds one, and every voting member is connected.
AddOk(c, p, asLearner) ==
  /\ \A m \in members[c] : m.url # p
  /\ asLearner => \A m \in members[c] : ~m.learner
  /\ UpVoters(c) = Voters(c)

\* etcd's strict reconfiguration check on removing m.
RemoveOk(c, m) ==
  LET rest == Voters(c) \ {m}
      up   == UpVoters(c) \ {m}
  IN  \/ m.learner
      \/ /\ 2 * Cardinality(Started(rest)) > Cardinality(rest)
         /\ IsUp(c, m) => 2 * Cardinality(up) > Cardinality(rest)

\* A learner can be promoted when it has caught up with the leader's log, which
\* takes a data directory of its own, and most voters have started.
PromoteOk(c, m) ==
  /\ m.learner
  /\ dir[m.url] = [cluster |-> c, id |-> m.id]
  /\ 2 * (Cardinality(Started(Voters(c))) + 1) > Cardinality(Voters(c)) + 1

Removed(c, m)  == [members EXCEPT ![c] = @ \ {m}]
Promoted(c, m) == [members EXCEPT ![c] = (@ \ {m}) \cup {[m EXCEPT !.learner = FALSE]}]

-----------------------------------------------------------------------------
(* runClusterLoop *)

\* Back to the top of the for loop.
Loop(p) ==
  /\ pc' = [pc EXCEPT ![p] = "discover"]
  /\ todo' = [todo EXCEPT ![p] = Pods]
  /\ ready' = [ready EXCEPT ![p] = {}]
  /\ notReady' = [notReady EXCEPT ![p] = {}]
  /\ dead' = [dead EXCEPT ![p] = {}]
  /\ view' = [view EXCEPT ![p] = NoView]

\* The rest of JoinExistingCluster goes on at l.
Goto(p, l) == pc' = [pc EXCEPT ![p] = l]

\* JoinExistingCluster is done with its client and the member list.
WaitExit(p) ==
  /\ Goto(p, "wait")
  /\ ready' = [ready EXCEPT ![p] = {}]
  /\ view' = [view EXCEPT ![p] = NoView]

StartEtcd(p) ==
  \* A process that is still terminating holds the ports: the new one exits.
  etcd' = [etcd EXCEPT ![p] = IF @ = "off" THEN "boot" ELSE @]

\* Mutated form of TerminateEtcd: the signal is forgotten.
NoSignal(p) == UNCHANGED etcd

\* The pod's etcd, if it still runs, gets a SIGTERM.
TerminateEtcd(p) == etcd' = [etcd EXCEPT ![p] = IF @ = "off" THEN @ ELSE "term"]

\* DiscoverEndpoints: the goroutines of the endpoints in Q finish.
Probe(p, Q) ==
  /\ pc[p] = "discover"
  /\ Q # {} /\ Q \subseteq todo[p]
  /\ todo' = [todo EXCEPT ![p] = @ \ Q]
  /\ \E r \in [Q -> {"ready", "notReady", "unreachable", "dead"}] :
       /\ \/ (\A q \in Q : r[q] \in Health(q)) /\ UNCHANGED faults
          \/ Fault("probe") /\ \A q \in Q : r[q] \in Health(q) \cup ProbeFault(q)
          \/ Fault("file") /\ \A q \in Q : r[q] \in Health(q) \cup {"dead"}
       /\ ready' = [ready EXCEPT ![p] = @ \cup {q \in Q : r[q] = "ready"}]
       /\ notReady' = [notReady EXCEPT ![p] = @ \cup {q \in Q : r[q] = "notReady"}]
       /\ dead' = [dead EXCEPT ![p] = @ \cup {q \in Q : r[q] = "dead"}]
  /\ UNCHANGED <<pc, view, env, etcd, dir, members, crashes>>

\* DiscoverEndpoints: an empty nodeIPDir gives no endpoints at all.
NoIPFiles(p) ==
  /\ pc[p] = "discover" /\ todo[p] = Pods
  /\ Fault("dir")
  /\ todo' = [todo EXCEPT ![p] = {}]
  /\ UNCHANGED <<pc, ready, notReady, dead, view, env, etcd, dir, members, crashes>>

Discovered(p) == pc[p] = "discover" /\ todo[p] = {}

\* Some endpoint runs an etcd that is not ready: probe again at once.
RetryNotReady(p) ==
  /\ Discovered(p) /\ ready[p] = {} /\ notReady[p] # {}
  /\ Loop(p)
  /\ UNCHANGED <<env, etcd, dir, members, crashes, faults>>

\* Mutated form of NothingAnswers: endpoints that are not ready do not count.
NoneReady(p) == Discovered(p) /\ ready[p] = {}

NothingAnswers(p) == Discovered(p) /\ ready[p] = {} /\ notReady[p] = {}

\* Nothing answers: every pod but pod-0 sleeps and probes again.
WaitForPod0(p) ==
  /\ NothingAnswers(p) /\ p # Pod0
  /\ Loop(p)
  /\ UNCHANGED <<env, etcd, dir, members, crashes, faults>>

\* Nothing answers: pod-0 wipes its data and starts a cluster of its own, then
\* waits in waitExitWithBrainSplitCheck.  A checker that cannot load its TLS files
\* closes resultCh, and what is read from it counts as verified.
InitializeNewCluster(p) ==
  /\ NothingAnswers(p) /\ p = Pod0
  /\ env' = [env EXCEPT ![p] = [state |-> "new", peers |-> {}]]
  /\ dir' = [dir EXCEPT ![p] = None]
  /\ StartEtcd(p)
  /\ \/ Goto(p, "check") /\ UNCHANGED faults
     \/ Goto(p, "wait") /\ Fault("tls")
  /\ dead' = [dead EXCEPT ![p] = {}]
  /\ UNCHANGED <<todo, ready, notReady, view, members, crashes>>

-----------------------------------------------------------------------------
(* JoinExistingCluster *)

\* A call of the membership API that the clusters in refusing refuse fails:
\* nothing to reach, a refusal by the cluster it reaches, or a fault.
CallFails(p, refusing) ==
  /\ UNCHANGED members
  /\ \/ (Reachable(p) = {} \/ Reachable(p) \cap refusing # {}) /\ UNCHANGED faults
     \/ Fault("rpc")

\* processMembers' test for a member of a dead master: the dead IP is a
\* substring of a peer URL.
OfDeadMaster(p, m) == \E d \in dead[p] : d = m.url \/ <<d, m.url>> \in PrefixOf

\* Mutated form of Mine: members are recognised by Name only.
MineByName(p, c) == {m \in members[c] : m.name = p}

\* This pod's entries in c's member list: by Name, or by peer URLs, because a
\* member whose etcd never started has no Name.
Mine(p, c) == {m \in members[c] : m.name = p \/ m.url = p}

Doomed(p, c) == {m \in members[c] \ Mine(p, c) : OfDeadMaster(p, m)}

\* Mutated form of VotingNum: learners count.
AllNum(p, c) == Cardinality(members[c] \ (Mine(p, c) \cup Doomed(p, c)))

\* votingNumExceptMe.
VotingNum(p, c) == Cardinality(Voters(c) \ (Mine(p, c) \cup Doomed(p, c)))

\* What processMembers finds in c (if several members match, the last one is me).
ProcessMembers(p, c) ==
  LET found(id, learner) ==
        [id |-> id, learner |-> learner, votes |-> VotingNum(p, c),
         doomed |-> {m.id : m \in Doomed(p, c)}]
  IN  IF Mine(p, c) = {} THEN {found(None, FALSE)}
                         ELSE {found(m.id, m.learner) : m \in Mine(p, c)}

\* Mutated forms of JoinStep: a member starts whether or not it has data, or the
\* test for an ID is dropped.
AnyData(p, v) ==
  CASE v.id = None -> "add"
    [] v.id # None -> IF v.learner THEN "promoteFirst" ELSE "wait"
AnyId(p, v) ==
  CASE dir[p] = None -> "removeSelf"
    [] dir[p] # None -> IF v.learner THEN "promoteFirst" ELSE "wait"

\* What handleMemberJoin does once v is known: a member with data starts, after
\* its promotion if it is a learner; one without leaves to join again.
JoinStep(p, v) ==
  CASE v.id = None                    -> "add"
    [] v.id # None /\ dir[p] = None   -> "removeSelf"
    [] v.id # None /\ dir[p] # None   -> IF v.learner THEN "promoteFirst" ELSE "wait"

\* Mutated form of KeptData: members drop their data too.
CleanData(p, v) == None

\* A stranger to the cluster drops the data it has.
KeptData(p, v) == IF v.id = None THEN None ELSE dir[p]

HandleMemberJoin(p, v) ==
  /\ IF JoinStep(p, v) = "wait"
     THEN WaitExit(p) /\ StartEtcd(p)
     ELSE /\ Goto(p, JoinStep(p, v))
          /\ view' = [view EXCEPT ![p] = v]
          /\ UNCHANGED <<ready, etcd>>
  /\ dir' = [dir EXCEPT ![p] = KeptData(p, v)]

MemberList(p) ==
  /\ Discovered(p) /\ ready[p] # {}
  /\ \E c \in Reachable(p) : \E v \in ProcessMembers(p, c) :
       IF v.doomed # {}
       THEN Goto(p, "remove") /\ view' = [view EXCEPT ![p] = v] /\ UNCHANGED <<ready, etcd, dir>>
       ELSE HandleMemberJoin(p, v)
  /\ notReady' = [notReady EXCEPT ![p] = {}]
  /\ dead' = [dead EXCEPT ![p] = {}]
  /\ UNCHANGED <<todo, env, members, crashes, faults>>

MemberListFails(p) ==
  /\ Discovered(p) /\ ready[p] # {}
  /\ CallFails(p, {})
  /\ Loop(p)
  /\ UNCHANGED <<env, etcd, dir, crashes>>

\* MemberRemove of the member with this id, applied or not.
MemberRemove(p, id) ==
  \E c \in Reachable(p) : \E m \in members[c] :
    m.id = id /\ RemoveOk(c, m) /\ members' = Removed(c, m)

RemoveRefused(id) == {c \in Clusters : \A m \in members[c] : m.id = id => ~RemoveOk(c, m)}

\* removeDeadMember, whose error is only logged, for each dead member in turn;
\* the last one is followed by handleMemberJoin.
RemoveDeadMember(p, id) ==
  LET v == [view[p] EXCEPT !.doomed = @ \ {id}]
  IN  /\ pc[p] = "remove"
      /\ id \in view[p].doomed
      /\ \/ MemberRemove(p, id) /\ UNCHANGED faults
         \/ CallFails(p, RemoveRefused(id))
      /\ IF v.doomed # {}
         THEN view' = [view EXCEPT ![p] = v] /\ UNCHANGED <<pc, ready, etcd, dir>>
         ELSE HandleMemberJoin(p, v)
      /\ UNCHANGED <<todo, notReady, dead, env, crashes>>

\* handleExistingMemberWithoutData: leave the cluster to join it as a new member.
RemoveSelf(p) ==
  /\ pc[p] = "removeSelf"
  /\ MemberRemove(p, view[p].id)
  /\ Goto(p, "add")
  /\ UNCHANGED <<todo, ready, notReady, dead, view, env, etcd, dir, crashes, faults>>

RemoveSelfFails(p) ==
  /\ pc[p] = "removeSelf"
  /\ \/ CallFails(p, RemoveRefused(view[p].id))
     \/ Fault("lostRemove") /\ MemberRemove(p, view[p].id)
  /\ Loop(p)
  /\ UNCHANGED <<env, etcd, dir, crashes>>

\* Mutated form of AsLearner: every member is added as a voting member.
NeverLearner(p) == view[p].votes = 0

\* addMemberAndStart adds a learner to a cluster of one voting member.
AsLearner(p) == view[p].votes = 1

AddedMember(p, i) == [id |-> i, url |-> p, name |-> None, learner |-> AsLearner(p)]

\* MemberAddAsLearner or MemberAdd, applied by c, which gives the member ID i.
MemberAdd(p, c, i) ==
  /\ view[p].votes >= 1
  /\ AddOk(c, p, AsLearner(p))
  /\ IsNewId(i)
  /\ members' = [members EXCEPT ![c] = @ \cup {AddedMember(p, i)}]

\* Mutated form of BuildClusterConfig: ETCD_INITIAL_CLUSTER_STATE is set only
\* when the environment does not have it.
KeepState(p, ms) ==
  [state |-> IF env[p].state = "unset" THEN "existing" ELSE env[p].state,
   peers |-> {m.id : m \in ms}]

\* buildClusterConfig over the members of the answer: a member without a name
\* gets this pod's, so a second one makes ETCD_INITIAL_CLUSTER wrong.
BuildClusterConfig(p, ms) ==
  [state |-> IF \E m \in ms : m.name = None /\ m.url # p THEN "conflict" ELSE "existing",
   peers |-> {m.id : m \in ms}]

\* addMemberAndStart up to startEtcd.
AddMemberAndStart(p) ==
  /\ pc[p] = "add"
  /\ \E c \in Reachable(p), i \in Ids :
       /\ MemberAdd(p, c, i)
       /\ env' = [env EXCEPT ![p] = BuildClusterConfig(p, members'[c])]
       /\ IF AsLearner(p)
          THEN /\ Goto(p, "promote")
               /\ view' = [view EXCEPT ![p].id = i]
               /\ UNCHANGED ready
          ELSE WaitExit(p)
  /\ StartEtcd(p)
  /\ UNCHANGED <<todo, notReady, dead, dir, crashes, faults>>

\* No voting member to join, a refusal, or a 3s timeout that may hide a success.
AddMemberFails(p) ==
  /\ pc[p] = "add"
  /\ \/ view[p].votes = 0 /\ UNCHANGED <<members, faults>>
     \/ view[p].votes # 0 /\ CallFails(p, {c \in Clusters : ~AddOk(c, p, AsLearner(p))})
     \/ Fault("lostAdd") /\ \E c \in Reachable(p), i \in Ids : MemberAdd(p, c, i)
  /\ Loop(p)
  /\ UNCHANGED <<env, etcd, dir, crashes>>

MemberPromote(p) ==
  \E c \in Reachable(p) : \E m \in members[c] :
    m.id = view[p].id /\ PromoteOk(c, m) /\ members' = Promoted(c, m)

\* promoteLearner gives up after 100 tries (20s, longer than etcd takes to boot):
\* nobody promotes this ID, or (a fault) nobody does for all of the tries.
PromoteGivesUp(p) ==
  /\ etcd[p] # "boot"
  /\ CallFails(p, {c \in Clusters : \A m \in members[c] : m.id = view[p].id => ~PromoteOk(c, m)})

\* A fault: a try is applied but its answer is lost, and the next tries fail.
PromoteLosesAnswer(p) ==
  /\ pc[p] \in {"promote", "promoteFirst"} /\ Fault("lostPromote")
  /\ MemberPromote(p)
  /\ UNCHANGED <<loopVars, etcd, dir, crashes>>

\* The learner that addMemberAndStart started becomes a voting member.
PromoteStarted(p) ==
  /\ pc[p] = "promote"
  /\ MemberPromote(p)
  /\ WaitExit(p)
  /\ UNCHANGED <<todo, notReady, dead, env, etcd, dir, crashes, faults>>

\* Or its etcd gets a SIGTERM, and the loop goes on without waiting for it.
PromoteStartedFails(p) ==
  /\ pc[p] = "promote"
  /\ PromoteGivesUp(p)
  /\ TerminateEtcd(p)
  /\ Loop(p)
  /\ UNCHANGED <<env, dir, crashes>>

\* handleExistingMemberWithData promotes a learner before it starts its etcd.
PromoteExisting(p) ==
  /\ pc[p] = "promoteFirst"
  /\ MemberPromote(p)
  /\ StartEtcd(p)
  /\ WaitExit(p)
  /\ UNCHANGED <<todo, notReady, dead, env, dir, crashes, faults>>

\* Or removes the learner (an error is only logged) ...
PromoteExistingFails(p) ==
  /\ pc[p] = "promoteFirst"
  /\ PromoteGivesUp(p)
  /\ Goto(p, "cleanUp")
  /\ UNCHANGED <<todo, ready, notReady, dead, view, env, etcd, dir, crashes>>

\* ... and then its local data.
CleanUp(p) ==
  /\ pc[p] = "cleanUp"
  /\ \/ MemberRemove(p, view[p].id) /\ UNCHANGED faults
     \/ CallFails(p, RemoveRefused(view[p].id))
  /\ dir' = [dir EXCEPT ![p] = None]
  /\ Loop(p)
  /\ UNCHANGED <<env, etcd, crashes>>

-----------------------------------------------------------------------------
(* Waiting for etcd to exit, and the brain split checker *)

\* getLocalClusterInfo answers: the local etcd serves and knows its own Name.
LocalReady(p) ==
  /\ etcd[p] = "up"
  /\ Serving(dir[p].cluster)
  /\ \E m \in members[dir[p].cluster] : m.name = p

\* checkBrainSplit starts: it keeps the local cluster ID and member ID.
CheckLocal(p) ==
  /\ pc[p] = "check" /\ LocalReady(p)
  /\ Goto(p, "collect")
  /\ todo' = [todo EXCEPT ![p] = Pods \ {p}]
  /\ UNCHANGED <<ready, notReady, dead, view, env, etcd, dir, members, crashes, faults>>

\* q is healthy, and answers MemberList.
Answers(q) == "ready" \in Health(q)

\* collectOtherEndpoints has looked at the pods in Q (a probe, a file or nodeIPDir itself
\* may hide some of them); after the last of them, verifyWithOtherNodes begins.
CollectOthers(p, Q) ==
  LET healthy == {q \in Q \cap todo[p] : Answers(q)}
  IN  /\ pc[p] = "collect"
      /\ Q \cap todo[p] # {}
      /\ todo' = [todo EXCEPT ![p] = @ \ Q]
      /\ \E found \in SUBSET healthy :
           /\ \/ found = healthy /\ UNCHANGED faults
              \/ \E kind \in {"probe", "file", "dir"} : Fault(kind)
           /\ ready' = [ready EXCEPT ![p] = @ \cup found]
      /\ Goto(p, IF todo[p] \subseteq Q THEN "compare" ELSE "collect")
      /\ UNCHANGED <<notReady, dead, view, env, etcd, dir, members, crashes>>

\* verifyWithOtherNodes rejects q: another cluster, or one without this member.
Mismatch(p, q) ==
  \/ dir[q].cluster # dir[p].cluster
  \/ \A m \in members[dir[q].cluster] : m.id # dir[p].id

\* The next endpoint of verifyWithOtherNodes.
Compares(p, q) == pc[p] \in {"compare", "match"} /\ q \in ready[p]

\* q is of the same cluster, and knows this member: verifiedCount++.
CompareMatches(p, q) ==
  /\ Compares(p, q) /\ Answers(q) /\ ~Mismatch(p, q)
  /\ Goto(p, "match")
  /\ ready' = [ready EXCEPT ![p] = @ \ {q}]
  /\ UNCHANGED <<todo, notReady, dead, view, env, etcd, dir, members, crashes, faults>>

\* q does not answer any more: the next one.
CompareFails(p, q) ==
  /\ Compares(p, q)
  /\ \/ ~Answers(q) /\ UNCHANGED faults
     \/ Fault("rpc")
  /\ ready' = [ready EXCEPT ![p] = @ \ {q}]
  /\ UNCHANGED <<pc, todo, notReady, dead, view, env, etcd, dir, members, crashes>>

\* q contradicts, a split: waitExitWithBrainSplitCheck sends a SIGTERM.
BrainSplitDetected(p, q) ==
  /\ Compares(p, q) /\ Answers(q) /\ Mismatch(p, q)
  /\ TerminateEtcd(p)
  /\ Goto(p, "split")
  /\ ready' = [ready EXCEPT ![p] = {}]
  /\ UNCHANGED <<todo, notReady, dead, view, env, dir, members, crashes, faults>>

Compared(p) == pc[p] \in {"compare", "match"} /\ ready[p] = {}

\* Mutated form of Verified: no endpoint to compare with verifies too.
NoMismatch(p) == Compared(p)

\* Nothing contradicted, but only a comparison that took place verifies.
Verified(p) == Compared(p) /\ pc[p] = "match"

\* The checker verified another node and ends; the pod just waits for etcd.
BrainSplitVerified(p) ==
  /\ Verified(p)
  /\ Goto(p, "wait")
  /\ UNCHANGED <<todo, ready, notReady, dead, view, env, etcd, dir, members, crashes, faults>>

\* Or it compared with nobody, and waits for its ticker again.
CheckInconclusive(p) ==
  /\ Compared(p) /\ ~Verified(p)
  /\ Goto(p, "check")
  /\ UNCHANGED <<todo, ready, notReady, dead, view, env, etcd, dir, members, crashes, faults>>

\* After a split, once etcd is gone: return to the loop, with the data directory.
SplitEtcdGone(p) ==
  /\ pc[p] = "split" /\ etcd[p] = "off"
  /\ Loop(p)
  /\ UNCHANGED <<env, etcd, dir, members, crashes, faults>>

\* The container ends, and every process in it.
Stop(p) ==
  /\ pc' = [pc EXCEPT ![p] = "down"]
  /\ todo' = [todo EXCEPT ![p] = {}]
  /\ ready' = [ready EXCEPT ![p] = {}]
  /\ notReady' = [notReady EXCEPT ![p] = {}]
  /\ dead' = [dead EXCEPT ![p] = {}]
  /\ view' = [view EXCEPT ![p] = NoView]
  /\ env' = [env EXCEPT ![p] = NoEnv]
  /\ etcd' = [etcd EXCEPT ![p] = "off"]

\* waitExit, or waitExitWithBrainSplitCheck whatever its checker does: etcd exited, so
\* etcdcluster does too.
ProcessExit(p) ==
  /\ pc[p] \in Watching \cup {"wait"} /\ etcd[p] = "off"
  /\ Stop(p)
  /\ UNCHANGED <<dir, members, crashes, faults>>

-----------------------------------------------------------------------------
(* The etcd process and the kubelet *)

EtcdCreatesDir(p) ==
  /\ etcd[p] = "boot" /\ dir[p] = None
  /\ dir' = [dir EXCEPT ![p] = Partial]
  /\ UNCHANGED <<loopVars, etcd, members, crashes, faults>>

\* Without a WAL, ETCD_INITIAL_CLUSTER_STATE=new makes a cluster of this member, and so
\* does an environment without it, as a container has that did not call MemberAdd:
\* etcd's defaults are "new" and the member's own peer URLs.
Founds(p) == env[p].state \in {"new", "unset"}

EtcdBootstraps(p) ==
  /\ etcd[p] = "boot" /\ dir[p] = Partial /\ Founds(p)
  /\ \E c \in Clusters, i \in Ids :
       /\ IsNewCluster(c) /\ IsNewId(i)
       /\ members' = [members EXCEPT ![c] =
                        {[id |-> i, url |-> p, name |-> p, learner |-> FALSE]}]
       /\ dir' = [dir EXCEPT ![p] = [cluster |-> c, id |-> i]]
  /\ etcd' = [etcd EXCEPT ![p] = "up"]
  /\ UNCHANGED <<loopVars, crashes, faults>>

\* Without a WAL, "existing" asks the peers in ETCD_INITIAL_CLUSTER, and their
\* member list has to be the one in ETCD_INITIAL_CLUSTER.
Joinable(p, c) ==
  /\ env[p].state = "existing"
  /\ {m.id : m \in members[c]} = env[p].peers
  /\ \E m \in members[c] : m.url # p /\ IsUp(c, m)

EtcdJoins(p) ==
  /\ etcd[p] = "boot" /\ dir[p] = Partial
  /\ \E c \in Clusters : \E m \in members[c] :
       /\ Joinable(p, c) /\ m.url = p
       /\ members' = [members EXCEPT ![c] = (@ \ {m}) \cup {[m EXCEPT !.name = p]}]
       /\ dir' = [dir EXCEPT ![p] = [cluster |-> c, id |-> m.id]]
  /\ etcd' = [etcd EXCEPT ![p] = "up"]
  /\ UNCHANGED <<loopVars, crashes, faults>>

EtcdBootFails(p) ==
  /\ etcd[p] = "boot" /\ dir[p] = Partial
  /\ ~Founds(p) /\ \A c \in Clusters : ~Joinable(p, c)
  /\ etcd' = [etcd EXCEPT ![p] = "off"]
  /\ UNCHANGED <<loopVars, dir, members, crashes, faults>>

EtcdRestarts(p) ==
  /\ etcd[p] = "boot" /\ dir[p] \in Identity
  /\ etcd' = [etcd EXCEPT ![p] = "up"]
  /\ UNCHANGED <<loopVars, dir, members, crashes, faults>>

\* After a SIGTERM.
EtcdStops(p) ==
  /\ etcd[p] = "term"
  /\ etcd' = [etcd EXCEPT ![p] = "off"]
  /\ UNCHANGED <<loopVars, dir, members, crashes, faults>>

\* A member that learns of its removal stops.
EtcdLearnsRemoved(p) ==
  /\ etcd[p] = "up"
  /\ \A m \in members[dir[p].cluster] : m.id # dir[p].id
  /\ etcd' = [etcd EXCEPT ![p] = "off"]
  /\ UNCHANGED <<loopVars, dir, members, crashes, faults>>

\* The container crashes, or its pod is deleted and (emptyDir) its data with it.
Crash(p) ==
  /\ pc[p] # "down"
  /\ Stop(p)
  /\ crashes < MaxCrashes /\ crashes + faults < MaxMishaps /\ crashes' = crashes + 1
  /\ \/ "crash" \in Faults /\ UNCHANGED dir
     \/ "lose" \in Faults /\ dir' = [dir EXCEPT ![p] = None]
  /\ UNCHANGED <<members, faults>>

Restart(p) ==
  /\ pc[p] = "down"
  /\ Loop(p)
  /\ UNCHANGED <<env, etcd, dir, members, crashes, faults>>

-----------------------------------------------------------------------------
Init ==
  /\ pc = [p \in Pods |-> "down"]
  /\ todo = [p \in Pods |-> {}]
  /\ ready = [p \in Pods |-> {}]
  /\ notReady = [p \in Pods |-> {}]
  /\ dead = [p \in Pods |-> {}]
  /\ view = [p \in Pods |-> NoView]
  /\ env = [p \in Pods |-> NoEnv]
  /\ etcd = [p \in Pods |-> "off"]
  /\ dir = [p \in Pods |-> None]
  /\ members = [c \in Clusters |-> {}]
  /\ crashes = 0 /\ faults = 0

Discover(p) ==
  \/ \E Q \in ProbeSets : Probe(p, Q)
  \/ NoIPFiles(p)
  \/ RetryNotReady(p) \/ WaitForPod0(p) \/ InitializeNewCluster(p)

Join(p) ==
  \/ MemberList(p) \/ MemberListFails(p)
  \/ \E id \in Ids : RemoveDeadMember(p, id)
  \/ RemoveSelf(p) \/ RemoveSelfFails(p)
  \/ AddMemberAndStart(p) \/ AddMemberFails(p)
  \/ PromoteStarted(p) \/ PromoteStartedFails(p)
  \/ PromoteExisting(p) \/ PromoteExistingFails(p)
  \/ CleanUp(p)

Wait(p) ==
  \/ CheckLocal(p)
  \/ \E Q \in CheckSets : CollectOthers(p, Q)
  \/ \E q \in Pods : CompareMatches(p, q) \/ CompareFails(p, q) \/ BrainSplitDetected(p, q)
  \/ BrainSplitVerified(p) \/ CheckInconclusive(p)
  \/ SplitEtcdGone(p) \/ ProcessExit(p)

Etcd(p) ==
  \/ EtcdCreatesDir(p) \/ EtcdBootstraps(p) \/ EtcdJoins(p) \/ EtcdBootFails(p)
  \/ EtcdRestarts(p) \/ EtcdStops(p) \/ EtcdLearnsRemoved(p)

\* What etcdcluster, etcd and the kubelet do by themselves.
Step(p) == Discover(p) \/ Join(p) \/ Wait(p) \/ Etcd(p) \/ Restart(p)

Next == \E p \in Pods : Step(p) \/ PromoteLosesAnswer(p) \/ Crash(p)

Spec == Init /\ [][Next]_vars

\* etcdcluster, etcd and the kubelet each keep running; nothing makes a fault or
\* a crash happen.
Fairness ==
  \A p \in Pods : /\ WF_vars(Discover(p)) /\ WF_vars(Join(p)) /\ WF_vars(Wait(p))
                  /\ WF_vars(Etcd(p)) /\ WF_vars(Restart(p))

FairSpec == Spec /\ Fairness

-----------------------------------------------------------------------------
(* Type invariant *)

View == [id : Ids \cup {None}, learner : BOOLEAN, votes : Nat, doomed : SUBSET Ids]
Env  == [state : {"unset", "new", "existing", "conflict"}, peers : SUBSET Ids]

TypeOK ==
  /\ pc \in [Pods -> States]
  /\ todo \in [Pods -> SUBSET Pods] /\ ready \in [Pods -> SUBSET Pods]
  /\ notReady \in [Pods -> SUBSET Pods] /\ dead \in [Pods -> SUBSET Pods]
  /\ view \in [Pods -> View]
  /\ env \in [Pods -> Env]
  /\ etcd \in [Pods -> {"off", "boot", "up", "term"}]
  /\ dir \in [Pods -> Identity \cup {None, Partial}]
  /\ members \in [Clusters -> SUBSET Member]
  /\ crashes \in 0..MaxCrashes /\ faults \in 0..MaxFaults
  /\ \A p \in Pods : pc[p] \in {"removeSelf", "promote", "promoteFirst", "cleanUp"} => view[p].id \in Ids

-----------------------------------------------------------------------------
(* Safety *)

Live(c) == members[c] # {} /\ Serving(c)

Holds(p, c, id) == dir[p] = [cluster |-> c, id |-> id]

\* main.go:392-403: pod-0 initialises only when no etcd runs elsewhere, so there
\* are never two clusters that serve clients at the same time (a split brain).  It takes
\* reliable probes, and that no etcd boots bare (NoBareBoot).
OneServing == \A c, d \in Clusters : Live(c) /\ Live(d) => c = d

\* manager.go:101-105, 214-217, 236: the data directory of a running etcd is never
\* removed, although the loop goes on while an etcd it started may still exist
\* (manager.go:359-365, main.go:512-522).
RunningHasData == \A p \in Pods : etcd[p] = "up" => dir[p] \in Identity

\* p's etcd is about to found a cluster (its environment and the missing WAL say so).
Founding(p) == etcd[p] = "boot" /\ dir[p] \notin Identity /\ Founds(p)

\* ... because its container restarted after an earlier etcd had made the directory,
\* and manager.go:208-209, 238 start etcd in an environment without the variables that
\* manager.go:347-348 had set.  Nobody decided to found this cluster.
BareBoot(p) == Founding(p) /\ env[p].state = "unset"

NoBareBoot == \A p \in Pods : ~BareBoot(p)

\* main.go:401-419, manager.go:89: whenever an etcd is about to found a cluster, either
\* pod-0 decided so, has the environment it set then, and has not been back in its loop
\* since: it watches for a split, unless it could not load its certificate; or the pod's
\* container restarted and found a directory that an earlier etcd had only begun.  The
\* "new" that stays in pod-0's environment never reaches an etcd that a later iteration
\* starts, and a pod without a directory founds nothing.
BootstrapWatched ==
  \A p \in Pods : Founding(p) =>
    \/ /\ p = Pod0 /\ env[p] = [state |-> "new", peers |-> {}]
       /\ pc[p] \in Watching \/ ("tls" \in Faults /\ pc[p] = "wait")
    \/ env[p].state = "unset" /\ dir[p] = Partial

\* manager.go:318-335: adding a member never takes the quorum of a serving cluster
\* away, whatever happened since votingNum was counted.
AddKeepsQuorum ==
  [][\A p \in Pods : AddMemberAndStart(p) \/ AddMemberFails(p) =>
       \A c \in Clusters : Live(c) => Serving(c)']_vars

\* manager.go:207-217, 231-236: etcdcluster removes a pod's data only if the pod
\* is (or has become) no voting member of the serving cluster the data is of.
KeepsVotersData ==
  [][\A p \in Pods : /\ dir[p] \in Identity /\ dir'[p] \notin Identity /\ ~Crash(p)
                     /\ Live(dir[p].cluster)
       => \A m \in members'[dir[p].cluster] : m.id = dir[p].id => m.learner]_vars

\* manager.go:241-252, 303-369: most voting members of a cluster of which one pod
\* is lost always hold its data, also while the pod leaves and joins again.
Recoverable ==
  \A c \in Clusters : members[c] # {} =>
    2 * Cardinality({m \in Voters(c) : Holds(m.url, c, m.id)}) > Cardinality(Voters(c))

\* manager.go:530-652: when the checker has compared and is content, no other cluster
\* serves, although the pods go on between its calls (as long as no etcd boots bare, and
\* each cluster has an ID of its own).
VerifyMeansWhole ==
  [][BrainSplitVerified(Pod0) => \A c \in Clusters \ {dir[Pod0].cluster} : ~Live(c)]_vars

-----------------------------------------------------------------------------
(* Liveness *)

Running(p, c) == \E m \in Voters(c) : m.url = p /\ IsUp(c, m)

\* main.go:345-421: in the end every pod is a running voting member of one cluster.
AllJoin == <>[](\E c \in Clusters : \A p \in Pods : Running(p, c))

=============================================================================
