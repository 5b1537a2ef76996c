-------------------------- MODULE EtcdCluster_proofs --------------------------
(***************************************************************************)
(* What holds of etcdcluster for any number of pods, faults and crashes.   *)
(***************************************************************************)
EXTENDS EtcdCluster, FiniteSetTheorems, TLAPS

\* Without an etcd of this iteration: none at all, or one that got a SIGTERM.
IdleStates == {"discover", "remove", "removeSelf", "add", "promoteFirst", "cleanUp",
               "split", "down"}

Finite == \A c \in Clusters : IsFiniteSet(members[c])

Idle(p) == pc[p] \in IdleStates => etcd[p] \in {"off", "term"}

\* pod-0 waits for its etcd without a checker, because the TLS files did not load.
Unwatched(p) == pc[p] = "wait" /\ "tls" \in Faults

\* Where ETCD_INITIAL_CLUSTER_STATE=new survives, no etcd can boot without data.
NewEnv(p) ==
  env[p].state = "new" =>
    /\ p = Pod0 /\ env[p].peers = {}
    /\ pc[p] \notin Watching /\ ~Unwatched(p) =>
         dir[p] # Partial /\ (etcd[p] = "boot" => dir[p] # None)

\* Only pod-0 watches, in the environment of a new cluster, and its checker compares
\* once its etcd has data.
Watched(p) ==
  /\ pc[p] \in Watching => p = Pod0 /\ env[p].state = "new"
  /\ pc[p] \in Watching \ {"check"} => dir[p] \in Identity

\* Without ETCD_INITIAL_CLUSTER_STATE, etcd is started on a directory only.
BareHasDir(p) == env[p].state = "unset" /\ etcd[p] = "boot" => dir[p] # None

PromotesData(p) == pc[p] = "promoteFirst" => dir[p] # None

UpHasData(p) == etcd[p] = "up" => dir[p] \in Identity

Good(p) == Idle(p) /\ NewEnv(p) /\ PromotesData(p) /\ UpHasData(p) /\ Watched(p) /\ BareHasDir(p)

Control == \A p \in Pods : Good(p)


-----------------------------------------------------------------------------
(* Types *)

LoopOK ==
  /\ pc \in [Pods -> States]
  /\ todo \in [Pods -> SUBSET Pods] /\ ready \in [Pods -> SUBSET Pods]
  /\ notReady \in [Pods -> SUBSET Pods] /\ dead \in [Pods -> SUBSET Pods]
  /\ view \in [Pods -> View]
  /\ \A p \in Pods : pc[p] \in {"removeSelf", "promote", "promoteFirst", "cleanUp"} => view[p].id \in Ids

EnvOK     == env \in [Pods -> Env]
EtcdOK    == etcd \in [Pods -> {"off", "boot", "up", "term"}]
DirOK     == dir \in [Pods -> Identity \cup {None, Partial}]
MembersOK == members \in [Clusters -> SUBSET Member] /\ Finite
CountsOK  == crashes \in 0..MaxCrashes /\ faults \in 0..MaxFaults

TypesOK == LoopOK /\ EnvOK /\ EtcdOK /\ DirOK /\ MembersOK /\ CountsOK

\* The parts make up the type invariant.
LEMMA TypeParts == TypesOK <=> TypeOK /\ Finite
BY DEF TypesOK, TypeOK, LoopOK, EnvOK, EtcdOK, DirOK, MembersOK, CountsOK

\* No ID and no cluster is None.
LEMMA NoneIsNoId == None \notin Ids
BY NoneAssumption, BoundAssumption DEF Ids

\* NoView is what a pod knows of the member list outside JoinExistingCluster.
LEMMA NoViewType == NoView \in View
BY DEF NoView, View

\* A fault, if there was one, was counted.
LEMMA FaultCounts ==
  ASSUME CountsOK, NEW k, Fault(k) PROVE faults' \in 0..MaxFaults
BY BoundAssumption DEF CountsOK, Fault

\* Going back to the top of the loop resets everything the iteration knew.
LEMMA LoopType ==
  ASSUME LoopOK, NEW p \in Pods, Loop(p) PROVE LoopOK'
BY NoViewType DEF LoopOK, Loop, States

\* Stopping the container does too.
LEMMA StopType ==
  ASSUME LoopOK, EnvOK, EtcdOK, NEW p \in Pods, Stop(p) PROVE LoopOK' /\ EnvOK' /\ EtcdOK'
<1>1. NoEnv \in Env
  BY DEF NoEnv, Env
<1> QED BY <1>1, NoViewType DEF LoopOK, EnvOK, EtcdOK, Stop, States

\* So does the end of JoinExistingCluster.
LEMMA WaitExitType ==
  ASSUME LoopOK, NEW p \in Pods, WaitExit(p),
         UNCHANGED todo, notReady' \in [Pods -> SUBSET Pods], dead' \in [Pods -> SUBSET Pods]
  PROVE  LoopOK'
BY NoViewType DEF LoopOK, WaitExit, Goto, States

\* StartEtcd and TerminateEtcd keep the state of the process well defined.
LEMMA StartType ==
  ASSUME EtcdOK, NEW p \in Pods, StartEtcd(p) PROVE EtcdOK'
BY DEF EtcdOK, StartEtcd

\* So does a SIGTERM.
LEMMA TerminateType ==
  ASSUME EtcdOK, NEW p \in Pods, TerminateEtcd(p) PROVE EtcdOK'
BY DEF EtcdOK, TerminateEtcd

\* Calls that leave the member list smaller, or promote one of its members.
LEMMA RemovedType ==
  ASSUME MembersOK, NEW c \in Clusters, NEW m \in members[c], members' = Removed(c, m)
  PROVE  MembersOK'
<1>1. \A d \in Clusters : members'[d] \subseteq members[d]
  BY DEF MembersOK, Removed
<1>2. Finite'
  BY <1>1, FS_Subset DEF MembersOK, Finite
<1> QED BY <1>2 DEF MembersOK, Removed

\* A promotion leaves the member list a finite set of members.
LEMMA PromotedType ==
  ASSUME MembersOK, NEW c \in Clusters, NEW m \in members[c], members' = Promoted(c, m)
  PROVE  MembersOK'
<1> DEFINE n == [m EXCEPT !.learner = FALSE]
<1>0. m \in Member
  BY DEF MembersOK
<1>1. n \in Member
  BY <1>0 DEF Member
<1>2. IsFiniteSet((members[c] \ {m}) \cup {n})
  BY FS_RemoveElement, FS_AddElement DEF MembersOK, Finite
<1>3. Finite'
  BY <1>2 DEF MembersOK, Finite, Promoted
<1> QED BY <1>1, <1>3 DEF MembersOK, Promoted

\* processMembers returns a member ID or none, and a number of voting members.
LEMMA ProcessMembersType ==
  ASSUME MembersOK, NEW p \in Pods, NEW c \in Clusters, NEW v \in ProcessMembers(p, c)
  PROVE  v \in View
<1>1. members[c] \subseteq Member /\ IsFiniteSet(members[c])
  BY DEF MembersOK, Finite
<1>2. VotingNum(p, c) \in Nat
  BY <1>1, FS_Subset, FS_CardinalityType DEF VotingNum, Voters
<1>3. {m.id : m \in Doomed(p, c)} \in SUBSET Ids
  BY <1>1 DEF Doomed, Member
<1>4. \A m \in Mine(p, c) : m.id \in Ids /\ m.learner \in BOOLEAN
  BY <1>1 DEF Mine, Member
<1> DEFINE found(id, learner) ==
             [id |-> id, learner |-> learner, votes |-> VotingNum(p, c),
              doomed |-> {m.id : m \in Doomed(p, c)}]
<1>5. ASSUME NEW id \in Ids \cup {None}, NEW learner \in BOOLEAN PROVE found(id, learner) \in View
  BY <1>2, <1>3 DEF View
<1> HIDE DEF found
<1>6. v \in IF Mine(p, c) = {} THEN {found(None, FALSE)}
                              ELSE {found(m.id, m.learner) : m \in Mine(p, c)}
  BY DEF ProcessMembers, found
<1> QED BY <1>4, <1>5, <1>6

\* handleMemberJoin goes on where the member it found makes sense.
LEMMA JoinStepType ==
  ASSUME DirOK, NEW p \in Pods, NEW v \in View
  PROVE  \/ JoinStep(p, v) = "add" /\ v.id = None
         \/ JoinStep(p, v) = "removeSelf" /\ v.id \in Ids /\ dir[p] = None
         \/ JoinStep(p, v) \in {"promoteFirst", "wait"} /\ v.id \in Ids /\ dir[p] # None
<1>1. v.id \in Ids \cup {None}
  BY DEF View
<1>2. CASE v.id = None
  BY <1>2 DEF JoinStep
<1>3. CASE v.id # None /\ dir[p] = None
  BY <1>1, <1>3 DEF JoinStep
<1>4. CASE v.id # None /\ dir[p] # None
  BY <1>1, <1>4 DEF JoinStep
<1> QED BY <1>2, <1>3, <1>4

\* Whatever member it finds, handleMemberJoin keeps the types.
LEMMA HandleMemberJoinType ==
  ASSUME LoopOK, EtcdOK, DirOK, NEW p \in Pods, NEW v \in View, HandleMemberJoin(p, v),
         UNCHANGED todo, notReady' \in [Pods -> SUBSET Pods], dead' \in [Pods -> SUBSET Pods]
  PROVE  LoopOK' /\ EtcdOK' /\ DirOK'
<1>1. DirOK'
  BY DEF HandleMemberJoin, KeptData, DirOK
<1>2. CASE JoinStep(p, v) = "wait"
  <2>1. WaitExit(p) /\ StartEtcd(p)
    BY <1>2 DEF HandleMemberJoin
  <2> QED BY <1>1, <2>1, StartType, WaitExitType
<1>3. CASE JoinStep(p, v) # "wait"
  <2>1. pc' = [pc EXCEPT ![p] = JoinStep(p, v)] /\ view' = [view EXCEPT ![p] = v] /\ UNCHANGED <<ready, etcd>>
    BY <1>3 DEF HandleMemberJoin, Goto
  <2>2. JoinStep(p, v) \in {"add", "removeSelf", "promoteFirst"}
    BY <1>3, JoinStepType
  <2>3. JoinStep(p, v) # "add" => v.id \in Ids
    BY <1>3, JoinStepType
  <2> QED BY <1>1, <2>1, <2>2, <2>3 DEF LoopOK, EtcdOK, States
<1> QED BY <1>2, <1>3

\* discover: every action of DiscoverEndpoints and of the decision after it.
LEMMA DiscoverType ==
  ASSUME TypesOK, NEW p \in Pods, Discover(p) PROVE TypesOK'
<1>1. ASSUME NEW Q \in ProbeSets, Probe(p, Q) PROVE TypesOK'
  <2>1. PICK r \in [Q -> {"ready", "notReady", "unreachable", "dead"}] :
          /\ UNCHANGED faults \/ Fault("probe") \/ Fault("file")
          /\ ready' = [ready EXCEPT ![p] = @ \cup {q \in Q : r[q] = "ready"}]
          /\ notReady' = [notReady EXCEPT ![p] = @ \cup {q \in Q : r[q] = "notReady"}]
          /\ dead' = [dead EXCEPT ![p] = @ \cup {q \in Q : r[q] = "dead"}]
    BY <1>1 DEF Probe
  <2>2. Q \subseteq Pods
    BY ProbeAssumption
  <2>3. CountsOK'
    BY <1>1, <2>1, FaultCounts DEF Probe, TypesOK, CountsOK
  <2>4. LoopOK'
    BY <1>1, <2>1, <2>2 DEF Probe, TypesOK, LoopOK
  <2> QED BY <1>1, <2>3, <2>4 DEF Probe, TypesOK, EnvOK, EtcdOK, DirOK, MembersOK, Finite
<1>2. CASE RetryNotReady(p) \/ WaitForPod0(p)
  BY <1>2, LoopType DEF RetryNotReady, WaitForPod0, TypesOK, EnvOK, EtcdOK, DirOK, MembersOK, Finite, CountsOK
<1>3. CASE InitializeNewCluster(p)
  <2>1. EtcdOK' /\ LoopOK'
    BY <1>3, StartType DEF InitializeNewCluster, TypesOK, LoopOK, Goto, States
  <2>2. EnvOK' /\ DirOK'
    BY <1>3 DEF InitializeNewCluster, TypesOK, EnvOK, Env, DirOK
  <2>3. CountsOK'
    BY <1>3, FaultCounts DEF InitializeNewCluster, TypesOK, CountsOK
  <2> QED BY <1>3, <2>1, <2>2, <2>3 DEF InitializeNewCluster, TypesOK, MembersOK, Finite
<1>4. CASE NoIPFiles(p)
  <2>1. LoopOK'
    BY <1>4 DEF NoIPFiles, TypesOK, LoopOK
  <2>2. CountsOK'
    BY <1>4, FaultCounts DEF NoIPFiles, TypesOK, CountsOK
  <2> QED BY <1>4, <2>1, <2>2 DEF NoIPFiles, TypesOK, EnvOK, EtcdOK, DirOK, MembersOK, Finite
<1> QED BY <1>1, <1>2, <1>3, <1>4 DEF Discover

\* A call of the membership API fails without an effect, or removes a member.
LEMMA CallFailsType ==
  ASSUME MembersOK, CountsOK, NEW p, NEW R, CallFails(p, R), UNCHANGED crashes
  PROVE  MembersOK' /\ CountsOK'
BY FaultCounts DEF CallFails, MembersOK, Finite, CountsOK

\* MemberRemove keeps the member lists well defined.
LEMMA MemberRemoveType ==
  ASSUME MembersOK, NEW p, NEW i, MemberRemove(p, i) PROVE MembersOK'
BY RemovedType DEF MemberRemove, Reachable

\* So does MemberPromote.
LEMMA MemberPromoteType ==
  ASSUME MembersOK, NEW p, MemberPromote(p) PROVE MembersOK'
BY PromotedType DEF MemberPromote, Reachable

\* So does MemberAdd, and the new member's ID is an ID.
LEMMA MemberAddType ==
  ASSUME MembersOK, NEW p \in Pods, NEW c \in Clusters, NEW i \in Ids, MemberAdd(p, c, i)
  PROVE  MembersOK'
<1>1. AddedMember(p, i) \in Member
  BY DEF AddedMember, AsLearner, Member
<1>2. IsFiniteSet(members[c] \cup {AddedMember(p, i)})
  BY FS_AddElement DEF MembersOK, Finite
<1>3. Finite'
  BY <1>2 DEF MemberAdd, MembersOK, Finite
<1> QED BY <1>1, <1>3 DEF MemberAdd, MembersOK

\* Counters and lists that an action leaves alone stay well defined.
LEMMA SameCounts ==
  ASSUME CountsOK, UNCHANGED <<crashes, faults>> PROVE CountsOK'
BY DEF CountsOK

\* Member lists that an action leaves alone stay well defined.
LEMMA SameMembers ==
  ASSUME MembersOK, UNCHANGED members PROVE MembersOK'
BY DEF MembersOK, Finite

\* JoinExistingCluster: every action.
LEMMA JoinType ==
  ASSUME TypesOK, NEW p \in Pods, Join(p) PROVE TypesOK'
<1> USE DEF TypesOK
<1>1. CASE MemberList(p)
  <2>0. PICK c \in Reachable(p) : \E v \in ProcessMembers(p, c) :
          IF v.doomed # {}
          THEN Goto(p, "remove") /\ view' = [view EXCEPT ![p] = v] /\ UNCHANGED <<ready, etcd, dir>>
          ELSE HandleMemberJoin(p, v)
    BY <1>1 DEF MemberList
  <2>1. PICK v \in ProcessMembers(p, c) :
          IF v.doomed # {}
          THEN Goto(p, "remove") /\ view' = [view EXCEPT ![p] = v] /\ UNCHANGED <<ready, etcd, dir>>
          ELSE HandleMemberJoin(p, v)
    BY <2>0
  <2>2. c \in Clusters /\ v \in View
    BY <2>1, ProcessMembersType DEF Reachable
  <2>3. /\ UNCHANGED <<todo, env, members, crashes, faults>>
        /\ notReady' \in [Pods -> SUBSET Pods] /\ dead' \in [Pods -> SUBSET Pods]
    BY <1>1 DEF MemberList, LoopOK
  <2>4. LoopOK' /\ EtcdOK' /\ DirOK'
    <3>1. CASE v.doomed # {}
      <4>1. /\ pc' = [pc EXCEPT ![p] = "remove"] /\ view' = [view EXCEPT ![p] = v]
            /\ UNCHANGED <<ready, etcd, dir>>
        BY <2>1, <3>1 DEF Goto
      <4> QED BY <2>2, <2>3, <4>1 DEF LoopOK, States, EtcdOK, DirOK
    <3>2. CASE v.doomed = {}
      BY <2>1, <2>2, <2>3, <3>2, HandleMemberJoinType
    <3> QED BY <3>1, <3>2
  <2> QED BY <2>3, <2>4, SameCounts, SameMembers DEF EnvOK
<1>2. CASE MemberListFails(p)
  BY <1>2, LoopType, CallFailsType DEF MemberListFails, EnvOK, EtcdOK, DirOK
<1>3. ASSUME NEW id \in Ids, RemoveDeadMember(p, id) PROVE TypesOK'
  <2> DEFINE v == [view[p] EXCEPT !.doomed = @ \ {id}]
  <2>1. v \in View
    BY DEF LoopOK, View
  <2>2. MembersOK' /\ CountsOK'
    BY <1>3, MemberRemoveType, CallFailsType, SameCounts DEF RemoveDeadMember
  <2>3. UNCHANGED <<todo, notReady, dead, env>>
    BY <1>3 DEF RemoveDeadMember
  <2>4. LoopOK' /\ EtcdOK' /\ DirOK'
    <3>1. CASE v.doomed # {}
      <4>1. view' = [view EXCEPT ![p] = v] /\ UNCHANGED <<pc, ready, etcd, dir>> /\ pc[p] = "remove"
        BY <1>3, <3>1 DEF RemoveDeadMember
      <4> HIDE DEF v
      <4> QED BY <2>1, <2>3, <4>1 DEF LoopOK, EtcdOK, DirOK
    <3>2. CASE v.doomed = {}
      <4>1. HandleMemberJoin(p, v)
        BY <1>3, <3>2 DEF RemoveDeadMember
      <4>2. notReady' \in [Pods -> SUBSET Pods] /\ dead' \in [Pods -> SUBSET Pods]
        BY <2>3 DEF LoopOK
      <4> HIDE DEF v
      <4> QED BY <2>1, <2>3, <4>1, <4>2, HandleMemberJoinType
    <3> QED BY <3>1, <3>2
  <2> QED BY <2>2, <2>3, <2>4 DEF EnvOK
<1>4. CASE RemoveSelf(p)
  BY <1>4, MemberRemoveType, SameCounts DEF RemoveSelf, Goto, LoopOK, States, EnvOK, EtcdOK, DirOK
<1>5. CASE RemoveSelfFails(p)
  <2>1. MembersOK' /\ CountsOK'
    <3>1. CASE CallFails(p, RemoveRefused(view[p].id))
      BY <1>5, <3>1, CallFailsType DEF RemoveSelfFails
    <3>2. CASE Fault("lostRemove") /\ MemberRemove(p, view[p].id)
      BY <1>5, <3>2, MemberRemoveType, FaultCounts DEF RemoveSelfFails, CountsOK
    <3> QED BY <1>5, <3>1, <3>2 DEF RemoveSelfFails
  <2> QED BY <1>5, <2>1, LoopType DEF RemoveSelfFails, EnvOK, EtcdOK, DirOK
<1>6. CASE AddMemberAndStart(p)
  <2>1. PICK c \in Reachable(p), i \in Ids :
          /\ MemberAdd(p, c, i)
          /\ env' = [env EXCEPT ![p] = BuildClusterConfig(p, members'[c])]
          /\ IF AsLearner(p)
             THEN Goto(p, "promote") /\ view' = [view EXCEPT ![p].id = i] /\ UNCHANGED ready
             ELSE WaitExit(p)
    BY <1>6 DEF AddMemberAndStart
  <2>2. c \in Clusters
    BY DEF Reachable
  <2>3. MembersOK'
    BY <2>1, <2>2, MemberAddType
  <2>4. EnvOK'
    <3>1. members'[c] \subseteq Member
      BY <2>2, <2>3 DEF MembersOK
    <3>2. BuildClusterConfig(p, members'[c]) \in Env
      BY <3>1 DEF BuildClusterConfig, Env, Member
    <3> QED BY <2>1, <3>2 DEF EnvOK
  <2>5. LoopOK'
    <3>1. UNCHANGED <<todo, notReady, dead>>
      BY <1>6 DEF AddMemberAndStart
    <3>2. CASE AsLearner(p)
      <4>1. [view[p] EXCEPT !.id = i] \in View
        BY DEF LoopOK, View
      <4>2. view' = [view EXCEPT ![p] = [view[p] EXCEPT !.id = i]]
        BY <2>1, <3>2 DEF LoopOK
      <4>3. view'[p].id = i
        BY <4>2 DEF LoopOK, View
      <4> QED BY <2>1, <3>1, <3>2, <4>1, <4>2, <4>3 DEF Goto, LoopOK, States
    <3>3. CASE ~AsLearner(p)
      BY <2>1, <3>1, <3>3, WaitExitType DEF LoopOK
    <3> QED BY <3>2, <3>3
  <2> QED BY <1>6, <2>3, <2>4, <2>5, StartType, SameCounts DEF AddMemberAndStart, DirOK
<1>7. CASE AddMemberFails(p)
  <2>1. MembersOK' /\ CountsOK'
    <3>1. CASE UNCHANGED <<members, faults>>
      BY <1>7, <3>1, SameMembers, SameCounts DEF AddMemberFails
    <3>2. CASE CallFails(p, {c \in Clusters : ~AddOk(c, p, AsLearner(p))})
      BY <1>7, <3>2, CallFailsType DEF AddMemberFails
    <3>3. CASE Fault("lostAdd") /\ \E c \in Reachable(p), i \in Ids : MemberAdd(p, c, i)
      BY <1>7, <3>3, MemberAddType, FaultCounts DEF AddMemberFails, CountsOK, Reachable
    <3> QED BY <1>7, <3>1, <3>2, <3>3 DEF AddMemberFails
  <2> QED BY <1>7, <2>1, LoopType DEF AddMemberFails, EnvOK, EtcdOK, DirOK
<1>8. CASE PromoteStarted(p)
  <2>1. LoopOK'
    BY <1>8, WaitExitType DEF PromoteStarted, LoopOK
  <2> QED BY <1>8, <2>1, MemberPromoteType, SameCounts DEF PromoteStarted, EnvOK, EtcdOK, DirOK
<1>9. CASE PromoteStartedFails(p)
  BY <1>9, LoopType, TerminateType, CallFailsType
  DEF PromoteStartedFails, PromoteGivesUp, EnvOK, DirOK
<1>10. CASE PromoteExisting(p)
  <2>1. LoopOK'
    BY <1>10, WaitExitType DEF PromoteExisting, LoopOK
  <2> QED BY <1>10, <2>1, MemberPromoteType, StartType, SameCounts DEF PromoteExisting, EnvOK, DirOK
<1>11. CASE PromoteExistingFails(p)
  <2>1. LoopOK'
    BY <1>11 DEF PromoteExistingFails, Goto, LoopOK, States
  <2> QED BY <1>11, <2>1, CallFailsType DEF PromoteExistingFails, PromoteGivesUp, EnvOK, EtcdOK, DirOK
<1>12. CASE CleanUp(p)
  <2>1. MembersOK' /\ CountsOK'
    BY <1>12, MemberRemoveType, CallFailsType, SameCounts DEF CleanUp
  <2> QED BY <1>12, <2>1, LoopType DEF CleanUp, EnvOK, EtcdOK, DirOK
<1> QED
  BY <1>1, <1>2, <1>3, <1>4, <1>5, <1>6, <1>7, <1>8, <1>9, <1>10, <1>11, <1>12 DEF Join

\* The checker looks on: it waits, collects endpoints, compares, or found nobody.
Looks(p) ==
  \/ CheckLocal(p)
  \/ \E Q \in CheckSets : CollectOthers(p, Q)
  \/ \E q \in Pods : CompareMatches(p, q) \/ CompareFails(p, q)
  \/ CheckInconclusive(p)

\* ... which changes nothing but what it remembers itself.
LEMMA LooksOnly ==
  ASSUME TypesOK, NEW p \in Pods, Looks(p)
  PROVE  /\ UNCHANGED <<notReady, dead, view, env, etcd, dir, members, crashes>>
         /\ CountsOK'
         /\ todo' \in [Pods -> SUBSET Pods] /\ ready' \in [Pods -> SUBSET Pods]
         /\ pc[p] \in Watching /\ \E l \in Watching : pc' = [pc EXCEPT ![p] = l]
         /\ \A q \in Pods \ {p} : todo'[q] = todo[q] /\ ready'[q] = ready[q]
<1> USE DEF TypesOK, LoopOK
<1>1. CASE CheckLocal(p)
  BY <1>1, SameCounts DEF CheckLocal, Goto, Watching
<1>2. CASE \E Q \in CheckSets : CollectOthers(p, Q)
  <2>1. PICK Q \in CheckSets : CollectOthers(p, Q)
    BY <1>2
  <2>2. PICK found \in SUBSET {q \in Q \cap todo[p] : Answers(q)} :
          /\ ready' = [ready EXCEPT ![p] = @ \cup found]
          /\ UNCHANGED faults \/ \E kind \in {"probe", "file", "dir"} : Fault(kind)
    BY <2>1 DEF CollectOthers
  <2>3. CountsOK'
    BY <2>1, <2>2, FaultCounts DEF CollectOthers, CountsOK
  <2>4. found \subseteq Pods
    BY <2>2
  <2> HIDE DEF TypesOK
  <2>5. ready' \in [Pods -> SUBSET Pods] /\ \A q \in Pods \ {p} : ready'[q] = ready[q]
    BY <2>2, <2>4 DEF TypesOK
  <2>6. \E l \in Watching : pc' = [pc EXCEPT ![p] = l]
    BY <2>1 DEF CollectOthers, Goto, Watching
  <2> QED BY <2>1, <2>3, <2>5, <2>6 DEF CollectOthers, Watching, TypesOK
<1>3. CASE \E q \in Pods : CompareMatches(p, q)
  BY <1>3, SameCounts DEF CompareMatches, Compares, Goto, Watching
<1>4. CASE \E q \in Pods : CompareFails(p, q)
  <2>1. PICK q \in Pods : CompareFails(p, q)
    BY <1>4
  <2>2. CountsOK'
    BY <2>1, FaultCounts DEF CompareFails, CountsOK
  <2>3. pc' = [pc EXCEPT ![p] = pc[p]] /\ pc[p] \in Watching
    BY <2>1 DEF CompareFails, Compares, Watching
  <2> QED BY <2>1, <2>2, <2>3 DEF CompareFails
<1>5. CASE CheckInconclusive(p)
  BY <1>5, SameCounts DEF CheckInconclusive, Compared, Goto, Watching
<1> QED BY <1>1, <1>2, <1>3, <1>4, <1>5 DEF Looks

\* What else the process does while it waits for its etcd.
LEMMA WaitSteps ==
  ASSUME NEW p \in Pods, Wait(p)
  PROVE  \/ Looks(p) \/ (\E q \in Pods : BrainSplitDetected(p, q)) \/ BrainSplitVerified(p)
         \/ SplitEtcdGone(p) \/ ProcessExit(p)
BY DEF Wait, Looks

\* The checker, and the process's end.
LEMMA WaitType ==
  ASSUME TypesOK, NEW p \in Pods, Wait(p) PROVE TypesOK'
<1>0. CASE Looks(p)
  BY <1>0, LooksOnly, SameMembers DEF TypesOK, LoopOK, EnvOK, EtcdOK, DirOK, Watching, States
<1> USE DEF TypesOK
<1>1. CASE \E q \in Pods : BrainSplitDetected(p, q)
  <2>1. PICK q \in Pods : BrainSplitDetected(p, q)
    BY <1>1
  <2>2. LoopOK'
    BY <2>1 DEF BrainSplitDetected, Goto, LoopOK, States
  <2> QED BY <2>1, <2>2, TerminateType, SameCounts, SameMembers DEF BrainSplitDetected, EnvOK, DirOK
<1>2. CASE BrainSplitVerified(p)
  <2>1. LoopOK'
    BY <1>2 DEF BrainSplitVerified, Goto, LoopOK, States
  <2> QED BY <1>2, <2>1, SameCounts, SameMembers DEF BrainSplitVerified, EnvOK, EtcdOK, DirOK
<1>3. CASE SplitEtcdGone(p)
  BY <1>3, LoopType, SameCounts, SameMembers DEF SplitEtcdGone, EnvOK, EtcdOK, DirOK
<1>4. CASE ProcessExit(p)
  BY <1>4, StopType, SameCounts, SameMembers DEF ProcessExit, DirOK
<1> QED BY <1>0, <1>1, <1>2, <1>3, <1>4, WaitSteps

\* The etcd process.
LEMMA EtcdType ==
  ASSUME TypesOK, NEW p \in Pods, Etcd(p) PROVE TypesOK'
<1> USE DEF TypesOK
<1>1. ASSUME UNCHANGED loopVars PROVE LoopOK' /\ EnvOK'
  BY <1>1 DEF loopVars, LoopOK, EnvOK
<1>2. CASE EtcdCreatesDir(p)
  BY <1>1, <1>2, SameCounts, SameMembers DEF EtcdCreatesDir, EtcdOK, DirOK
<1>3. CASE EtcdBootstraps(p)
  <2>1. PICK c \in Clusters, i \in Ids :
          /\ members' = [members EXCEPT ![c] =
                           {[id |-> i, url |-> p, name |-> p, learner |-> FALSE]}]
          /\ dir' = [dir EXCEPT ![p] = [cluster |-> c, id |-> i]]
    BY <1>3 DEF EtcdBootstraps
  <2>2. [id |-> i, url |-> p, name |-> p, learner |-> FALSE] \in Member
    BY DEF Member
  <2>3. IsFiniteSet({[id |-> i, url |-> p, name |-> p, learner |-> FALSE]})
    BY FS_Singleton
  <2>4. MembersOK'
    BY <2>1, <2>2, <2>3 DEF MembersOK, Finite
  <2>5. DirOK'
    BY <2>1 DEF DirOK, Identity
  <2> QED BY <1>1, <1>3, <2>4, <2>5, SameCounts DEF EtcdBootstraps, EtcdOK
<1>4. CASE EtcdJoins(p)
  <2>1. PICK c \in Clusters : \E m \in members[c] :
          /\ members' = [members EXCEPT ![c] = (@ \ {m}) \cup {[m EXCEPT !.name = p]}]
          /\ dir' = [dir EXCEPT ![p] = [cluster |-> c, id |-> m.id]]
    BY <1>4 DEF EtcdJoins
  <2>2. PICK m \in members[c] :
          /\ members' = [members EXCEPT ![c] = (@ \ {m}) \cup {[m EXCEPT !.name = p]}]
          /\ dir' = [dir EXCEPT ![p] = [cluster |-> c, id |-> m.id]]
    BY <2>1
  <2>3. m \in Member
    BY DEF MembersOK
  <2>4. [m EXCEPT !.name = p] \in Member
    BY <2>3 DEF Member
  <2>5. IsFiniteSet((members[c] \ {m}) \cup {[m EXCEPT !.name = p]})
    BY FS_RemoveElement, FS_AddElement DEF MembersOK, Finite
  <2>6. MembersOK'
    BY <2>2, <2>4, <2>5 DEF MembersOK, Finite
  <2>7. DirOK'
    BY <2>2, <2>3 DEF DirOK, Identity, Member
  <2> QED BY <1>1, <1>4, <2>6, <2>7, SameCounts DEF EtcdJoins, EtcdOK
<1>5. CASE EtcdBootFails(p) \/ EtcdRestarts(p) \/ EtcdStops(p) \/ EtcdLearnsRemoved(p)
  BY <1>1, <1>5, SameCounts, SameMembers
  DEF EtcdBootFails, EtcdRestarts, EtcdStops, EtcdLearnsRemoved, EtcdOK, DirOK
<1> QED BY <1>2, <1>3, <1>4, <1>5 DEF Etcd

\* A crash, a restart, and an answer that is lost.
LEMMA OtherType ==
  ASSUME TypesOK, NEW p \in Pods, Restart(p) \/ PromoteLosesAnswer(p) \/ Crash(p)
  PROVE  TypesOK'
<1> USE DEF TypesOK
<1>1. CASE Restart(p)
  BY <1>1, LoopType, SameCounts, SameMembers DEF Restart, EnvOK, EtcdOK, DirOK
<1>2. CASE PromoteLosesAnswer(p)
  <2>1. CountsOK'
    BY <1>2, FaultCounts DEF PromoteLosesAnswer, CountsOK
  <2> QED BY <1>2, <2>1, MemberPromoteType
      DEF PromoteLosesAnswer, loopVars, LoopOK, EnvOK, EtcdOK, DirOK
<1>3. CASE Crash(p)
  <2>1. CountsOK'
    BY <1>3, BoundAssumption DEF Crash, CountsOK
  <2>2. DirOK'
    BY <1>3 DEF Crash, DirOK
  <2> QED BY <1>3, <2>1, <2>2, StopType, SameMembers DEF Crash
<1> QED BY <1>1, <1>2, <1>3

\* Every step keeps the types.
LEMMA TypeStep ==
  ASSUME TypesOK, [Next]_vars PROVE TypesOK'
<1>1. ASSUME NEW p \in Pods, Step(p) \/ PromoteLosesAnswer(p) \/ Crash(p) PROVE TypesOK'
  BY <1>1, DiscoverType, JoinType, WaitType, EtcdType, OtherType DEF Step
<1>2. CASE UNCHANGED vars
  BY <1>2 DEF vars, loopVars, TypesOK, LoopOK, EnvOK, EtcdOK, DirOK, MembersOK, Finite, CountsOK
<1> QED BY <1>1, <1>2 DEF Next

\* The types hold before any pod has started.
LEMMA TypeInit ==
  ASSUME Init PROVE TypesOK
<1>1. LoopOK
  BY NoViewType DEF Init, LoopOK, States
<1>2. NoEnv \in Env
  BY DEF NoEnv, Env
<1>3. MembersOK
  BY FS_EmptySet DEF Init, MembersOK, Finite
<1>4. CountsOK
  BY BoundAssumption DEF Init, CountsOK
<1> QED BY <1>1, <1>2, <1>3, <1>4 DEF Init, TypesOK, EnvOK, EtcdOK, DirOK

-----------------------------------------------------------------------------
\* Every variable keeps its type, and etcd's answers fit what etcdcluster assumes
\* of them when it removes or promotes a member (manager.go:204-252).
THEOREM TypeCorrect == Spec => []TypeOK
<1>1. Init => TypesOK
  BY TypeInit
<1>2. TypesOK /\ [Next]_vars => TypesOK'
  BY TypeStep
<1>3. TypesOK => TypeOK
  BY TypeParts
<1> QED BY <1>1, <1>2, <1>3, PTL DEF Spec

-----------------------------------------------------------------------------
(* Which etcd runs, on which data *)

\* The functions that Good reads are defined for every pod.
Typed ==
  /\ pc \in [Pods -> States] /\ env \in [Pods -> Env]
  /\ etcd \in [Pods -> {"off", "boot", "up", "term"}]
  /\ dir \in [Pods -> Identity \cup {None, Partial}]

\* A step of p leaves the other pods alone.
OnlyAt(p) ==
  \A q \in Pods \ {p} : pc'[q] = pc[q] /\ env'[q] = env[q] /\ etcd'[q] = etcd[q] /\ dir'[q] = dir[q]

\* What a pod does leaves every other pod's control state alone.
LEMMA Frame ==
  ASSUME Control, NEW p \in Pods, OnlyAt(p), Good(p)' PROVE Control'
BY DEF Control, OnlyAt, Good, Idle, NewEnv, Unwatched, PromotesData, UpHasData,
      Watched, Watching, BareHasDir

\* handleMemberJoin starts an etcd that has data, or removes data no etcd runs on.
LEMMA HandleMemberJoinControl ==
  ASSUME Typed, Control, NEW p \in Pods, NEW v \in View, HandleMemberJoin(p, v), UNCHANGED env,
         pc[p] \in {"discover", "remove"}
  PROVE  OnlyAt(p) /\ Good(p)'
<1>1. Good(p) /\ etcd[p] \in {"off", "term"}
  BY DEF Control, Good, Idle, IdleStates
<1>2. dir' = [dir EXCEPT ![p] = KeptData(p, v)] /\ (v.id # None => KeptData(p, v) = dir[p])
      /\ (v.id = None => KeptData(p, v) = None)
  BY DEF HandleMemberJoin, KeptData
<1>3. None \notin Ids
  BY NoneIsNoId
<1>4. CASE JoinStep(p, v) = "wait"
  <2>1. v.id \in Ids /\ dir[p] # None
    BY <1>4, JoinStepType DEF Typed, DirOK
  <2>2. pc' = [pc EXCEPT ![p] = "wait"] /\ etcd' = [etcd EXCEPT ![p] = IF @ = "off" THEN "boot" ELSE @]
    BY <1>4 DEF HandleMemberJoin, WaitExit, Goto, StartEtcd
  <2>3. pc'[p] = "wait" /\ etcd'[p] \in {"boot", "term"} /\ dir'[p] = dir[p] /\ env'[p] = env[p]
    BY <1>1, <1>2, <1>3, <2>1, <2>2 DEF Typed
  <2>4. OnlyAt(p)
    BY <1>2, <2>2 DEF OnlyAt, Typed
  <2> QED BY <1>1, <2>1, <2>3, <2>4 DEF Good, Idle, NewEnv, Unwatched, PromotesData, UpHasData,
      Watched, Watching, BareHasDir, IdleStates
<1>5. CASE JoinStep(p, v) # "wait"
  <2>1. \/ JoinStep(p, v) \in {"add", "removeSelf"}
        \/ JoinStep(p, v) = "promoteFirst" /\ v.id \in Ids /\ dir[p] # None
    BY <1>5, JoinStepType DEF Typed, DirOK
  <2>2. pc' = [pc EXCEPT ![p] = JoinStep(p, v)] /\ etcd' = etcd
    BY <1>5 DEF HandleMemberJoin, Goto
  <2>3. pc'[p] = JoinStep(p, v) /\ etcd'[p] = etcd[p] /\ dir'[p] \in {None, dir[p]} /\ env'[p] = env[p]
    BY <1>2, <2>2 DEF Typed
  <2>4. JoinStep(p, v) = "promoteFirst" => dir'[p] # None
    BY <1>2, <1>3, <2>1 DEF Typed
  <2>5. OnlyAt(p)
    BY <1>2, <2>2 DEF OnlyAt, Typed
  <2>6. Partial # None
    BY DirAssumption
  <2> QED BY <1>1, <2>1, <2>3, <2>4, <2>5, <2>6
      DEF Good, Idle, NewEnv, Unwatched, PromotesData, UpHasData,
      Watched, Watching, BareHasDir, IdleStates
<1> QED BY <1>4, <1>5

\* Back to the top of the loop, where no etcd of this iteration runs.
LEMMA LoopControl ==
  ASSUME Typed, Control, NEW p \in Pods, Loop(p), pc[p] \in IdleStates,
         UNCHANGED <<env, etcd>>, UNCHANGED dir \/ dir' = [dir EXCEPT ![p] = None]
  PROVE  OnlyAt(p) /\ Good(p)'
BY DirAssumption
DEF Typed, Control, Good, Idle, NewEnv, Unwatched, PromotesData, UpHasData,
      Watched, Watching, BareHasDir, IdleStates, OnlyAt, Loop

\* Stopping a container ends its etcd and its environment.
LEMMA StopControl ==
  ASSUME Typed, Control, NEW p \in Pods, Stop(p), UNCHANGED dir \/ dir' = [dir EXCEPT ![p] = None]
  PROVE  OnlyAt(p) /\ Good(p)'
BY DEF Typed, Good, Idle, NewEnv, Unwatched, PromotesData, UpHasData,
      Watched, Watching, BareHasDir, IdleStates, OnlyAt, Stop, NoEnv

\* discover: the decision after the probes, and pod-0's removal of its data.
LEMMA DiscoverControl ==
  ASSUME Typed, Control, NEW p \in Pods, Discover(p) PROVE OnlyAt(p) /\ Good(p)'
<1>1. Good(p)
  BY DEF Control
<1>2. CASE \E Q \in ProbeSets : Probe(p, Q)
  BY <1>1, <1>2 DEF Probe, Typed, OnlyAt, Good, Idle, NewEnv, Unwatched, PromotesData, UpHasData,
      Watched, Watching, BareHasDir
<1>3. CASE RetryNotReady(p) \/ WaitForPod0(p)
  BY <1>3, LoopControl DEF RetryNotReady, WaitForPod0, NothingAnswers, Discovered, IdleStates
<1>4. CASE InitializeNewCluster(p)
  <2>1. etcd[p] \in {"off", "term"} /\ p = Pod0
    BY <1>1, <1>4 DEF InitializeNewCluster, NothingAnswers, Discovered, Good, Idle, IdleStates
  <2>2. /\ pc'[p] = "check" \/ (pc'[p] = "wait" /\ "tls" \in Faults)
        /\ etcd'[p] \in {"boot", "term"} /\ OnlyAt(p)
        /\ env'[p] = [state |-> "new", peers |-> {}] /\ dir'[p] = None
    BY <1>4, <2>1 DEF InitializeNewCluster, Goto, StartEtcd, Fault, Typed, OnlyAt
  <2> QED BY <2>1, <2>2 DEF Good, Idle, NewEnv, Unwatched, PromotesData, UpHasData,
      Watched, Watching, BareHasDir, IdleStates
<1>5. CASE NoIPFiles(p)
  BY <1>1, <1>5 DEF NoIPFiles, Typed, OnlyAt, Good, Idle, NewEnv, Unwatched, PromotesData, UpHasData,
      Watched, Watching, BareHasDir
<1> QED BY <1>2, <1>3, <1>4, <1>5 DEF Discover

\* JoinExistingCluster: the data is removed, and etcd started, where it may be.
LEMMA JoinControl ==
  ASSUME TypesOK, Typed, Control, NEW p \in Pods, Join(p) PROVE OnlyAt(p) /\ Good(p)'
<1>1. Good(p)
  BY DEF Control
<1>2. CASE MemberList(p)
  <2>1. PICK c \in Reachable(p) : \E v \in ProcessMembers(p, c) :
          IF v.doomed # {}
          THEN Goto(p, "remove") /\ view' = [view EXCEPT ![p] = v] /\ UNCHANGED <<ready, etcd, dir>>
          ELSE HandleMemberJoin(p, v)
    BY <1>2 DEF MemberList
  <2>2. PICK v \in ProcessMembers(p, c) :
          IF v.doomed # {}
          THEN Goto(p, "remove") /\ view' = [view EXCEPT ![p] = v] /\ UNCHANGED <<ready, etcd, dir>>
          ELSE HandleMemberJoin(p, v)
    BY <2>1
  <2>3. v \in View
    BY ProcessMembersType DEF TypesOK, Reachable
  <2>4. pc[p] = "discover" /\ UNCHANGED env
    BY <1>2 DEF MemberList, Discovered
  <2>5. CASE v.doomed = {}
    BY <2>2, <2>3, <2>4, <2>5, HandleMemberJoinControl
  <2>6. CASE v.doomed # {}
    <3>1. pc' = [pc EXCEPT ![p] = "remove"] /\ UNCHANGED <<etcd, dir>>
      BY <2>2, <2>6 DEF Goto
    <3> QED BY <1>1, <2>4, <3>1
        DEF Typed, OnlyAt, Good, Idle, NewEnv, Unwatched, PromotesData, UpHasData,
      Watched, Watching, BareHasDir, IdleStates
  <2> QED BY <2>5, <2>6
<1>3. CASE MemberListFails(p)
  BY <1>3, LoopControl DEF MemberListFails, Discovered, IdleStates
<1>4. ASSUME NEW id \in Ids, RemoveDeadMember(p, id) PROVE OnlyAt(p) /\ Good(p)'
  <2> DEFINE v == [view[p] EXCEPT !.doomed = @ \ {id}]
  <2>1. v \in View
    BY DEF TypesOK, LoopOK, View
  <2>2. pc[p] = "remove" /\ UNCHANGED env
    BY <1>4 DEF RemoveDeadMember
  <2>3. UNCHANGED <<pc, etcd, dir>> \/ HandleMemberJoin(p, v)
    BY <1>4 DEF RemoveDeadMember
  <2> HIDE DEF v
  <2>4. CASE UNCHANGED <<pc, etcd, dir>>
    BY <1>1, <2>2, <2>4 DEF OnlyAt, Good, Idle, NewEnv, Unwatched, PromotesData, UpHasData,
      Watched, Watching, BareHasDir
  <2>5. CASE HandleMemberJoin(p, v)
    BY <2>1, <2>2, <2>5, HandleMemberJoinControl
  <2> QED BY <2>3, <2>4, <2>5
<1>5. CASE RemoveSelf(p)
  BY <1>1, <1>5 DEF RemoveSelf, Goto, Typed, OnlyAt, Good, Idle, NewEnv, Unwatched, PromotesData, UpHasData,
      Watched, Watching, BareHasDir, IdleStates
<1>6. CASE RemoveSelfFails(p)
  BY <1>6, LoopControl DEF RemoveSelfFails, IdleStates
<1>7. CASE AddMemberAndStart(p)
  <2>1. PICK c \in Reachable(p) : env' = [env EXCEPT ![p] = BuildClusterConfig(p, members'[c])]
    BY <1>7 DEF AddMemberAndStart
  <2>2. env'[p].state \notin {"new", "unset"} /\ \A q \in Pods \ {p} : env'[q] = env[q]
    BY <2>1 DEF Typed, BuildClusterConfig
  <2>3. pc[p] = "add" /\ StartEtcd(p) /\ UNCHANGED dir
    BY <1>7 DEF AddMemberAndStart
  <2>4. pc' = [pc EXCEPT ![p] = "promote"] \/ pc' = [pc EXCEPT ![p] = "wait"]
    BY <1>7 DEF AddMemberAndStart, Goto, WaitExit
  <2>5. etcd[p] \in {"off", "term"}
    BY <1>1, <2>3 DEF Good, Idle, IdleStates
  <2>6. etcd'[p] \in {"boot", "term"} /\ \A q \in Pods \ {p} : etcd'[q] = etcd[q]
    BY <2>3, <2>5 DEF StartEtcd, Typed
  <2>7. pc'[p] \in {"promote", "wait"} /\ \A q \in Pods \ {p} : pc'[q] = pc[q]
    BY <2>4 DEF Typed
  <2> QED BY <2>2, <2>3, <2>6, <2>7 DEF OnlyAt, Good, Idle, NewEnv, Unwatched, PromotesData, UpHasData,
      Watched, Watching, BareHasDir, IdleStates
<1>8. CASE AddMemberFails(p)
  BY <1>8, LoopControl DEF AddMemberFails, IdleStates
<1>9. CASE PromoteStarted(p)
  BY <1>1, <1>9 DEF PromoteStarted, WaitExit, Goto, Typed, OnlyAt, Good, Idle, NewEnv, Unwatched, PromotesData, UpHasData,
      Watched, Watching, BareHasDir, IdleStates
<1>10. CASE PromoteStartedFails(p)
  BY <1>1, <1>10 DEF PromoteStartedFails, TerminateEtcd, Loop, Typed, OnlyAt, Good, Idle, NewEnv, Unwatched, PromotesData, UpHasData,
      Watched, Watching, BareHasDir, IdleStates
<1>11. CASE PromoteExisting(p)
  BY <1>1, <1>11 DEF PromoteExisting, StartEtcd, WaitExit, Goto, Typed, OnlyAt, Good, Idle, NewEnv, Unwatched, PromotesData, UpHasData,
      Watched, Watching, BareHasDir, IdleStates
<1>12. CASE PromoteExistingFails(p)
  BY <1>1, <1>12 DEF PromoteExistingFails, Goto, Typed, OnlyAt, Good, Idle, NewEnv, Unwatched, PromotesData, UpHasData,
      Watched, Watching, BareHasDir, IdleStates
<1>13. CASE CleanUp(p)
  BY <1>13, LoopControl DEF CleanUp, IdleStates
<1> QED
  BY <1>2, <1>3, <1>4, <1>5, <1>6, <1>7, <1>8, <1>9, <1>10, <1>11, <1>12, <1>13 DEF Join

\* The checker and the process's end leave the watched etcd and its data alone.
LEMMA WaitControl ==
  ASSUME TypesOK, Typed, Control, NEW p \in Pods, Wait(p) PROVE OnlyAt(p) /\ Good(p)'
<1> USE DEF Good, Idle, NewEnv, Unwatched, PromotesData, UpHasData, Watched, BareHasDir
<1>1. Good(p)
  BY DEF Control
<1>2. CASE \E q \in Pods : BrainSplitDetected(p, q)
  <2>1. PICK q \in Pods : BrainSplitDetected(p, q)
    BY <1>2
  <2>2. /\ pc[p] \in Watching \ {"check"} /\ pc'[p] = "split" /\ OnlyAt(p)
        /\ etcd'[p] \in {"off", "term"} /\ UNCHANGED <<env, dir>>
    BY <2>1 DEF BrainSplitDetected, Compares, TerminateEtcd, Goto, Typed, OnlyAt, Watching
  <2> QED BY <1>1, <2>2, DirAssumption DEF Watching
<1>3. CASE BrainSplitVerified(p)
  <2>1. /\ pc[p] \in Watching \ {"check"} /\ pc'[p] = "wait" /\ OnlyAt(p)
        /\ UNCHANGED <<env, dir, etcd>>
    BY <1>3 DEF BrainSplitVerified, Verified, Compared, Goto, Typed, OnlyAt, Watching
  <2> QED BY <1>1, <2>1, DirAssumption DEF Watching, IdleStates
<1>4. CASE SplitEtcdGone(p)
  BY <1>4, LoopControl DEF SplitEtcdGone, IdleStates
<1>5. CASE ProcessExit(p)
  BY <1>5, StopControl DEF ProcessExit
<1>6. CASE Looks(p)
  <2>1. UNCHANGED <<env, dir, etcd>> /\ pc[p] \in Watching
    BY <1>6, LooksOnly
  <2>2. PICK l \in Watching : pc' = [pc EXCEPT ![p] = l]
    BY <1>6, LooksOnly
  <2>3. pc'[p] \in Watching /\ OnlyAt(p)
    BY <2>1, <2>2 DEF OnlyAt, Typed
  <2>4. pc'[p] # "check" => dir[p] \in Identity
    BY <1>1, <1>6, <2>3 DEF Looks, CheckLocal, LocalReady, CollectOthers, CompareMatches, CompareFails,
                            Compares, CheckInconclusive, Goto, Typed, Watching
  <2> QED BY <1>1, <2>1, <2>3, <2>4 DEF Watching, IdleStates
<1> QED BY <1>2, <1>3, <1>4, <1>5, <1>6, WaitSteps

\* The etcd process: only one that was started as new bootstraps.
LEMMA EtcdControl ==
  ASSUME TypesOK, Typed, Control, NEW p \in Pods, Etcd(p) PROVE OnlyAt(p) /\ Good(p)'
<1>1. Good(p) /\ UNCHANGED <<pc, env>>
  BY DEF Control, Etcd, EtcdCreatesDir, EtcdBootstraps, EtcdJoins, EtcdBootFails, EtcdRestarts,
         EtcdStops, EtcdLearnsRemoved, loopVars
<1>2. CASE EtcdCreatesDir(p)
  BY <1>1, <1>2, DirAssumption DEF EtcdCreatesDir, Typed, OnlyAt, Good, Idle, NewEnv, Unwatched, PromotesData, UpHasData,
      Watched, Watching, BareHasDir,
                    IdleStates
<1>3. CASE EtcdBootstraps(p) \/ EtcdJoins(p)
  <2>1. \E d \in Identity : dir' = [dir EXCEPT ![p] = d]
    <3>1. CASE EtcdBootstraps(p)
      BY <3>1 DEF EtcdBootstraps, Identity
    <3>2. CASE EtcdJoins(p)
      <4>1. PICK c \in Clusters : \E m \in members[c] :
              dir' = [dir EXCEPT ![p] = [cluster |-> c, id |-> m.id]]
        BY <3>2 DEF EtcdJoins
      <4>2. \A m \in members[c] : m.id \in Ids
        BY DEF TypesOK, MembersOK, Member
      <4> QED BY <4>1, <4>2 DEF Identity
    <3> QED BY <1>3, <3>1, <3>2
  <2>2. etcd[p] = "boot" /\ etcd' = [etcd EXCEPT ![p] = "up"]
    BY <1>3 DEF EtcdBootstraps, EtcdJoins
  <2> QED BY <1>1, <2>1, <2>2, DirAssumption
      DEF Typed, OnlyAt, Good, Idle, NewEnv, Unwatched, PromotesData, UpHasData,
      Watched, Watching, BareHasDir, IdleStates
<1>4. CASE EtcdBootFails(p) \/ EtcdRestarts(p) \/ EtcdStops(p) \/ EtcdLearnsRemoved(p)
  BY <1>1, <1>4 DEF EtcdBootFails, EtcdRestarts, EtcdStops, EtcdLearnsRemoved, Typed, OnlyAt, Good,
                    Idle, NewEnv, Unwatched, PromotesData, UpHasData,
      Watched, Watching, BareHasDir, IdleStates
<1> QED BY <1>2, <1>3, <1>4 DEF Etcd

\* A crash, a restart and a lost answer keep the control invariant.
LEMMA OtherControl ==
  ASSUME Typed, Control, NEW p \in Pods, Restart(p) \/ PromoteLosesAnswer(p) \/ Crash(p)
  PROVE  OnlyAt(p) /\ Good(p)'
<1>1. Good(p)
  BY DEF Control
<1>2. CASE Restart(p)
  BY <1>2, LoopControl DEF Restart, IdleStates
<1>3. CASE PromoteLosesAnswer(p)
  BY <1>1, <1>3 DEF PromoteLosesAnswer, loopVars, OnlyAt, Good, Idle, NewEnv, Unwatched, PromotesData, UpHasData,
      Watched, Watching, BareHasDir
<1>4. CASE Crash(p)
  BY <1>4, StopControl DEF Crash
<1> QED BY <1>2, <1>3, <1>4

\* The inductive invariant: TypesOK is TypeOK and Finite.
IInv == TypesOK /\ Control

\* It holds of every behaviour of etcdcluster.
LEMMA Inductive == Spec => []IInv
<1>1. Init => IInv
  <2> SUFFICES ASSUME Init PROVE Control
    BY TypeInit DEF IInv
  <2> QED BY DEF Init, Control, Good, Idle, NewEnv, Unwatched, PromotesData, UpHasData,
      Watched, Watching, BareHasDir, NoEnv
<1>2. IInv /\ [Next]_vars => IInv'
  <2> SUFFICES ASSUME TypesOK, Control, [Next]_vars PROVE Control'
    BY TypeStep DEF IInv
  <2>1. Typed
    BY DEF TypesOK, Typed, LoopOK, EnvOK, EtcdOK, DirOK
  <2>2. ASSUME NEW p \in Pods, Step(p) \/ PromoteLosesAnswer(p) \/ Crash(p) PROVE Control'
    <3>1. OnlyAt(p) /\ Good(p)'
      BY <2>1, <2>2, DiscoverControl, JoinControl, WaitControl, EtcdControl, OtherControl DEF Step
    <3> QED BY <3>1, Frame
  <2>3. CASE UNCHANGED vars
    BY <2>3 DEF vars, loopVars, Control, Good, Idle, NewEnv, Unwatched, PromotesData, UpHasData,
      Watched, Watching, BareHasDir
  <2> QED BY <2>2, <2>3 DEF Next
<1> QED BY <1>1, <1>2, PTL DEF Spec

\* No interleaving of the loop with an etcd that still terminates, no crash and no
\* lost answer makes etcdcluster remove the directory a running etcd works on
\* (manager.go:101-105, 214-217, 236 against 359-365 and main.go:512-522).
THEOREM NoDataLossUnderEtcd == Spec => []RunningHasData
<1>1. IInv => RunningHasData
  BY DEF IInv, Control, Good, UpHasData, RunningHasData
<1> QED BY <1>1, Inductive, PTL

\* Whoever is about to found a cluster is a pod-0 that decided so, in the environment it
\* set then, and that has not been back in its loop since; or its container restarted and
\* found a directory without a WAL.  The ETCD_INITIAL_CLUSTER_STATE=new that
\* InitializeNewCluster leaves in the process environment (manager.go:89) never reaches an
\* etcd that a later iteration starts, and no etcd without a directory founds a cluster in
\* an environment that nobody set (manager.go:208-209, 238).
THEOREM FoundsKnowingly == Spec => []BootstrapWatched
<1>1. IInv => BootstrapWatched
  <2> SUFFICES ASSUME TypesOK, Control, NEW p \in Pods, Founding(p)
               PROVE  \/ /\ p = Pod0 /\ env[p] = [state |-> "new", peers |-> {}]
                         /\ pc[p] \in Watching \/ ("tls" \in Faults /\ pc[p] = "wait")
                      \/ env[p].state = "unset" /\ dir[p] = Partial
    BY DEF IInv, BootstrapWatched
  <2>1. dir[p] \in {None, Partial} /\ env[p] \in Env /\ Good(p)
    BY DEF TypesOK, DirOK, EnvOK, Control, Founding
  <2>2. CASE env[p].state = "new"
    <3>1. p = Pod0 /\ env[p].peers = {} /\ (pc[p] \in Watching \/ Unwatched(p))
      BY <2>1, <2>2 DEF Good, NewEnv, Founding
    <3>2. env[p] = [state |-> "new", peers |-> {}]
      BY <2>1, <2>2, <3>1 DEF Env
    <3> QED BY <3>1, <3>2 DEF Unwatched
  <2>3. CASE env[p].state = "unset"
    BY <2>1, <2>3 DEF Good, BareHasDir, Founding
  <2> QED BY <2>2, <2>3 DEF Founding, Founds
<1> QED BY <1>1, Inductive, PTL

-----------------------------------------------------------------------------
(* What a step does to the member lists *)

\* p has forgotten the member list, or still knows of itself what it knew.
Forgets(p) ==
  view'[p].id \in {view[p].id, None} /\ view'[p].votes \in {view[p].votes, 0}

\* p's data stays as it is, is removed, or etcd has created an empty directory.
NoNewData(p) == dir'[p] \in {dir[p], None, Partial}

Quiet(p) == UNCHANGED members /\ Forgets(p) /\ NoNewData(p)

Lists(p) ==
  /\ pc[p] = "discover" /\ UNCHANGED members /\ NoNewData(p)
  /\ \E c \in Reachable(p) : \E v \in ProcessMembers(p, c) : view'[p] \in {v, NoView}

Removes(p, c, m) ==
  /\ \/ pc[p] = "remove" /\ m.id \in view[p].doomed
     \/ pc[p] \in {"removeSelf", "cleanUp"} /\ m.id = view[p].id
  /\ RemoveOk(c, m) /\ members' = Removed(c, m)
  /\ Forgets(p) /\ NoNewData(p)

Adds(p, c, i) ==
  /\ pc[p] = "add" /\ MemberAdd(p, c, i)
  /\ view'[p] = [view[p] EXCEPT !.id = i] \/ Forgets(p)
  /\ dir'[p] = dir[p]

Promotes(p, c, m) ==
  /\ pc[p] \in {"promote", "promoteFirst"} /\ m.id = view[p].id
  /\ PromoteOk(c, m) /\ members' = Promoted(c, m)
  /\ Forgets(p) /\ dir'[p] = dir[p]

\* What a step of p does to the member lists, to p's data and to p's view.
Effect(p) ==
  \/ Quiet(p) \/ Lists(p)
  \/ (EtcdBootstraps(p) \/ EtcdJoins(p)) /\ view'[p] = view[p]
  \/ \E c \in Reachable(p) : \E m \in members[c] : Removes(p, c, m) \/ Promotes(p, c, m)
  \/ \E c \in Reachable(p), i \in Ids : Adds(p, c, i)

\* A step of p leaves what the other pods know alone.
ViewOnlyAt(p) == \A q \in Pods \ {p} : view'[q] = view[q]

\* Back to the top of the loop, and at its end, the member list is forgotten.
LEMMA LoopForgets ==
  ASSUME LoopOK, NEW p \in Pods, Loop(p) \/ Stop(p) \/ WaitExit(p)
  PROVE  Forgets(p) /\ ViewOnlyAt(p)
BY DEF LoopOK, Loop, Stop, WaitExit, Forgets, ViewOnlyAt, NoView

\* discover: no membership call, and no data but what is removed.
LEMMA DiscoverEffect ==
  ASSUME TypesOK, NEW p \in Pods, Discover(p) PROVE Quiet(p) /\ ViewOnlyAt(p)
<1>1. CASE \E Q \in ProbeSets : Probe(p, Q)
  BY <1>1 DEF Probe, Quiet, Forgets, NoNewData, ViewOnlyAt
<1>2. CASE RetryNotReady(p) \/ WaitForPod0(p)
  BY <1>2, LoopForgets DEF RetryNotReady, WaitForPod0, Quiet, NoNewData, TypesOK
<1>3. CASE InitializeNewCluster(p)
  BY <1>3 DEF InitializeNewCluster, Quiet, Forgets, NoNewData, ViewOnlyAt, TypesOK, DirOK
<1>4. CASE NoIPFiles(p)
  BY <1>4 DEF NoIPFiles, Quiet, Forgets, NoNewData, ViewOnlyAt
<1> QED BY <1>1, <1>2, <1>3, <1>4 DEF Discover

\* handleMemberJoin keeps or removes p's data; what it knows is v or nothing.
LEMMA HandleMemberJoinEffect ==
  ASSUME TypesOK, NEW p \in Pods, NEW v, HandleMemberJoin(p, v)
  PROVE  NoNewData(p) /\ ViewOnlyAt(p) /\ view'[p] \in {v, NoView}
<1>1. NoNewData(p)
  BY DEF HandleMemberJoin, KeptData, NoNewData, TypesOK, DirOK
<1>2. CASE JoinStep(p, v) = "wait"
  BY <1>1, <1>2 DEF HandleMemberJoin, WaitExit, ViewOnlyAt, TypesOK, LoopOK
<1>3. CASE JoinStep(p, v) # "wait"
  BY <1>1, <1>3 DEF HandleMemberJoin, ViewOnlyAt, TypesOK, LoopOK
<1> QED BY <1>2, <1>3

\* MemberRemove, refused or not, in an iteration that goes on or ends.
LEMMA RemoveEffect ==
  ASSUME NEW p \in Pods, NEW id, MemberRemove(p, id) \/ UNCHANGED members,
         \/ pc[p] = "remove" /\ id \in view[p].doomed
         \/ pc[p] \in {"removeSelf", "cleanUp"} /\ id = view[p].id,
         Forgets(p), NoNewData(p)
  PROVE  Effect(p)
<1>1. CASE MemberRemove(p, id)
  BY <1>1 DEF MemberRemove, Effect, Removes
<1>2. CASE UNCHANGED members
  BY <1>2 DEF Effect, Quiet
<1> QED BY <1>1, <1>2

\* MemberPromote, of which the answer is lost or not.
LEMMA PromoteEffect ==
  ASSUME NEW p \in Pods, MemberPromote(p), pc[p] \in {"promote", "promoteFirst"}, Forgets(p),
         dir'[p] = dir[p]
  PROVE  Effect(p)
BY DEF MemberPromote, Effect, Promotes

\* JoinExistingCluster: one membership call at most in every step.
LEMMA JoinEffect ==
  ASSUME TypesOK, NEW p \in Pods, Join(p) PROVE Effect(p) /\ ViewOnlyAt(p)
<1> USE DEF TypesOK
<1>1. CASE MemberList(p)
  <2>1. PICK c \in Reachable(p) : \E v \in ProcessMembers(p, c) :
          IF v.doomed # {}
          THEN Goto(p, "remove") /\ view' = [view EXCEPT ![p] = v] /\ UNCHANGED <<ready, etcd, dir>>
          ELSE HandleMemberJoin(p, v)
    BY <1>1 DEF MemberList
  <2>2. PICK v \in ProcessMembers(p, c) :
          IF v.doomed # {}
          THEN Goto(p, "remove") /\ view' = [view EXCEPT ![p] = v] /\ UNCHANGED <<ready, etcd, dir>>
          ELSE HandleMemberJoin(p, v)
    BY <2>1
  <2>3. NoNewData(p) /\ ViewOnlyAt(p) /\ view'[p] \in {v, NoView}
    BY <2>2, HandleMemberJoinEffect DEF NoNewData, ViewOnlyAt, LoopOK
  <2> QED BY <1>1, <2>2, <2>3 DEF MemberList, Discovered, Lists, Effect
<1>2. CASE MemberListFails(p)
  BY <1>2, LoopForgets DEF MemberListFails, CallFails, Effect, Quiet, NoNewData
<1>3. ASSUME NEW id \in Ids, RemoveDeadMember(p, id) PROVE Effect(p) /\ ViewOnlyAt(p)
  <2> DEFINE v == [view[p] EXCEPT !.doomed = @ \ {id}]
  <2>1. v.id = view[p].id /\ v.votes = view[p].votes
    BY DEF LoopOK, View
  <2>2. NoNewData(p) /\ ViewOnlyAt(p) /\ view'[p] \in {v, NoView}
    <3>1. CASE HandleMemberJoin(p, v)
      BY <3>1, HandleMemberJoinEffect
    <3>2. CASE view' = [view EXCEPT ![p] = v] /\ UNCHANGED dir
      BY <3>2 DEF NoNewData, ViewOnlyAt, LoopOK
    <3> QED BY <1>3, <3>1, <3>2 DEF RemoveDeadMember
  <2>3. Forgets(p)
    <3> HIDE DEF v
    <3> QED BY <2>1, <2>2 DEF Forgets, NoView
  <2>4. pc[p] = "remove" /\ id \in view[p].doomed /\ (MemberRemove(p, id) \/ UNCHANGED members)
    BY <1>3 DEF RemoveDeadMember, CallFails
  <2> QED BY <2>2, <2>3, <2>4, RemoveEffect
<1>4. CASE RemoveSelf(p)
  <2>1. Forgets(p) /\ NoNewData(p) /\ ViewOnlyAt(p) /\ pc[p] = "removeSelf" /\ MemberRemove(p, view[p].id)
    BY <1>4 DEF RemoveSelf, Forgets, NoNewData, ViewOnlyAt
  <2> QED BY <2>1, RemoveEffect
<1>5. CASE RemoveSelfFails(p)
  <2>1. Forgets(p) /\ NoNewData(p) /\ ViewOnlyAt(p) /\ pc[p] = "removeSelf"
    BY <1>5, LoopForgets DEF RemoveSelfFails, NoNewData
  <2>2. MemberRemove(p, view[p].id) \/ UNCHANGED members
    BY <1>5 DEF RemoveSelfFails, CallFails
  <2> QED BY <2>1, <2>2, RemoveEffect
<1>6. CASE AddMemberAndStart(p)
  <2>1. PICK c \in Reachable(p), i \in Ids :
          /\ MemberAdd(p, c, i)
          /\ IF AsLearner(p)
             THEN Goto(p, "promote") /\ view' = [view EXCEPT ![p].id = i] /\ UNCHANGED ready
             ELSE WaitExit(p)
    BY <1>6 DEF AddMemberAndStart
  <2>2. pc[p] = "add" /\ dir'[p] = dir[p]
    BY <1>6 DEF AddMemberAndStart
  <2>3. CASE AsLearner(p)
    <3>1. view'[p] = [view[p] EXCEPT !.id = i] /\ ViewOnlyAt(p)
      BY <2>1, <2>3 DEF LoopOK, ViewOnlyAt
    <3> QED BY <2>1, <2>2, <3>1 DEF Adds, Effect
  <2>4. CASE ~AsLearner(p)
    <3>1. Forgets(p) /\ ViewOnlyAt(p)
      BY <2>1, <2>4, LoopForgets
    <3> QED BY <2>1, <2>2, <3>1 DEF Adds, Effect
  <2> QED BY <2>3, <2>4
<1>7. CASE AddMemberFails(p)
  <2>1. Forgets(p) /\ ViewOnlyAt(p) /\ pc[p] = "add" /\ dir'[p] = dir[p]
    BY <1>7, LoopForgets DEF AddMemberFails
  <2>2. CASE UNCHANGED members
    BY <2>1, <2>2 DEF Effect, Quiet, NoNewData
  <2>3. CASE \E c \in Reachable(p), i \in Ids : MemberAdd(p, c, i)
    BY <2>1, <2>3 DEF Effect, Adds
  <2> QED BY <1>7, <2>2, <2>3 DEF AddMemberFails, CallFails
<1>8. CASE PromoteStarted(p) \/ PromoteExisting(p)
  <2>1. Forgets(p) /\ ViewOnlyAt(p) /\ MemberPromote(p) /\ pc[p] \in {"promote", "promoteFirst"}
        /\ dir'[p] = dir[p]
    BY <1>8, LoopForgets DEF PromoteStarted, PromoteExisting
  <2> QED BY <2>1, PromoteEffect
<1>9. CASE PromoteStartedFails(p)
  BY <1>9, LoopForgets DEF PromoteStartedFails, PromoteGivesUp, CallFails, Effect, Quiet, NoNewData
<1>10. CASE PromoteExistingFails(p)
  BY <1>10 DEF PromoteExistingFails, PromoteGivesUp, CallFails, Effect, Quiet, NoNewData, Forgets,
               ViewOnlyAt
<1>11. CASE CleanUp(p)
  <2>1. Forgets(p) /\ ViewOnlyAt(p) /\ NoNewData(p) /\ pc[p] = "cleanUp"
    BY <1>11, LoopForgets DEF CleanUp, NoNewData, DirOK
  <2>2. MemberRemove(p, view[p].id) \/ UNCHANGED members
    BY <1>11 DEF CleanUp, CallFails
  <2> QED BY <2>1, <2>2, RemoveEffect
<1> QED BY <1>1, <1>2, <1>3, <1>4, <1>5, <1>6, <1>7, <1>8, <1>9, <1>10, <1>11 DEF Join

\* The etcd process: it changes a member list when it bootstraps or joins.
LEMMA EtcdEffect ==
  ASSUME TypesOK, NEW p \in Pods, Etcd(p) PROVE Effect(p) /\ ViewOnlyAt(p)
<1>1. view' = view
  BY DEF Etcd, EtcdCreatesDir, EtcdBootstraps, EtcdJoins, EtcdBootFails, EtcdRestarts,
         EtcdStops, EtcdLearnsRemoved, loopVars
<1>2. CASE EtcdBootstraps(p) \/ EtcdJoins(p)
  BY <1>1, <1>2 DEF Effect, ViewOnlyAt
<1>3. CASE EtcdCreatesDir(p) \/ EtcdBootFails(p) \/ EtcdRestarts(p) \/ EtcdStops(p) \/ EtcdLearnsRemoved(p)
  BY <1>1, <1>3
  DEF EtcdCreatesDir, EtcdBootFails, EtcdRestarts, EtcdStops, EtcdLearnsRemoved, Effect, Quiet,
      Forgets, NoNewData, ViewOnlyAt, TypesOK, DirOK
<1> QED BY <1>2, <1>3 DEF Etcd

\* Every step of every pod has one of these effects.
LEMMA StepEffect ==
  ASSUME TypesOK, NEW p \in Pods, Step(p) \/ PromoteLosesAnswer(p) \/ Crash(p)
  PROVE  Effect(p) /\ ViewOnlyAt(p)
<1>1. CASE Discover(p)
  BY <1>1, DiscoverEffect DEF Effect
<1>2. CASE Wait(p)
  <2>1. UNCHANGED <<members, dir>> /\ (UNCHANGED view \/ Loop(p) \/ Stop(p))
    BY <1>2, WaitSteps, LooksOnly DEF BrainSplitDetected, BrainSplitVerified, SplitEtcdGone, ProcessExit
  <2>2. Forgets(p) /\ ViewOnlyAt(p)
    BY <2>1, LoopForgets DEF Forgets, ViewOnlyAt, TypesOK
  <2> QED BY <2>1, <2>2 DEF Effect, Quiet, NoNewData
<1>3. CASE Restart(p) \/ Crash(p)
  BY <1>3, LoopForgets DEF Restart, Crash, Effect, Quiet, NoNewData, TypesOK, DirOK
<1>4. CASE PromoteLosesAnswer(p)
  <2>1. Forgets(p) /\ ViewOnlyAt(p) /\ MemberPromote(p) /\ pc[p] \in {"promote", "promoteFirst"}
        /\ dir'[p] = dir[p]
    BY <1>4 DEF PromoteLosesAnswer, loopVars, Forgets, ViewOnlyAt
  <2> QED BY <2>1, PromoteEffect
<1> QED BY <1>1, <1>2, <1>3, <1>4, JoinEffect, EtcdEffect DEF Step

-----------------------------------------------------------------------------
(* Whose member is whose *)

OwnName    == \A c \in Clusters : \A m \in members[c] : m.name \in {None, m.url}
UniqueIds  == \A c, d \in Clusters : \A m \in members[c], n \in members[d] :
                m.id = n.id => c = d /\ m = n
UniqueUrls == \A c \in Clusters : \A m, n \in members[c] : m.url = n.url => m = n

\* The member that processMembers took for this pod is this pod's.
ViewIsMine == \A p \in Pods, c \in Clusters : \A m \in members[c] : m.id = view[p].id => m.url = p

\* A data directory is of the cluster that lists its member, as this pod's.
DirIsMine == \A p \in Pods, c \in Clusters : \A m \in members[c] :
               dir[p] \in Identity /\ m.id = dir[p].id => m.url = p /\ c = dir[p].cluster

Distinct == OwnName /\ UniqueIds /\ UniqueUrls
Owned    == Distinct /\ ViewIsMine /\ DirIsMine

\* No member is new: each was listed before, at the same place.
NoneNew == \A c \in Clusters : \A n \in members'[c] : \E m \in members[c] : m.id = n.id /\ m.url = n.url

\* A new member ID is one that nobody remembers.
LEMMA NewIdIsNew ==
  ASSUME NEW i \in Ids, IsNewId(i)
  PROVE  /\ \A c \in Clusters : \A m \in members[c] : m.id # i
         /\ \A p \in Pods : view[p].id # i /\ (dir[p] \in Identity => dir[p].id # i)
<1>1. i \notin UsedIds
  BY DEF IsNewId
<1>2. ASSUME NEW c \in Clusters, NEW m \in members[c] PROVE m.id # i
  BY <1>1 DEF UsedIds
<1>3. ASSUME NEW p \in Pods PROVE view[p].id # i
  BY <1>1 DEF UsedIds
<1>4. ASSUME NEW p \in Pods, dir[p] \in Identity PROVE dir[p].id # i
  BY <1>1, <1>4 DEF UsedIds
<1> QED BY <1>2, <1>3, <1>4

\* Removing a member makes no new one.
LEMMA RemovedDistinct ==
  ASSUME MembersOK, Distinct, NEW c \in Clusters, NEW m \in members[c], members' = Removed(c, m)
  PROVE  Distinct' /\ NoneNew
<1>1. \A d \in Clusters : members'[d] \subseteq members[d]
  BY DEF MembersOK, Removed
<1> QED BY <1>1 DEF Distinct, OwnName, UniqueIds, UniqueUrls, NoneNew

\* Neither does a member that is promoted, or that etcd gives its name.
LEMMA ReplacedDistinct ==
  ASSUME MembersOK, Distinct, NEW c \in Clusters, NEW m \in members[c], NEW k,
         k.id = m.id, k.url = m.url, k.name \in {m.name, m.url},
         members' = [members EXCEPT ![c] = (@ \ {m}) \cup {k}]
  PROVE  Distinct' /\ NoneNew
<1>1. \A d \in Clusters : members'[d] = IF d = c THEN (members[c] \ {m}) \cup {k} ELSE members[d]
  BY DEF MembersOK
<1>2. NoneNew
  BY <1>1 DEF NoneNew
<1>3. OwnName'
  BY <1>1 DEF Distinct, OwnName
<1>4. \A d \in Clusters : \A n \in members[d] : n.id = m.id => n = m /\ d = c
  BY DEF Distinct, UniqueIds
<1>5. \A n \in members[c] : n.url = m.url => n = m
  BY DEF Distinct, UniqueUrls
<1>6. UniqueUrls'
  <2> SUFFICES ASSUME NEW d \in Clusters, NEW x \in members'[d], NEW y \in members'[d], x.url = y.url
               PROVE  x = y
    BY DEF UniqueUrls
  <2>1. CASE d # c
    BY <1>1, <2>1 DEF Distinct, UniqueUrls
  <2>2. CASE d = c
    <3>1. (x = k \/ x \in members[c] \ {m}) /\ (y = k \/ y \in members[c] \ {m})
      BY <1>1, <2>2
    <3>2. CASE x = k \/ y = k
      BY <1>5, <3>1, <3>2
    <3>3. CASE x # k /\ y # k
      BY <3>1, <3>3 DEF Distinct, UniqueUrls
    <3> QED BY <3>2, <3>3
  <2> QED BY <2>1, <2>2
<1>7. UniqueIds'
  <2> SUFFICES ASSUME NEW d \in Clusters, NEW e \in Clusters, NEW x \in members'[d], NEW y \in members'[e],
                      x.id = y.id
               PROVE  d = e /\ x = y
    BY DEF UniqueIds
  <2>1. (d = c /\ x = k) \/ (x \in members[d] /\ ~(d = c /\ x = m))
    BY <1>1
  <2>2. (e = c /\ y = k) \/ (y \in members[e] /\ ~(e = c /\ y = m))
    BY <1>1
  <2> QED BY <1>4, <2>1, <2>2 DEF Distinct, UniqueIds
<1> QED BY <1>2, <1>3, <1>6, <1>7 DEF Distinct

\* A member that is added under a new ID and new peer URLs is different from all.
LEMMA AddedDistinct ==
  ASSUME MembersOK, Distinct, NEW c \in Clusters, NEW k, NEW M,
         \A d \in Clusters : \A n \in members[d] : n.id # k.id,
         M = {} \/ M = members[c], \A n \in M : n.url # k.url, k.name \in {None, k.url},
         members' = [members EXCEPT ![c] = M \cup {k}]
  PROVE  Distinct'
<1>1. \A d \in Clusters : members'[d] = IF d = c THEN M \cup {k} ELSE members[d]
  BY DEF MembersOK
<1>2. M \subseteq members[c]
  OBVIOUS
<1>3. OwnName'
  BY <1>1, <1>2 DEF Distinct, OwnName
<1>4. UniqueUrls'
  BY <1>1, <1>2 DEF Distinct, UniqueUrls
<1>5. UniqueIds'
  <2> SUFFICES ASSUME NEW d \in Clusters, NEW e \in Clusters, NEW x \in members'[d], NEW y \in members'[e],
                      x.id = y.id
               PROVE  d = e /\ x = y
    BY DEF UniqueIds
  <2>1. (d = c /\ x = k) \/ x \in members[d]
    BY <1>1, <1>2
  <2>2. (e = c /\ y = k) \/ y \in members[e]
    BY <1>1, <1>2
  <2> QED BY <2>1, <2>2 DEF Distinct, UniqueIds
<1> QED BY <1>3, <1>4, <1>5 DEF Distinct

\* Without new members, what pods know of their own stays true.
LEMMA NoneNewOwned ==
  ASSUME Owned, NEW p \in Pods, OnlyAt(p), ViewOnlyAt(p), NoneNew, Distinct',
         \A c \in Clusters : \A m \in members[c] : view'[p].id = m.id => m.url = p,
         \A c \in Clusters : \A m \in members[c] :
           dir'[p] \in Identity /\ dir'[p].id = m.id => m.url = p /\ c = dir'[p].cluster
  PROVE  Owned'
<1>1. ViewIsMine'
  BY DEF NoneNew, ViewOnlyAt, Owned, ViewIsMine
<1>2. DirIsMine'
  BY DEF NoneNew, OnlyAt, Owned, DirIsMine
<1> QED BY <1>1, <1>2 DEF Owned

\* Who forgets, or keeps what it knew, knows nothing wrong.
LEMMA ForgetsOwned ==
  ASSUME MembersOK, Owned, NEW p \in Pods, OnlyAt(p), ViewOnlyAt(p), NoneNew, Distinct',
         view'[p].id \in {view[p].id, None}, NoNewData(p)
  PROVE  Owned'
<1>1. \A c \in Clusters : \A m \in members[c] : m.id # None
  BY NoneIsNoId DEF MembersOK, Member
<1>2. None \notin Identity /\ Partial \notin Identity
  BY DirAssumption
<1> QED BY <1>1, <1>2, NoneNewOwned DEF Owned, ViewIsMine, DirIsMine, NoNewData

\* processMembers takes only members with this pod's name or peer URLs for its own.
LEMMA FoundIsMine ==
  ASSUME MembersOK, OwnName, NEW p \in Pods, NEW c \in Clusters, NEW v \in ProcessMembers(p, c)
  PROVE  /\ v.id = None => \A m \in members[c] : m.url # p
         /\ v.id # None => \E m \in members[c] : m.url = p /\ m.id = v.id /\ m.learner = v.learner
<1> DEFINE found(id, learner) ==
             [id |-> id, learner |-> learner, votes |-> VotingNum(p, c),
              doomed |-> {m.id : m \in Doomed(p, c)}]
<1>1. v \in IF Mine(p, c) = {} THEN {found(None, FALSE)}
                              ELSE {found(m.id, m.learner) : m \in Mine(p, c)}
  BY DEF ProcessMembers
<1>2. \A m \in Mine(p, c) : m \in members[c] /\ m.url = p /\ m.id # None
  BY NoneAssumption, NoneIsNoId DEF Mine, OwnName, MembersOK, Member
<1>3. CASE Mine(p, c) = {}
  <2>1. v.id = None
    BY <1>1, <1>3
  <2> QED BY <1>3, <2>1 DEF Mine
<1>4. CASE Mine(p, c) # {}
  <2>1. PICK m \in Mine(p, c) : v = found(m.id, m.learner)
    BY <1>1, <1>4
  <2>2. v.id = m.id /\ v.learner = m.learner
    BY <2>1
  <2> QED BY <1>2, <2>2
<1> QED BY <1>3, <1>4

\* Every step keeps the members apart and in their pods' hands.
LEMMA OwnedStep ==
  ASSUME TypesOK, Owned, NEW p \in Pods, OnlyAt(p), ViewOnlyAt(p), Effect(p)
  PROVE  Owned'
<1>0. MembersOK /\ Distinct /\ view \in [Pods -> View] /\ dir \in [Pods -> Identity \cup {None, Partial}]
      /\ None \notin Identity /\ Partial \notin Identity
  BY DirAssumption DEF TypesOK, LoopOK, DirOK, Owned
<1>1. CASE UNCHANGED members /\ NoNewData(p) /\ view'[p].id \in {view[p].id, None}
  <2>1. NoneNew /\ Distinct'
    BY <1>0, <1>1 DEF NoneNew, Distinct, OwnName, UniqueIds, UniqueUrls
  <2> QED BY <1>0, <1>1, <2>1, ForgetsOwned
<1>2. CASE Lists(p)
  <2>1. NoneNew /\ Distinct'
    BY <1>0, <1>2 DEF Lists, NoneNew, Distinct, OwnName, UniqueIds, UniqueUrls
  <2>2. PICK c \in Reachable(p) : \E v \in ProcessMembers(p, c) : view'[p] \in {v, NoView}
    BY <1>2 DEF Lists
  <2>3. PICK v \in ProcessMembers(p, c) : view'[p] \in {v, NoView}
    BY <2>2
  <2>4. c \in Clusters
    BY DEF Reachable
  <2>5. CASE view'[p].id = None
    BY <1>0, <1>2, <2>1, <2>5, ForgetsOwned DEF Lists
  <2>6. CASE view'[p].id # None
    <3>1. view'[p] = v
      BY <2>3, <2>6 DEF NoView
    <3>2. PICK m \in members[c] : m.url = p /\ m.id = v.id
      BY <1>0, <2>4, <2>6, <3>1, FoundIsMine DEF Distinct
    <3>3. \A d \in Clusters : \A n \in members[d] : view'[p].id = n.id => n.url = p
      BY <1>0, <2>4, <3>1, <3>2 DEF Distinct, UniqueIds
    <3> QED BY <1>0, <1>2, <2>1, <3>3, NoneNewOwned DEF Lists, NoNewData, Owned, DirIsMine
  <2> QED BY <2>5, <2>6
<1>3. CASE EtcdBootstraps(p) /\ view'[p] = view[p]
  <2>1. PICK c \in Clusters, i \in Ids :
          /\ IsNewId(i)
          /\ members' = [members EXCEPT ![c] =
                           {[id |-> i, url |-> p, name |-> p, learner |-> FALSE]}]
          /\ dir' = [dir EXCEPT ![p] = [cluster |-> c, id |-> i]]
    BY <1>3 DEF EtcdBootstraps
  <2> DEFINE k == [id |-> i, url |-> p, name |-> p, learner |-> FALSE]
  <2>2. k.id = i /\ k.url = p /\ k.name = p /\ members' = [members EXCEPT ![c] = {} \cup {k}]
    BY <2>1
  <2> HIDE DEF k
  <2>3. Distinct'
    <3>1. \A d \in Clusters : \A n \in members[d] : n.id # k.id
      BY <2>1, <2>2, NewIdIsNew
    <3> DEFINE M == {}
    <3>2. (M = {} \/ M = members[c]) /\ (\A n \in M : n.url # k.url) /\ k.name \in {None, k.url}
          /\ members' = [members EXCEPT ![c] = M \cup {k}]
      BY <2>2
    <3> HIDE DEF M
    <3> QED BY <1>0, <3>1, <3>2, AddedDistinct
  <2>4. \A d \in Clusters : \A n \in members'[d] : n \in members[d] \/ (d = c /\ n = k)
    BY <1>0, <2>2 DEF MembersOK
  <2>5. ViewIsMine'
    BY <1>3, <2>1, <2>2, <2>4, NewIdIsNew DEF ViewOnlyAt, Owned, ViewIsMine
  <2>6. DirIsMine'
    <3>1. \A q \in Pods \ {p} : dir'[q] = dir[q]
      BY DEF OnlyAt
    <3>2. dir'[p].id = i /\ dir'[p].cluster = c
      BY <1>0, <2>1
    <3> QED BY <2>1, <2>2, <2>4, <3>1, <3>2, NewIdIsNew DEF Owned, DirIsMine
  <2> QED BY <2>3, <2>5, <2>6 DEF Owned
<1>4. CASE EtcdJoins(p) /\ view'[p] = view[p]
  <2>1. PICK c \in Clusters : \E m \in members[c] :
          /\ m.url = p
          /\ members' = [members EXCEPT ![c] = (@ \ {m}) \cup {[m EXCEPT !.name = p]}]
          /\ dir' = [dir EXCEPT ![p] = [cluster |-> c, id |-> m.id]]
    BY <1>4 DEF EtcdJoins
  <2>2. PICK m \in members[c] :
          /\ m.url = p
          /\ members' = [members EXCEPT ![c] = (@ \ {m}) \cup {[m EXCEPT !.name = p]}]
          /\ dir' = [dir EXCEPT ![p] = [cluster |-> c, id |-> m.id]]
    BY <2>1
  <2> DEFINE k == [m EXCEPT !.name = p]
  <2>3. m \in Member
    BY <1>0 DEF MembersOK
  <2>4. k.id = m.id /\ k.url = m.url /\ k.name = m.url /\ members' = [members EXCEPT ![c] = (@ \ {m}) \cup {k}]
    BY <2>2, <2>3 DEF Member
  <2> HIDE DEF k
  <2>5. Distinct' /\ NoneNew
    BY <1>0, <2>4, ReplacedDistinct
  <2>6. dir'[p].id = m.id /\ dir'[p].cluster = c
    BY <1>0, <2>2
  <2>7. \A d \in Clusters : \A n \in members[d] : dir'[p].id = n.id => n.url = p /\ d = dir'[p].cluster
    <3>1. \A d \in Clusters : \A n \in members[d] : m.id = n.id => c = d /\ m = n
      BY <1>0 DEF Distinct, UniqueIds
    <3>2. m.url = p
      BY <2>2
    <3> QED BY <2>6, <3>1, <3>2
  <2> QED BY <1>4, <2>5, <2>7, NoneNewOwned DEF Owned, ViewIsMine
<1>5. ASSUME NEW c \in Reachable(p), NEW m \in members[c], Removes(p, c, m) PROVE Owned'
  <2>1. c \in Clusters
    BY DEF Reachable
  <2>2. Distinct' /\ NoneNew
    BY <1>0, <1>5, <2>1, RemovedDistinct DEF Removes
  <2> QED BY <1>0, <1>5, <2>2, ForgetsOwned DEF Removes, Forgets
<1>6. ASSUME NEW c \in Reachable(p), NEW m \in members[c], Promotes(p, c, m) PROVE Owned'
  <2> DEFINE k == [m EXCEPT !.learner = FALSE]
  <2>1. c \in Clusters /\ m \in Member
    BY <1>0 DEF Reachable, MembersOK
  <2>2. k.id = m.id /\ k.url = m.url /\ k.name = m.name
    BY <2>1 DEF Member
  <2>3. members' = [members EXCEPT ![c] = (@ \ {m}) \cup {k}]
    BY <1>6 DEF Promotes, Promoted
  <2> HIDE DEF k
  <2>4. Distinct' /\ NoneNew
    BY <1>0, <2>1, <2>2, <2>3, ReplacedDistinct
  <2> QED BY <1>0, <1>6, <2>4, ForgetsOwned DEF Promotes, Forgets, NoNewData
<1>7. ASSUME NEW c \in Reachable(p), NEW i \in Ids, Adds(p, c, i) PROVE Owned'
  <2> DEFINE k == AddedMember(p, i)
  <2>1. c \in Clusters
    BY DEF Reachable
  <2>2. k.id = i /\ k.url = p /\ k.name = None /\ members' = [members EXCEPT ![c] = members[c] \cup {k}]
    BY <1>7 DEF Adds, MemberAdd, AddedMember
  <2>3. IsNewId(i) /\ \A n \in members[c] : n.url # p
    BY <1>7 DEF Adds, MemberAdd, AddOk
  <2> HIDE DEF k
  <2>4. Distinct'
    BY <1>0, <2>1, <2>2, <2>3, NewIdIsNew, AddedDistinct
  <2>5. \A d \in Clusters : \A n \in members'[d] : n \in members[d] \/ (d = c /\ n = k)
    BY <1>0, <2>2 DEF MembersOK
  <2>6. view'[p].id \in {view[p].id, i, None}
    <3>1. view[p] \in View
      BY <1>0
    <3> QED BY <1>7, <3>1 DEF Adds, Forgets, View
  <2>7. \A d \in Clusters : \A n \in members[d] : n.id \in Ids
    BY <1>0 DEF MembersOK, Member
  <2>8. ViewIsMine'
    BY <2>2, <2>3, <2>5, <2>6, <2>7, NewIdIsNew, NoneIsNoId DEF ViewOnlyAt, Owned, ViewIsMine
  <2>9. DirIsMine'
    <3>1. \A q \in Pods : dir'[q] = dir[q]
      BY <1>7 DEF OnlyAt, Adds
    <3> QED BY <2>2, <2>3, <2>5, <3>1, NewIdIsNew DEF Owned, DirIsMine
  <2> QED BY <2>4, <2>8, <2>9 DEF Owned
<1> QED BY <1>1, <1>2, <1>3, <1>4, <1>5, <1>6, <1>7 DEF Effect, Quiet, Forgets

\* Every step has an effect of this kind, and at one pod only.
LEMMA StepFacts ==
  ASSUME IInv, NEW p \in Pods, Step(p) \/ PromoteLosesAnswer(p) \/ Crash(p)
  PROVE  OnlyAt(p) /\ Good(p)' /\ ViewOnlyAt(p) /\ Effect(p)
<1>1. TypesOK /\ Typed /\ Control
  BY DEF IInv, TypesOK, Typed, LoopOK, EnvOK, EtcdOK, DirOK
<1>2. OnlyAt(p) /\ Good(p)'
  BY <1>1, DiscoverControl, JoinControl, WaitControl, EtcdControl, OtherControl DEF Step
<1> QED BY <1>1, <1>2, StepEffect

\* A step that changes nothing leaves all that the invariants speak of alone.
Still == UNCHANGED <<pc, todo, ready, notReady, dead, view, env, etcd, dir, members>>

\* So there is nothing to show for it.
LEMMA StutterIsStill ==
  ASSUME UNCHANGED vars PROVE Still
BY DEF vars, loopVars, Still

\* The inductive invariant for what the pods know of the member lists.
OInv == IInv /\ Owned

\* A member is its pod's alone: no call that is repeated, fails or loses its answer,
\* and no cluster that comes second, makes two pods share a member, a pod appear twice
\* in a member list, or etcdcluster remove or promote itself under another pod's ID
\* (manager.go:117-202).
LEMMA OwnedInductive == Spec => []OInv
<1>1. Init => Owned
  <2> SUFFICES ASSUME Init PROVE Owned
    OBVIOUS
  <2> QED BY DEF Init, Owned, Distinct, OwnName, UniqueIds, UniqueUrls, ViewIsMine, DirIsMine
<1>2. IInv /\ Owned /\ [Next]_vars => Owned'
  <2> SUFFICES ASSUME IInv, Owned, [Next]_vars PROVE Owned'
    OBVIOUS
  <2>1. ASSUME NEW p \in Pods, Step(p) \/ PromoteLosesAnswer(p) \/ Crash(p) PROVE Owned'
    BY <2>1, StepFacts, OwnedStep DEF IInv
  <2>2. CASE UNCHANGED vars
    BY <2>2, StutterIsStill
    DEF Still, Owned, Distinct, OwnName, UniqueIds, UniqueUrls, ViewIsMine, DirIsMine
  <2> QED BY <2>1, <2>2 DEF Next
<1> QED BY <1>1, <1>2, Inductive, PTL DEF OInv, Spec

-----------------------------------------------------------------------------
(* Without a failed read of an IP file, no member is taken for a dead one *)

NobodyDead(p) == dead[p] = {} /\ view[p].doomed = {} /\ pc[p] # "remove"

NoneDead == \A p \in Pods : NobodyDead(p)

\* What a step of p leaves alone of the other pods.
RestOnlyAt(p) == \A q \in Pods \ {p} : dead'[q] = dead[q] /\ view'[q] = view[q] /\ pc'[q] = pc[q]

\* Starting over forgets the dead.
LEMMA ResetNobodyDead ==
  ASSUME LoopOK, NEW p \in Pods, Loop(p) \/ Stop(p)
  PROVE  NobodyDead(p)' /\ RestOnlyAt(p)
BY DEF LoopOK, Loop, Stop, NobodyDead, RestOnlyAt, NoView

\* So does the end of JoinExistingCluster.
LEMMA WaitNobodyDead ==
  ASSUME LoopOK, NEW p \in Pods, NobodyDead(p), WaitExit(p), UNCHANGED dead \/ dead' = [dead EXCEPT ![p] = {}]
  PROVE  NobodyDead(p)' /\ RestOnlyAt(p)
BY DEF LoopOK, WaitExit, Goto, NobodyDead, RestOnlyAt, NoView

\* discover: without a fault, no endpoint has a dead name.
LEMMA DiscoverNobodyDead ==
  ASSUME "file" \notin Faults, TypesOK, NEW p \in Pods, NobodyDead(p), Discover(p)
  PROVE  NobodyDead(p)' /\ RestOnlyAt(p)
<1>1. ASSUME NEW Q \in ProbeSets, Probe(p, Q) PROVE NobodyDead(p)' /\ RestOnlyAt(p)
  <2>1. PICK r \in [Q -> {"ready", "notReady", "unreachable", "dead"}] :
          /\ \/ (\A q \in Q : r[q] \in Health(q)) /\ UNCHANGED faults
             \/ Fault("probe") /\ \A q \in Q : r[q] \in Health(q) \cup ProbeFault(q)
             \/ Fault("file") /\ \A q \in Q : r[q] \in Health(q) \cup {"dead"}
          /\ dead' = [dead EXCEPT ![p] = @ \cup {q \in Q : r[q] = "dead"}]
    BY <1>1 DEF Probe
  <2>2. \A q \in Pods : "dead" \notin Health(q) \cup ProbeFault(q)
    <3> SUFFICES ASSUME NEW q \in Pods PROVE "dead" \notin Health(q) \cup ProbeFault(q)
      OBVIOUS
    <3>1. etcd[q] \in {"off", "boot", "up", "term"}
      BY DEF TypesOK, EtcdOK
    <3>2. Health(q) \subseteq {"unreachable", "notReady", "ready"}
      BY <3>1 DEF Health
    <3> QED BY <3>2 DEF ProbeFault
  <2>3. Q \subseteq Pods
    BY ProbeAssumption
  <2>4. {q \in Q : r[q] = "dead"} = {}
    BY <2>1, <2>2, <2>3 DEF Fault
  <2>5. dead'[p] = {} /\ \A q \in Pods \ {p} : dead'[q] = dead[q]
    BY <2>1, <2>4 DEF TypesOK, LoopOK, NobodyDead
  <2> QED BY <1>1, <2>5 DEF Probe, NobodyDead, RestOnlyAt
<1>2. CASE RetryNotReady(p) \/ WaitForPod0(p)
  BY <1>2, ResetNobodyDead DEF RetryNotReady, WaitForPod0, TypesOK
<1>3. CASE InitializeNewCluster(p)
  BY <1>3 DEF InitializeNewCluster, Goto, NobodyDead, RestOnlyAt, TypesOK, LoopOK
<1>4. CASE NoIPFiles(p)
  BY <1>4 DEF NoIPFiles, NobodyDead, RestOnlyAt
<1> QED BY <1>1, <1>2, <1>3, <1>4 DEF Discover

\* JoinExistingCluster: nobody is doomed when nobody is dead.
LEMMA JoinNobodyDead ==
  ASSUME TypesOK, NEW p \in Pods, NobodyDead(p), Join(p)
  PROVE  NobodyDead(p)' /\ RestOnlyAt(p)
<1> USE DEF TypesOK
<1>1. CASE MemberList(p)
  <2>1. PICK c \in Reachable(p) : \E v \in ProcessMembers(p, c) :
          IF v.doomed # {}
          THEN Goto(p, "remove") /\ view' = [view EXCEPT ![p] = v] /\ UNCHANGED <<ready, etcd, dir>>
          ELSE HandleMemberJoin(p, v)
    BY <1>1 DEF MemberList
  <2>2. PICK v \in ProcessMembers(p, c) :
          IF v.doomed # {}
          THEN Goto(p, "remove") /\ view' = [view EXCEPT ![p] = v] /\ UNCHANGED <<ready, etcd, dir>>
          ELSE HandleMemberJoin(p, v)
    BY <2>1
  <2>3. c \in Clusters /\ v \in View
    BY ProcessMembersType DEF Reachable
  <2>4. Doomed(p, c) = {}
    BY DEF Doomed, OfDeadMaster, NobodyDead
  <2>5. v.doomed = {}
    <3> DEFINE D == {m.id : m \in Doomed(p, c)}
               found(id, learner) ==
                 [id |-> id, learner |-> learner, votes |-> VotingNum(p, c), doomed |-> D]
    <3>1. v \in IF Mine(p, c) = {} THEN {found(None, FALSE)}
                                  ELSE {found(m.id, m.learner) : m \in Mine(p, c)}
      BY DEF ProcessMembers
    <3>2. D = {}
      BY <2>4
    <3> HIDE DEF D
    <3>3. v.doomed = D
      BY <3>1
    <3> QED BY <3>2, <3>3
  <2>6. HandleMemberJoin(p, v) /\ dead' = [dead EXCEPT ![p] = {}]
    BY <1>1, <2>2, <2>5 DEF MemberList
  <2>7. CASE JoinStep(p, v) = "wait"
    BY <2>6, <2>7, WaitNobodyDead DEF HandleMemberJoin
  <2>8. CASE JoinStep(p, v) # "wait"
    <3>1. JoinStep(p, v) # "remove"
      BY <2>3, JoinStepType
    <3> QED BY <2>5, <2>6, <2>8, <3>1 DEF HandleMemberJoin, Goto, NobodyDead, RestOnlyAt, LoopOK
  <2> QED BY <2>7, <2>8
<1>2. CASE MemberListFails(p) \/ RemoveSelfFails(p) \/ AddMemberFails(p) \/ PromoteStartedFails(p) \/ CleanUp(p)
  BY <1>2, ResetNobodyDead
  DEF MemberListFails, RemoveSelfFails, AddMemberFails, PromoteStartedFails, CleanUp
<1>3. CASE \E id \in Ids : RemoveDeadMember(p, id)
  BY <1>3 DEF RemoveDeadMember, NobodyDead
<1>4. CASE RemoveSelf(p) \/ PromoteExistingFails(p)
  BY <1>4 DEF RemoveSelf, PromoteExistingFails, Goto, NobodyDead, RestOnlyAt, LoopOK
<1>5. CASE AddMemberAndStart(p)
  <2>1. PICK c \in Reachable(p), i \in Ids :
          IF AsLearner(p)
          THEN Goto(p, "promote") /\ view' = [view EXCEPT ![p].id = i] /\ UNCHANGED ready
          ELSE WaitExit(p)
    BY <1>5 DEF AddMemberAndStart
  <2>2. UNCHANGED dead
    BY <1>5 DEF AddMemberAndStart
  <2>3. CASE AsLearner(p)
    BY <2>1, <2>2, <2>3 DEF Goto, NobodyDead, RestOnlyAt, LoopOK, View
  <2>4. CASE ~AsLearner(p)
    BY <2>1, <2>2, <2>4, WaitNobodyDead
  <2> QED BY <2>3, <2>4
<1>6. CASE PromoteStarted(p) \/ PromoteExisting(p)
  BY <1>6, WaitNobodyDead DEF PromoteStarted, PromoteExisting
<1> QED BY <1>1, <1>2, <1>3, <1>4, <1>5, <1>6 DEF Join

\* The rest of what a pod does concerns nobody that is dead.
LEMMA OtherNobodyDead ==
  ASSUME TypesOK, NEW p \in Pods, NobodyDead(p),
         Wait(p) \/ Etcd(p) \/ Restart(p) \/ PromoteLosesAnswer(p) \/ Crash(p)
  PROVE  NobodyDead(p)' /\ RestOnlyAt(p)
<1>0. CASE Looks(p)
  <2>1. PICK l \in Watching : pc' = [pc EXCEPT ![p] = l]
    BY <1>0, LooksOnly
  <2> QED BY <1>0, <2>1, LooksOnly DEF NobodyDead, RestOnlyAt, Watching, TypesOK, LoopOK
<1>1. CASE (\E q \in Pods : BrainSplitDetected(p, q)) \/ BrainSplitVerified(p)
  BY <1>1 DEF BrainSplitDetected, BrainSplitVerified, Goto, NobodyDead, RestOnlyAt, TypesOK, LoopOK
<1>2. CASE SplitEtcdGone(p) \/ ProcessExit(p) \/ Restart(p) \/ Crash(p)
  BY <1>2, ResetNobodyDead DEF SplitEtcdGone, ProcessExit, Restart, Crash, TypesOK
<1>3. CASE Etcd(p) \/ PromoteLosesAnswer(p)
  <2>1. UNCHANGED loopVars
    BY <1>3 DEF Etcd, EtcdCreatesDir, EtcdBootstraps, EtcdJoins, EtcdBootFails, EtcdRestarts,
                EtcdStops, EtcdLearnsRemoved, PromoteLosesAnswer
  <2> QED BY <2>1 DEF loopVars, NobodyDead, RestOnlyAt
<1> QED BY <1>0, <1>1, <1>2, <1>3, WaitSteps

\* With readable IP files, no pod of this model is ever taken for a dead one.
LEMMA NoneDeadInductive ==
  ASSUME "file" \notin Faults PROVE Spec => []NoneDead
<1>1. Init => NoneDead
  BY DEF Init, NoneDead, NobodyDead, NoView
<1>2. IInv /\ NoneDead /\ [Next]_vars => NoneDead'
  <2> SUFFICES ASSUME IInv, NoneDead, [Next]_vars PROVE NoneDead'
    OBVIOUS
  <2>1. ASSUME NEW p \in Pods, Step(p) \/ PromoteLosesAnswer(p) \/ Crash(p) PROVE NoneDead'
    <3>1. NobodyDead(p)' /\ RestOnlyAt(p)
      BY <2>1, DiscoverNobodyDead, JoinNobodyDead, OtherNobodyDead DEF NoneDead, IInv, Step
    <3> QED BY <3>1 DEF NoneDead, NobodyDead, RestOnlyAt
  <2>2. CASE UNCHANGED vars
    BY <2>2 DEF vars, loopVars, NoneDead, NobodyDead
  <2> QED BY <2>1, <2>2 DEF Next
<1> QED BY <1>1, <1>2, Inductive, PTL DEF Spec

-----------------------------------------------------------------------------
(* Voting members and quorums *)

\* The members and the running voting members of a cluster can be counted.
LEMMA VotersCount ==
  ASSUME MembersOK, NEW c \in Clusters
  PROVE  /\ IsFiniteSet(Voters(c)) /\ Cardinality(Voters(c)) \in Nat
         /\ IsFiniteSet(UpVoters(c)) /\ Cardinality(UpVoters(c)) \in Nat
         /\ Cardinality(UpVoters(c)) <= Cardinality(Voters(c))
<1>1. Voters(c) \in SUBSET members[c] /\ UpVoters(c) \in SUBSET Voters(c)
  BY DEF Voters, UpVoters
<1>2. IsFiniteSet(members[c])
  BY DEF MembersOK, Finite
<1> QED BY <1>1, <1>2, FS_Subset, FS_CardinalityType

\* So can those it has after a step.
LEMMA NextVotersCount ==
  ASSUME MembersOK', NEW c \in Clusters
  PROVE  IsFiniteSet(UpVoters(c)') /\ Cardinality(UpVoters(c)') \in Nat
<1>1. UpVoters(c)' \in SUBSET members'[c]
  BY DEF Voters, UpVoters
<1>2. IsFiniteSet(members'[c])
  BY DEF MembersOK, Finite
<1> QED BY <1>1, <1>2, FS_Subset, FS_CardinalityType

\* A cluster that serves has a voting member that runs.
LEMMA ServingHasVoter ==
  ASSUME MembersOK, NEW c \in Clusters, Serving(c)
  PROVE  UpVoters(c) # {} /\ Voters(c) # {} /\ members[c] # {}
<1>1. Cardinality(UpVoters(c)) # 0
  BY VotersCount DEF Serving
<1>2. UpVoters(c) # {}
  BY <1>1, FS_EmptySet
<1> QED BY <1>2 DEF UpVoters, Voters

\* A cluster that serves although a voting member does not run has two others.
LEMMA ServingWithout ==
  ASSUME MembersOK, NEW c \in Clusters, Serving(c), NEW m \in Voters(c), ~IsUp(c, m)
  PROVE  Cardinality(Voters(c)) >= 3
<1>1. UpVoters(c) \in SUBSET (Voters(c) \ {m})
  BY DEF UpVoters
<1>2. IsFiniteSet(Voters(c) \ {m}) /\ Cardinality(Voters(c) \ {m}) = Cardinality(Voters(c)) - 1
  BY VotersCount, FS_RemoveElement
<1>3. Cardinality(UpVoters(c)) <= Cardinality(Voters(c)) - 1
  BY <1>1, <1>2, FS_Subset
<1> QED BY <1>3, VotersCount DEF Serving

\* The voting members after a removal, a promotion, an addition, and a start.
LEMMA RemovedVoters ==
  ASSUME MembersOK, NEW c \in Clusters, NEW m \in members[c], members' = Removed(c, m)
  PROVE  \A d \in Clusters : Voters(d)' = IF d = c THEN Voters(c) \ {m} ELSE Voters(d)
<1>1. \A d \in Clusters : members'[d] = IF d = c THEN members[c] \ {m} ELSE members[d]
  BY DEF MembersOK, Removed
<1> QED BY <1>1 DEF Voters

\* A promotion makes one more.
LEMMA PromotedVoters ==
  ASSUME MembersOK, Distinct, NEW c \in Clusters, NEW m \in members[c], PromoteOk(c, m),
         members' = Promoted(c, m)
  PROVE  \E k \in Member :
           /\ k.id = m.id /\ k.url = m.url /\ ~k.learner /\ k \notin Voters(c)
           /\ \A d \in Clusters : Voters(d)' = IF d = c THEN Voters(c) \cup {k} ELSE Voters(d)
<1> DEFINE k == [m EXCEPT !.learner = FALSE]
<1>1. m \in Member /\ m.learner
  BY DEF MembersOK, PromoteOk
<1>2. k \in Member /\ k.id = m.id /\ k.url = m.url /\ ~k.learner
  BY <1>1 DEF Member
<1>3. members' = [members EXCEPT ![c] = (@ \ {m}) \cup {k}]
  BY DEF Promoted
<1> HIDE DEF k
<1>4. \A d \in Clusters : members'[d] = IF d = c THEN (members[c] \ {m}) \cup {k} ELSE members[d]
  BY <1>3 DEF MembersOK
<1>5. \A d \in Clusters : Voters(d)' = IF d = c THEN Voters(c) \cup {k} ELSE Voters(d)
  BY <1>1, <1>2, <1>4 DEF Voters
<1>6. k \notin Voters(c)
  BY <1>1, <1>2 DEF Voters, Distinct, UniqueIds
<1> QED BY <1>2, <1>5, <1>6

\* An addition too, unless it adds a learner.
LEMMA AddedVoters ==
  ASSUME MembersOK, NEW p \in Pods, NEW c \in Clusters, NEW i \in Ids, MemberAdd(p, c, i)
  PROVE  /\ AddedMember(p, i) \notin Voters(c)
         /\ \A d \in Clusters : Voters(d)' = IF d = c /\ ~AsLearner(p)
                                             THEN Voters(c) \cup {AddedMember(p, i)} ELSE Voters(d)
<1> DEFINE k == AddedMember(p, i)
<1>1. k.learner = AsLearner(p) /\ k.url = p
  BY DEF AddedMember
<1>2. members' = [members EXCEPT ![c] = @ \cup {k}] /\ \A m \in members[c] : m.url # p
  BY DEF MemberAdd, AddOk
<1> HIDE DEF k
<1>3. \A d \in Clusters : members'[d] = IF d = c THEN members[c] \cup {k} ELSE members[d]
  BY <1>2 DEF MembersOK
<1>4. k \notin Voters(c)
  BY <1>1, <1>2 DEF Voters
<1> QED BY <1>1, <1>3, <1>4 DEF Voters, k

\* A member whose etcd starts for the first time gets its name.
LEMMA JoinedVoters ==
  ASSUME MembersOK, NEW p \in Pods, dir \in [Pods -> Identity \cup {None, Partial}], EtcdJoins(p)
  PROVE  \E c \in Clusters : \E m \in members[c], k \in Member :
           /\ k.id = m.id /\ k.url = m.url /\ m.url = p /\ k.learner = m.learner
           /\ Holds(p, c, m.id)'
           /\ \A d \in Clusters : members'[d] = IF d = c THEN (members[c] \ {m}) \cup {k} ELSE members[d]
           /\ \A d \in Clusters : Voters(d)' = IF d = c /\ ~m.learner
                                               THEN (Voters(c) \ {m}) \cup {k} ELSE Voters(d)
<1>1. PICK c \in Clusters : \E m \in members[c] :
        /\ m.url = p
        /\ members' = [members EXCEPT ![c] = (@ \ {m}) \cup {[m EXCEPT !.name = p]}]
        /\ dir' = [dir EXCEPT ![p] = [cluster |-> c, id |-> m.id]]
  BY DEF EtcdJoins
<1>2. PICK m \in members[c] :
        /\ m.url = p
        /\ members' = [members EXCEPT ![c] = (@ \ {m}) \cup {[m EXCEPT !.name = p]}]
        /\ dir' = [dir EXCEPT ![p] = [cluster |-> c, id |-> m.id]]
  BY <1>1
<1> DEFINE k == [m EXCEPT !.name = p]
<1>3. m \in Member
  BY DEF MembersOK
<1>4. k \in Member /\ k.id = m.id /\ k.url = m.url /\ k.learner = m.learner
  BY <1>3 DEF Member
<1>5. members' = [members EXCEPT ![c] = (@ \ {m}) \cup {k}]
  BY <1>2
<1>6. Holds(p, c, m.id)'
  BY <1>2 DEF Holds
<1> HIDE DEF k
<1>7. \A d \in Clusters : members'[d] = IF d = c THEN (members[c] \ {m}) \cup {k} ELSE members[d]
  BY <1>5 DEF MembersOK
<1>8. \A d \in Clusters : Voters(d)' = IF d = c /\ ~m.learner
                                       THEN (Voters(c) \ {m}) \cup {k} ELSE Voters(d)
  BY <1>4, <1>7 DEF Voters
<1> QED BY <1>2, <1>4, <1>6, <1>7, <1>8

\* Without readable IP files' faults, a pod removes no member but its own, and only
\* while its etcd does not run.
LEMMA RemoverIsDown ==
  ASSUME OInv, NoneDead, NEW p \in Pods, NEW c \in Clusters, NEW m \in members[c], Removes(p, c, m)
  PROVE  /\ m.url = p /\ m.id = view[p].id /\ pc[p] \in {"removeSelf", "cleanUp"}
         /\ ~IsUp(c, m)
<1>1. m.id = view[p].id /\ pc[p] \in {"removeSelf", "cleanUp"}
  BY DEF Removes, NoneDead, NobodyDead
<1>2. m.url = p
  BY <1>1 DEF OInv, Owned, ViewIsMine
<1>3. etcd[p] \in {"off", "term"}
  BY <1>1 DEF OInv, IInv, Control, Good, Idle, IdleStates
<1> QED BY <1>1, <1>2, <1>3 DEF IsUp

-----------------------------------------------------------------------------
(* The brain split checker *)

\* Unless an etcd boots bare, the one that founds a cluster is pod-0's, which decided so.
LEMMA FounderDecided ==
  ASSUME OInv, NoBareBoot, NEW p \in Pods, EtcdBootstraps(p)
  PROVE  p = Pod0 /\ env[p].state = "new" /\ pc[p] \in Watching \cup {"wait"}
<1>1. etcd[p] = "boot" /\ dir[p] = Partial /\ dir[p] \notin Identity /\ Founds(p)
  BY DirAssumption DEF EtcdBootstraps
<1>2. env[p].state = "new"
  BY <1>1 DEF NoBareBoot, BareBoot, Founding, Founds
<1> QED BY <1>1, <1>2 DEF OInv, IInv, Control, Good, NewEnv, Unwatched

\* A cluster that is down to one voting member is the one pod-0 founded, alone.
LoneFounder == \A c \in Clusters : \A m \in Voters(c) : Voters(c) = {m} => m.url = Pod0

\* Only pod-0 founds a cluster, and no removal leaves less than two of three.
LEMMA LoneFounderStep ==
  ASSUME OInv, NoneDead, NoBareBoot, LoneFounder,
         NEW p \in Pods, Step(p) \/ PromoteLosesAnswer(p) \/ Crash(p)
  PROVE  LoneFounder'
<1>0. MembersOK /\ Distinct /\ TypesOK /\ dir \in [Pods -> Identity \cup {None, Partial}]
      /\ Effect(p)
  BY StepFacts DEF OInv, IInv, TypesOK, Owned, DirOK
<1> SUFFICES ASSUME NEW d \in Clusters, NEW x, Voters(d)' = {x} PROVE x.url = Pod0
  BY DEF LoneFounder
<1>1. CASE UNCHANGED members
  BY <1>1 DEF Voters, LoneFounder
<1>2. CASE EtcdBootstraps(p)
  <2>1. p = Pod0
    BY <1>2, FounderDecided
  <2>2. PICK c \in Clusters, i \in Ids :
          members' = [members EXCEPT ![c] = {[id |-> i, url |-> p, name |-> p, learner |-> FALSE]}]
    BY <1>2 DEF EtcdBootstraps
  <2>3. CASE d = c
    BY <1>0, <2>1, <2>2, <2>3 DEF Voters, MembersOK
  <2>4. CASE d # c
    <3>1. members'[d] = members[d]
      BY <1>0, <2>2, <2>4 DEF MembersOK
    <3> QED BY <3>1 DEF Voters, LoneFounder
  <2> QED BY <2>3, <2>4
<1>3. CASE EtcdJoins(p)
  <2>0. PICK c \in Clusters : \E m \in members[c], k \in Member :
           /\ k.id = m.id /\ k.url = m.url /\ m.url = p /\ k.learner = m.learner
           /\ Holds(p, c, m.id)'
           /\ \A e \in Clusters : members'[e] = IF e = c THEN (members[c] \ {m}) \cup {k} ELSE members[e]
           /\ \A e \in Clusters : Voters(e)' = IF e = c /\ ~m.learner
                                               THEN (Voters(c) \ {m}) \cup {k} ELSE Voters(e)
    BY <1>0, <1>3, JoinedVoters
  <2>1. PICK m \in members[c], k \in Member :
           /\ k.id = m.id /\ k.url = m.url /\ m.url = p /\ k.learner = m.learner
           /\ Holds(p, c, m.id)'
           /\ \A e \in Clusters : members'[e] = IF e = c THEN (members[c] \ {m}) \cup {k} ELSE members[e]
           /\ \A e \in Clusters : Voters(e)' = IF e = c /\ ~m.learner
                                               THEN (Voters(c) \ {m}) \cup {k} ELSE Voters(e)
    BY <2>0
  <2>2. CASE ~(d = c /\ ~m.learner)
    BY <2>1, <2>2 DEF LoneFounder
  <2>3. CASE d = c /\ ~m.learner
    <3>1. m \in Voters(c)
      BY <2>1, <2>3 DEF Voters
    <3>2. x = k /\ Voters(c) \ {m} \subseteq {k}
      BY <2>1, <2>3
    <3>3. k \notin Voters(c) \/ k = m
      BY <1>0, <2>1 DEF Voters, Distinct, UniqueIds
    <3>4. Voters(c) = {m}
      BY <3>1, <3>2, <3>3
    <3> QED BY <2>1, <3>1, <3>2, <3>4 DEF LoneFounder
  <2> QED BY <2>2, <2>3
<1>4. ASSUME NEW c \in Reachable(p), NEW m \in members[c], Removes(p, c, m) PROVE x.url = Pod0
  <2>1. c \in Clusters /\ Serving(c)
    BY DEF Reachable
  <2>2. Voters(d)' = IF d = c THEN Voters(c) \ {m} ELSE Voters(d)
    BY <1>0, <1>4, <2>1, RemovedVoters DEF Removes
  <2>3. CASE d # c \/ m \notin Voters(c)
    BY <2>2, <2>3 DEF LoneFounder
  <2>4. CASE d = c /\ m \in Voters(c)
    <3>1. Cardinality(Voters(c)) >= 3
      BY <1>0, <1>4, <2>1, <2>4, RemoverIsDown, ServingWithout
    <3>2. Cardinality(Voters(c) \ {m}) = Cardinality(Voters(c)) - 1
      BY <1>0, <2>1, <2>4, VotersCount, FS_RemoveElement
    <3>3. Cardinality({x}) = 1
      BY FS_Singleton
    <3>4. Voters(c) \ {m} = {x} /\ Cardinality(Voters(c)) \in Nat
      BY <1>0, <2>1, <2>2, <2>4, VotersCount
    <3>5. Cardinality(Voters(c)) - 1 = 1
      BY <3>2, <3>3, <3>4
    <3> QED BY <3>1, <3>4, <3>5
  <2> QED BY <2>3, <2>4
<1>5. ASSUME NEW c \in Reachable(p), NEW m \in members[c], Promotes(p, c, m) PROVE x.url = Pod0
  <2>1. c \in Clusters /\ Voters(c) # {}
    BY <1>0, ServingHasVoter DEF Reachable
  <2>2. PICK k \in Member :
          /\ k \notin Voters(c)
          /\ \A e \in Clusters : Voters(e)' = IF e = c THEN Voters(c) \cup {k} ELSE Voters(e)
    BY <1>0, <1>5, <2>1, PromotedVoters DEF Promotes
  <2>3. d # c
    BY <2>1, <2>2
  <2> QED BY <2>2, <2>3 DEF LoneFounder
<1>6. ASSUME NEW c \in Reachable(p), NEW i \in Ids, Adds(p, c, i) PROVE x.url = Pod0
  <2>1. c \in Clusters /\ Voters(c) # {}
    BY <1>0, ServingHasVoter DEF Reachable
  <2>2. AddedMember(p, i) \notin Voters(c) /\
        \A e \in Clusters : Voters(e)' = IF e = c /\ ~AsLearner(p)
                                         THEN Voters(c) \cup {AddedMember(p, i)} ELSE Voters(e)
    BY <1>0, <1>6, <2>1, AddedVoters DEF Adds
  <2>3. Voters(d)' = Voters(d)
    BY <2>1, <2>2
  <2> QED BY <2>3 DEF LoneFounder
<1> QED BY <1>0, <1>1, <1>2, <1>3, <1>4, <1>5, <1>6 DEF Effect, Quiet, Lists

\* What p's probes and p's checker have found is p's.
LEMMA SearchOnlyAt ==
  ASSUME TypesOK, NEW p \in Pods, Step(p) \/ PromoteLosesAnswer(p) \/ Crash(p), NEW q \in Pods \ {p}
  PROVE  todo'[q] = todo[q] /\ ready'[q] = ready[q] /\ notReady'[q] = notReady[q]
<1> USE DEF TypesOK, LoopOK
<1>1. CASE Discover(p)
  BY <1>1 DEF Discover, Probe, NoIPFiles, RetryNotReady, WaitForPod0, InitializeNewCluster, Loop
<1>2. CASE Join(p)
  <2>1. ASSUME NEW v, HandleMemberJoin(p, v) PROVE ready'[q] = ready[q]
    BY <2>1 DEF HandleMemberJoin, WaitExit
  <2>2. CASE MemberList(p)
    BY <2>1, <2>2 DEF MemberList
  <2>3. CASE \E id \in Ids : RemoveDeadMember(p, id)
    BY <2>1, <2>3 DEF RemoveDeadMember
  <2>4. CASE AddMemberAndStart(p)
    BY <2>4 DEF AddMemberAndStart, WaitExit
  <2> QED BY <1>2, <2>2, <2>3, <2>4
      DEF Join, MemberListFails, RemoveSelf, RemoveSelfFails, AddMemberFails, PromoteStarted,
          PromoteStartedFails, PromoteExisting, PromoteExistingFails, CleanUp, Loop, WaitExit
<1>3. CASE Wait(p) \/ Restart(p) \/ Crash(p)
  BY <1>3, WaitSteps, LooksOnly
  DEF BrainSplitDetected, BrainSplitVerified, SplitEtcdGone, ProcessExit, Restart, Crash, Loop, Stop
<1>4. CASE Etcd(p) \/ PromoteLosesAnswer(p)
  <2>1. UNCHANGED loopVars
    BY <1>4 DEF Etcd, EtcdCreatesDir, EtcdBootstraps, EtcdJoins, EtcdBootFails, EtcdRestarts,
                EtcdStops, EtcdLearnsRemoved, PromoteLosesAnswer
  <2> QED BY <2>1 DEF loopVars
<1> QED BY <1>1, <1>2, <1>3, <1>4 DEF Step

\* The watch begins with the decision to found a cluster, and the checker or etcd goes on.
LEMMA WatchGoesOn ==
  ASSUME TypesOK, NEW p \in Pods, Step(p) \/ PromoteLosesAnswer(p) \/ Crash(p), pc'[p] \in Watching
  PROVE  InitializeNewCluster(p) \/ Looks(p) \/ (Etcd(p) /\ UNCHANGED loopVars)
<1> USE DEF TypesOK, LoopOK, Watching
<1>1. CASE Discover(p)
  BY <1>1 DEF Discover, Probe, NoIPFiles, RetryNotReady, WaitForPod0, Loop
<1>2. CASE Join(p)
  <2>1. ASSUME NEW v \in View, HandleMemberJoin(p, v) PROVE pc'[p] \notin Watching
    <3>1. JoinStep(p, v) \notin Watching
      BY JoinStepType
    <3> QED BY <2>1, <3>1 DEF HandleMemberJoin, WaitExit, Goto
  <2>2. CASE MemberList(p)
    <3>1. PICK c \in Reachable(p) : \E v \in ProcessMembers(p, c) :
            Goto(p, "remove") \/ HandleMemberJoin(p, v)
      BY <2>2 DEF MemberList
    <3>2. c \in Clusters
      BY DEF Reachable
    <3> QED BY <2>1, <3>1, <3>2, ProcessMembersType DEF Goto
  <2>3. ASSUME NEW id \in Ids, RemoveDeadMember(p, id) PROVE FALSE
    <3>1. [view[p] EXCEPT !.doomed = @ \ {id}] \in View
      BY DEF View
    <3> QED BY <2>1, <2>3, <3>1 DEF RemoveDeadMember
  <2>4. CASE AddMemberAndStart(p)
    BY <2>4 DEF AddMemberAndStart, Goto, WaitExit
  <2> QED BY <1>2, <2>2, <2>3, <2>4
      DEF Join, MemberListFails, RemoveSelf, RemoveSelfFails, AddMemberFails, PromoteStarted,
          PromoteStartedFails, PromoteExisting, PromoteExistingFails, CleanUp, Loop, Goto, WaitExit
<1>3. CASE Wait(p)
  BY <1>3, WaitSteps
  DEF BrainSplitDetected, BrainSplitVerified, SplitEtcdGone, ProcessExit, Goto, Loop, Stop
<1>4. CASE Etcd(p)
  BY <1>4 DEF Etcd, EtcdCreatesDir, EtcdBootstraps, EtcdJoins, EtcdBootFails, EtcdRestarts,
              EtcdStops, EtcdLearnsRemoved
<1>5. CASE Restart(p) \/ Crash(p)
  BY <1>5 DEF Restart, Crash, Loop, Stop
<1>6. CASE PromoteLosesAnswer(p)
  BY <1>6 DEF PromoteLosesAnswer, loopVars
<1> QED BY <1>1, <1>2, <1>3, <1>4, <1>5, <1>6 DEF Step

\* The checker asks the other pods only.
AsksOthers ==
  \A p \in Pods : /\ pc[p] \in Watching => p \notin ready[p]
                  /\ pc[p] = "collect" => p \notin todo[p]

\* It takes its endpoints from those that it has yet to look at.
LEMMA AsksOthersStep ==
  ASSUME IInv, AsksOthers, NEW p \in Pods, Step(p) \/ PromoteLosesAnswer(p) \/ Crash(p)
  PROVE  AsksOthers'
<1>0. TypesOK /\ OnlyAt(p) /\ \A q \in Pods \ {p} : todo'[q] = todo[q] /\ ready'[q] = ready[q]
  BY StepFacts, SearchOnlyAt DEF IInv
<1>1. ASSUME pc'[p] \in Watching
      PROVE  p \notin ready'[p] /\ (pc'[p] = "collect" => p \notin todo'[p])
  <2> USE <1>0 DEF TypesOK, LoopOK, AsksOthers, Watching
  <2>1. CASE InitializeNewCluster(p)
    BY <1>1, <2>1 DEF InitializeNewCluster, NothingAnswers, Goto
  <2>2. CASE Etcd(p) /\ UNCHANGED loopVars
    BY <1>1, <2>2 DEF loopVars
  <2>3. CASE \E Q \in CheckSets : CollectOthers(p, Q)
    <3>1. PICK Q \in CheckSets : CollectOthers(p, Q)
      BY <2>3
    <3>2. PICK found \in SUBSET {q \in Q \cap todo[p] : Answers(q)} :
            ready' = [ready EXCEPT ![p] = @ \cup found]
      BY <3>1 DEF CollectOthers
    <3>3. pc[p] = "collect" /\ todo' = [todo EXCEPT ![p] = @ \ Q] /\ found \subseteq todo[p]
      BY <3>1, <3>2 DEF CollectOthers
    <3>4. ready'[p] = ready[p] \cup found /\ todo'[p] \subseteq todo[p]
      BY <3>2, <3>3
    <3> QED BY <3>3, <3>4
  <2>4. CASE CheckLocal(p)
    BY <2>4 DEF CheckLocal
  <2>5. CASE \E q \in Pods : CompareMatches(p, q) \/ CompareFails(p, q)
    BY <2>5 DEF CompareMatches, CompareFails, Compares, Goto
  <2>6. CASE CheckInconclusive(p)
    BY <2>6 DEF CheckInconclusive, Compared, Goto
  <2> QED BY <1>1, <2>1, <2>2, <2>3, <2>4, <2>5, <2>6, WatchGoesOn DEF Looks
<1> QED BY <1>0, <1>1 DEF AsksOthers, OnlyAt, Watching

\* A pod that is about to join a cluster has no data (and stays without until it is added).
JoinsBare == \A p \in Pods : pc[p] \in {"removeSelf", "add"} => dir[p] = None

\* A pod joined its cluster with the member list it added itself to.
EnvIsMine ==
  \A p \in Pods : dir[p] \in Identity /\ env[p].state = "existing" => dir[p].id \in env[p].peers

MemberIds(c) == {m.id : m \in members[c]}

\* q has no data of c, and could not join c with the member list it has.
Far(q, c) ==
  /\ dir[q] \in Identity => dir[q].cluster # c
  /\ env[q].state = "existing" => env[q].peers # MemberIds(c)

\* Once the checker has a match, some pod stays away from all clusters but pod-0's.
Confirmed ==
  pc[Pod0] = "match" =>
    \E q \in Pods \ {Pod0} : \A c \in Clusters \ {dir[Pod0].cluster} : Far(q, c)

\* The data of a pod that leaves to join again is gone, or was never there.
LEMMA HandleMemberJoinBare ==
  ASSUME TypesOK, NEW p \in Pods, NEW v \in View, HandleMemberJoin(p, v)
  PROVE  pc'[p] \in {"removeSelf", "add"} => dir'[p] = None
<1> USE DEF TypesOK, LoopOK, DirOK
<1>1. dir'[p] = KeptData(p, v)
  BY DEF HandleMemberJoin
<1>2. CASE JoinStep(p, v) = "wait"
  BY <1>2 DEF HandleMemberJoin, WaitExit, Goto
<1>3. CASE JoinStep(p, v) # "wait"
  <2>1. pc'[p] = JoinStep(p, v)
    BY <1>3 DEF HandleMemberJoin, Goto
  <2>2. v.id \in Ids => v.id # None
    BY NoneIsNoId
  <2> QED BY <1>1, <2>1, <2>2, JoinStepType DEF KeptData
<1> QED BY <1>2, <1>3

\* A pod that joins keeps its data and its environment as they are, but when it drops its
\* data (then it knows that it has none), or adds itself.
LEMMA JoinBare ==
  ASSUME TypesOK, NEW p \in Pods, Join(p), pc[p] \in {"removeSelf", "add"} => dir[p] = None
  PROVE  /\ pc'[p] \in {"removeSelf", "add"} => dir'[p] = None
         /\ UNCHANGED env \/ AddMemberAndStart(p)
<1> USE DEF TypesOK, LoopOK, DirOK
<1>1. CASE MemberList(p)
  <2>1. PICK c \in Reachable(p) : \E v \in ProcessMembers(p, c) :
          (Goto(p, "remove") /\ UNCHANGED dir) \/ HandleMemberJoin(p, v)
    BY <1>1 DEF MemberList
  <2>2. PICK v \in ProcessMembers(p, c) : (Goto(p, "remove") /\ UNCHANGED dir) \/ HandleMemberJoin(p, v)
    BY <2>1
  <2>3. v \in View
    BY ProcessMembersType DEF Reachable
  <2>4. CASE Goto(p, "remove")
    BY <1>1, <2>4 DEF Goto, MemberList
  <2>5. CASE HandleMemberJoin(p, v)
    BY <1>1, <2>3, <2>5, HandleMemberJoinBare DEF MemberList
  <2> QED BY <2>2, <2>4, <2>5
<1>2. ASSUME NEW id \in Ids, RemoveDeadMember(p, id)
      PROVE  (pc'[p] \in {"removeSelf", "add"} => dir'[p] = None) /\ UNCHANGED env
  <2> DEFINE v == [view[p] EXCEPT !.doomed = @ \ {id}]
  <2>1. v \in View
    BY DEF View
  <2>2. UNCHANGED <<pc, dir>> \/ HandleMemberJoin(p, v)
    BY <1>2 DEF RemoveDeadMember
  <2> HIDE DEF v
  <2>3. UNCHANGED env /\ pc[p] = "remove"
    BY <1>2 DEF RemoveDeadMember
  <2> QED BY <2>1, <2>2, <2>3, HandleMemberJoinBare
<1>3. CASE AddMemberAndStart(p)
  BY <1>3 DEF AddMemberAndStart, Goto, WaitExit
<1>4. CASE RemoveSelf(p) \/ PromoteExistingFails(p)
  BY <1>4 DEF RemoveSelf, PromoteExistingFails, Goto
<1>5. CASE MemberListFails(p) \/ RemoveSelfFails(p) \/ AddMemberFails(p) \/ PromoteStartedFails(p) \/ CleanUp(p)
  BY <1>5 DEF MemberListFails, RemoveSelfFails, AddMemberFails, PromoteStartedFails, CleanUp, Loop
<1>6. CASE PromoteStarted(p) \/ PromoteExisting(p)
  BY <1>6 DEF PromoteStarted, PromoteExisting, WaitExit, Goto
<1> QED BY <1>1, <1>2, <1>3, <1>4, <1>5, <1>6 DEF Join

\* Every step keeps this, and what a pod that adds itself puts into its environment.
LEMMA EnvStep ==
  ASSUME IInv, JoinsBare, NEW p \in Pods, Step(p) \/ PromoteLosesAnswer(p) \/ Crash(p)
  PROVE  /\ pc'[p] \in {"removeSelf", "add"} => dir'[p] = None
         /\ env'[p] = env[p] \/ env'[p].state # "existing" \/ AddMemberAndStart(p)
         /\ dir'[p] \in {dir[p], None, Partial} \/ EtcdBootstraps(p) \/ EtcdJoins(p)
<1>a. TypesOK /\ (pc[p] \in {"removeSelf", "add"} => etcd[p] \in {"off", "term"})
  BY DEF IInv, Control, Good, Idle, IdleStates
<1> USE <1>a DEF TypesOK, LoopOK, DirOK, EnvOK, JoinsBare
<1>0. dir'[p] \in {dir[p], None, Partial} \/ EtcdBootstraps(p) \/ EtcdJoins(p)
  BY StepEffect DEF Effect, Quiet, Lists, Removes, Promotes, Adds, NoNewData
<1>1. CASE Discover(p)
  BY <1>0, <1>1 DEF Discover, Probe, NoIPFiles, RetryNotReady, WaitForPod0, InitializeNewCluster, Loop, Goto,
      NothingAnswers, Discovered
<1>2. CASE Join(p)
  BY <1>0, <1>2, JoinBare
<1>3. CASE Wait(p)
  <2>1. CASE Looks(p)
    <3>1. PICK l \in Watching : pc' = [pc EXCEPT ![p] = l]
      BY <2>1, LooksOnly
    <3> QED BY <1>0, <2>1, <3>1, LooksOnly DEF Watching
  <2>2. CASE ~Looks(p)
    BY <1>0, <1>3, <2>2, WaitSteps
    DEF BrainSplitDetected, BrainSplitVerified, SplitEtcdGone, ProcessExit, Goto, Loop, Stop, NoEnv
  <2> QED BY <2>1, <2>2
<1>4. CASE Etcd(p)
  <2>1. UNCHANGED <<pc, env>>
    BY <1>4 DEF Etcd, EtcdCreatesDir, EtcdBootstraps, EtcdJoins, EtcdBootFails, EtcdRestarts,
         EtcdStops, EtcdLearnsRemoved, loopVars
  <2>2. pc[p] \in {"removeSelf", "add"} => UNCHANGED dir
    BY <1>4 DEF Etcd, EtcdCreatesDir, EtcdBootstraps, EtcdJoins, EtcdBootFails, EtcdRestarts,
         EtcdStops, EtcdLearnsRemoved
  <2> QED BY <1>0, <2>1, <2>2
<1>5. CASE PromoteLosesAnswer(p)
  BY <1>0, <1>5 DEF PromoteLosesAnswer, loopVars
<1>6. CASE Restart(p) \/ Crash(p)
  BY <1>0, <1>6 DEF Restart, Crash, Loop, Stop, NoEnv
<1> QED BY <1>1, <1>2, <1>3, <1>4, <1>5, <1>6 DEF Step

\* So each pod keeps track of the members it joined.
LEMMA EnvIsMineStep ==
  ASSUME IInv, JoinsBare, EnvIsMine, NEW p \in Pods, Step(p) \/ PromoteLosesAnswer(p) \/ Crash(p)
  PROVE  JoinsBare' /\ EnvIsMine'
<1>0. OnlyAt(p) /\ TypesOK /\ dir \in [Pods -> Identity \cup {None, Partial}] /\ None \notin Identity
      /\ Partial \notin Identity
  BY StepFacts, DirAssumption DEF IInv, TypesOK, DirOK
<1>1. JoinsBare'
  BY <1>0, EnvStep DEF JoinsBare, OnlyAt
<1>2. ASSUME dir'[p] \in Identity, env'[p].state = "existing" PROVE dir'[p].id \in env'[p].peers
  <2>1. CASE EtcdBootstraps(p)
    BY <1>2, <2>1 DEF EtcdBootstraps, Founds, loopVars
  <2>2. CASE EtcdJoins(p)
    <3>1. PICK c \in Clusters : \E m \in members[c] :
            Joinable(p, c) /\ dir' = [dir EXCEPT ![p] = [cluster |-> c, id |-> m.id]]
      BY <2>2 DEF EtcdJoins
    <3>2. PICK m \in members[c] :
            Joinable(p, c) /\ dir' = [dir EXCEPT ![p] = [cluster |-> c, id |-> m.id]]
      BY <3>1
    <3>3. dir'[p].id = m.id /\ UNCHANGED env
      BY <1>0, <2>2, <3>2 DEF EtcdJoins, loopVars
    <3> QED BY <3>2, <3>3 DEF Joinable
  <2>3. CASE AddMemberAndStart(p)
    BY <1>0, <1>2, <2>3 DEF AddMemberAndStart, JoinsBare
  <2>4. CASE ~EtcdBootstraps(p) /\ ~EtcdJoins(p) /\ ~AddMemberAndStart(p)
    BY <1>0, <1>2, <2>4, EnvStep DEF EnvIsMine
  <2> QED BY <2>1, <2>2, <2>3, <2>4
<1>3. EnvIsMine'
  BY <1>0, <1>2 DEF EnvIsMine, OnlyAt
<1> QED BY <1>1, <1>3

\* With three pods, a cluster that neither pod-0 nor a far pod has data of would be the
\* third pod alone, and only pod-0 is ever alone in a cluster: it does not serve.
LEMMA FarIsDown ==
  ASSUME IsFiniteSet(Pods), Cardinality(Pods) <= 3, OInv, LoneFounder, dir[Pod0] \in Identity,
         NEW q \in Pods \ {Pod0}, NEW c \in Clusters \ {dir[Pod0].cluster}, Far(q, c)
  PROVE  ~Serving(c)
<1>0. MembersOK /\ Distinct /\ Pod0 \in Pods
  BY Pod0Assumption DEF OInv, IInv, TypesOK, Owned
<1> SUFFICES ASSUME Serving(c) PROVE FALSE
  OBVIOUS
<1> DEFINE R == (Pods \ {Pod0}) \ {q}
<1>4. IsFiniteSet(R) /\ Cardinality(R) <= 1
  <2>1. IsFiniteSet(Pods \ {Pod0}) /\ Cardinality(Pods \ {Pod0}) = Cardinality(Pods) - 1
    BY <1>0, FS_RemoveElement
  <2>2. IsFiniteSet(R) /\ Cardinality(R) = Cardinality(Pods \ {Pod0}) - 1
    BY <2>1, FS_RemoveElement
  <2> QED BY <2>1, <2>2, FS_CardinalityType
<1>5. \A m \in UpVoters(c) : m.url \in R
  <2> SUFFICES ASSUME NEW m \in UpVoters(c) PROVE m.url \in R
    OBVIOUS
  <2>1. m \in Member /\ dir[m.url] = [cluster |-> c, id |-> m.id]
    BY <1>0 DEF UpVoters, Voters, IsUp, MembersOK
  <2>2. m.url \in Pods /\ dir[m.url].cluster = c /\ dir[m.url] \in Identity
    BY <2>1 DEF Member, Identity
  <2> QED BY <2>2 DEF Far
<1>6. PICK r : R \subseteq {r}
  <2>1. CASE Cardinality(R) = 0
    BY <1>4, <2>1, FS_EmptySet
  <2>2. CASE Cardinality(R) = 1
    BY <1>4, <2>2, FS_Singleton
  <2> QED BY <1>4, <2>1, <2>2, FS_CardinalityType
<1>7. \A m, n \in UpVoters(c) : m = n
  BY <1>0, <1>5, <1>6 DEF UpVoters, Voters, Distinct, UniqueUrls
<1>8. PICK m \in UpVoters(c) : UpVoters(c) = {m}
  BY <1>0, <1>7, ServingHasVoter
<1>9. Cardinality(UpVoters(c)) = 1
  BY <1>8, FS_Singleton
<1>10. Cardinality(Voters(c)) <= 1
  BY <1>0, <1>9, VotersCount DEF Serving
<1>11. Voters(c) = {m}
  <2>1. m \in Voters(c)
    BY <1>8 DEF UpVoters
  <2>2. Cardinality(Voters(c)) = 1
    BY <1>0, <1>10, <2>1, VotersCount, FS_EmptySet
  <2> QED BY <1>0, <2>1, <2>2, VotersCount, FS_Singleton
<1>12. m.url = Pod0
  BY <1>11 DEF LoneFounder
<1> QED BY <1>5, <1>8, <1>12

\* A pod that answers for pod-0's cluster is far from all others.
LEMMA MatchIsFar ==
  ASSUME OInv, EnvIsMine, NEW q \in Pods, Answers(q), ~Mismatch(Pod0, q),
         NEW c \in Clusters \ {dir[Pod0].cluster}
  PROVE  q # Pod0 => Far(q, c)
<1>1. TypesOK /\ Owned /\ etcd[q] \in {"off", "boot", "up", "term"}
  BY DEF OInv, IInv, TypesOK, EtcdOK
<1>2. etcd[q] = "up" /\ \E m \in Voters(dir[q].cluster) : m.id = dir[q].id
  BY <1>1 DEF Answers, Health
<1>3. dir[q] \in Identity
  BY <1>2 DEF OInv, IInv, Control, Good, UpHasData
<1>4. dir[q].cluster = dir[Pod0].cluster
  BY DEF Mismatch
<1>5. ASSUME env[q].state = "existing", env[q].peers = MemberIds(c) PROVE FALSE
  <2>1. dir[q].id \in env[q].peers
    BY <1>3, <1>5 DEF EnvIsMine
  <2>2. PICK m \in members[c] : m.id = dir[q].id
    BY <1>5, <2>1 DEF MemberIds
  <2> QED BY <1>1, <1>3, <1>4, <2>2 DEF Owned, DirIsMine
<1> QED BY <1>3, <1>4, <1>5 DEF Far

\* The member IDs of a cluster that does not serve stay as they are, unless it is founded.
LEMMA DownKeepsIds ==
  ASSUME OInv, NEW p \in Pods, Effect(p), ~EtcdBootstraps(p), NEW c \in Clusters, ~Serving(c)
  PROVE  MemberIds(c)' = MemberIds(c)
<1>0. MembersOK
  BY DEF OInv, IInv, TypesOK
<1>1. CASE UNCHANGED members
  BY <1>1 DEF MemberIds
<1>2. CASE EtcdJoins(p)
  <2>0. PICK d \in Clusters : \E m \in members[d], k \in Member :
           /\ k.id = m.id /\ k.url = m.url /\ m.url = p /\ k.learner = m.learner
           /\ Holds(p, d, m.id)'
           /\ \A e \in Clusters : members'[e] = IF e = d THEN (members[d] \ {m}) \cup {k} ELSE members[e]
           /\ \A e \in Clusters : Voters(e)' = IF e = d /\ ~m.learner
                                               THEN (Voters(d) \ {m}) \cup {k} ELSE Voters(e)
    BY <1>2, JoinedVoters DEF OInv, IInv, TypesOK, DirOK
  <2>1. PICK m \in members[d], k \in Member :
           /\ k.id = m.id
           /\ \A e \in Clusters : members'[e] = IF e = d THEN (members[d] \ {m}) \cup {k} ELSE members[e]
    BY <2>0
  <2> QED BY <2>1 DEF MemberIds
<1>3. ASSUME NEW d \in Reachable(p), NEW m \in members[d], Removes(p, d, m) \/ Promotes(p, d, m)
      PROVE  members'[c] = members[c]
  BY <1>0, <1>3 DEF Removes, Removed, Promotes, Promoted, MembersOK, Reachable
<1>4. ASSUME NEW d \in Reachable(p), NEW i \in Ids, Adds(p, d, i) PROVE members'[c] = members[c]
  BY <1>0, <1>4 DEF Adds, MemberAdd, MembersOK, Reachable
<1> QED BY <1>1, <1>2, <1>3, <1>4 DEF Effect, Quiet, Lists, MemberIds

\* A far pod stays far while its cluster does not serve.
LEMMA FarStays ==
  ASSUME OInv, JoinsBare, NoBareBoot, NEW p \in Pods, Step(p) \/ PromoteLosesAnswer(p) \/ Crash(p),
         ~EtcdBootstraps(p), NEW q \in Pods, NEW c \in Clusters, ~Serving(c), Far(q, c)
  PROVE  Far(q, c)'
<1>0. OnlyAt(p) /\ Effect(p) /\ IInv /\ TypesOK /\ MembersOK
      /\ dir \in [Pods -> Identity \cup {None, Partial}] /\ env \in [Pods -> Env]
      /\ None \notin Identity /\ Partial \notin Identity
  BY StepFacts, DirAssumption DEF OInv, IInv, TypesOK, DirOK, EnvOK
<1>1. MemberIds(c)' = MemberIds(c)
  BY <1>0, DownKeepsIds
<1>2. CASE q # p
  BY <1>0, <1>1, <1>2 DEF Far, OnlyAt
<1>3. CASE q = p /\ EtcdJoins(p)
  <2>1. PICK d \in Clusters : \E m \in members[d] :
          Joinable(p, d) /\ dir' = [dir EXCEPT ![p] = [cluster |-> d, id |-> m.id]]
    BY <1>3 DEF EtcdJoins
  <2>2. dir'[p].cluster = d /\ Joinable(p, d) /\ UNCHANGED env
    BY <1>0, <1>3, <2>1 DEF EtcdJoins, loopVars
  <2>3. d # c
    BY <1>3, <2>2 DEF Joinable, Far, MemberIds
  <2> QED BY <1>1, <1>3, <2>2, <2>3 DEF Far
<1>4. CASE q = p /\ AddMemberAndStart(p)
  <2>1. PICK d \in Reachable(p), i \in Ids :
          /\ MemberAdd(p, d, i)
          /\ env' = [env EXCEPT ![p] = BuildClusterConfig(p, members'[d])]
    BY <1>4 DEF AddMemberAndStart
  <2>2. d \in Clusters /\ d # c
    BY DEF Reachable
  <2>3. AddedMember(p, i) \in members'[d] /\ AddedMember(p, i).id = i
    BY <1>0, <2>1, <2>2 DEF MemberAdd, MembersOK, AddedMember
  <2>4. i \in env'[p].peers
    BY <1>0, <2>1, <2>3 DEF BuildClusterConfig
  <2>5. i \notin MemberIds(c)
    BY <2>1, NewIdIsNew DEF MemberAdd, MemberIds
  <2> QED BY <1>1, <1>4, <2>4, <2>5 DEF Far, AddMemberAndStart
<1>5. CASE q = p /\ ~EtcdJoins(p) /\ ~AddMemberAndStart(p)
  BY <1>0, <1>1, <1>5, EnvStep DEF Far
<1> QED BY <1>2, <1>3, <1>4, <1>5

\* Who has a match keeps it, or has just found it, while its etcd keeps its data.
LEMMA MatchBegins ==
  ASSUME IInv, NEW p \in Pods, Step(p) \/ PromoteLosesAnswer(p) \/ Crash(p), pc'[p] = "match"
  PROVE  /\ (\E q \in Pods : CompareMatches(p, q)) \/ pc[p] = "match"
         /\ dir'[p] = dir[p] /\ dir[p] \in Identity
<1>0. TypesOK /\ Good(p) /\ pc \in [Pods -> States]
  BY DEF IInv, Control, TypesOK, LoopOK
<1>1. CASE InitializeNewCluster(p)
  BY <1>0, <1>1 DEF InitializeNewCluster, Goto
<1>2. CASE Looks(p)
  <2>1. (\E q \in Pods : CompareMatches(p, q)) \/ pc[p] = "match"
    BY <1>0, <1>2 DEF Looks, CheckLocal, CollectOthers, CompareFails, CheckInconclusive, Goto
  <2>2. UNCHANGED dir /\ pc[p] \in Watching \ {"check"}
    BY <1>0, <1>2, <2>1, LooksOnly DEF CompareMatches, Compares, Watching
  <2> QED BY <1>0, <2>1, <2>2 DEF Good, Watched
<1>3. CASE Etcd(p) /\ UNCHANGED loopVars
  <2>1. UNCHANGED pc
    BY <1>3 DEF loopVars
  <2>2. dir[p] \in Identity
    BY <1>0, <2>1 DEF Good, Watched, Watching
  <2>3. UNCHANGED dir
    BY <1>3, <2>2, DirAssumption DEF Etcd, EtcdCreatesDir, EtcdBootstraps, EtcdJoins, EtcdBootFails,
                EtcdRestarts, EtcdStops, EtcdLearnsRemoved
  <2> QED BY <2>1, <2>2, <2>3
<1> QED BY <1>0, <1>1, <1>2, <1>3, WatchGoesOn DEF Watching

\* What the checker found stays true while it goes on comparing.
LEMMA ConfirmedStep ==
  ASSUME IsFiniteSet(Pods), Cardinality(Pods) <= 3, OInv, LoneFounder, NoBareBoot, JoinsBare, EnvIsMine,
         AsksOthers, Confirmed, NEW p \in Pods, Step(p) \/ PromoteLosesAnswer(p) \/ Crash(p)
  PROVE  Confirmed'
<1>0. IInv /\ TypesOK /\ OnlyAt(p) /\ Pod0 \in Pods
  BY StepFacts, Pod0Assumption DEF OInv, IInv
<1> SUFFICES ASSUME pc'[Pod0] = "match"
             PROVE  \E q \in Pods \ {Pod0} : \A c \in Clusters \ {dir'[Pod0].cluster} : Far(q, c)'
  BY DEF Confirmed
<1>1. dir'[Pod0] = dir[Pod0] /\ dir[Pod0] \in Identity
  <2>1. CASE p = Pod0
    BY <1>0, <2>1, MatchBegins
  <2>2. CASE p # Pod0
    <3>1. pc[Pod0] = "match" /\ dir'[Pod0] = dir[Pod0]
      BY <1>0, <2>2 DEF OnlyAt
    <3> QED BY <1>0, <3>1 DEF IInv, Control, Good, Watched, Watching
  <2> QED BY <2>1, <2>2
<1>2. ~EtcdBootstraps(p)
  <2> SUFFICES ASSUME EtcdBootstraps(p) PROVE FALSE
    OBVIOUS
  <2>1. p = Pod0
    BY FounderDecided
  <2> QED BY <1>1, <2>1, DirAssumption DEF EtcdBootstraps
<1>3. PICK q \in Pods \ {Pod0} : \A c \in Clusters \ {dir[Pod0].cluster} : Far(q, c)
  <2>1. CASE pc[Pod0] = "match"
    BY <2>1 DEF Confirmed
  <2>2. CASE pc[Pod0] # "match"
    <3>1. p = Pod0
      BY <1>0, <2>2 DEF OnlyAt
    <3>2. PICK q \in Pods : CompareMatches(Pod0, q)
      BY <1>0, <2>2, <3>1, MatchBegins
    <3>3. Answers(q) /\ ~Mismatch(Pod0, q)
      BY <3>2 DEF CompareMatches
    <3>4. q # Pod0
      BY <1>0, <3>2 DEF CompareMatches, Compares, AsksOthers, Watching
    <3> QED BY <3>3, <3>4, MatchIsFar
  <2> QED BY <2>1, <2>2
<1>4. \A c \in Clusters \ {dir[Pod0].cluster} : Far(q, c)'
  <2> SUFFICES ASSUME NEW c \in Clusters \ {dir[Pod0].cluster} PROVE Far(q, c)'
    OBVIOUS
  <2>1. ~Serving(c)
    BY <1>1, <1>3, FarIsDown
  <2> QED BY <1>2, <1>3, <2>1, FarStays
<1> QED BY <1>1, <1>4

\* What the checker relies on.
CheckInv == LoneFounder /\ AsksOthers /\ JoinsBare /\ EnvIsMine /\ Confirmed

\* When the checker is content, no other cluster serves (manager.go:530-652): with three
\* pods, whatever splits wrong probes, crashes and lost data lead to, and although the
\* pods go on between the checker's calls; unless a read of an IP file fails and a healthy
\* member is removed, or an etcd boots bare.  Each cluster has IDs of its own here, and a
\* checker that could not load its certificate never says that it is content.
THEOREM ContentOnlyWhenWhole ==
  ASSUME IsFiniteSet(Pods), Cardinality(Pods) <= 3, "file" \notin Faults
  PROVE  Spec /\ []NoBareBoot => VerifyMeansWhole
<1>1. Init => CheckInv
  BY Pod0Assumption
  DEF Init, CheckInv, LoneFounder, Voters, AsksOthers, JoinsBare, EnvIsMine, Confirmed, Watching, NoEnv
<1>2. OInv /\ NoneDead /\ NoBareBoot /\ CheckInv /\ [Next]_vars => CheckInv'
  <2> SUFFICES ASSUME OInv, NoneDead, NoBareBoot, CheckInv, [Next]_vars PROVE CheckInv'
    OBVIOUS
  <2>1. CASE UNCHANGED vars
    BY <2>1, StutterIsStill
    DEF Still, CheckInv, LoneFounder, Voters, AsksOthers, JoinsBare, EnvIsMine, Confirmed, Far, MemberIds
  <2>2. ASSUME NEW p \in Pods, Step(p) \/ PromoteLosesAnswer(p) \/ Crash(p) PROVE CheckInv'
    <3>1. LoneFounder'
      BY <2>2, LoneFounderStep DEF CheckInv
    <3>2. AsksOthers' /\ JoinsBare' /\ EnvIsMine'
      BY <2>2, AsksOthersStep, EnvIsMineStep DEF CheckInv, OInv
    <3>3. Confirmed'
      BY <2>2, ConfirmedStep DEF CheckInv
    <3> QED BY <3>1, <3>2, <3>3 DEF CheckInv
  <2> QED BY <2>1, <2>2 DEF Next
<1>3. OInv /\ CheckInv
      => (BrainSplitVerified(Pod0) => \A c \in Clusters \ {dir[Pod0].cluster} : ~Live(c))
  <2> SUFFICES ASSUME OInv, CheckInv, BrainSplitVerified(Pod0), NEW c \in Clusters \ {dir[Pod0].cluster}
               PROVE  ~Live(c)
    OBVIOUS
  <2>1. pc[Pod0] = "match" /\ Pod0 \in Pods
    BY Pod0Assumption DEF BrainSplitVerified, Verified
  <2>2. dir[Pod0] \in Identity
    BY <2>1 DEF OInv, IInv, Control, Good, Watched, Watching
  <2> QED BY <2>1, <2>2, FarIsDown DEF CheckInv, Confirmed, Live
<1> QED BY <1>1, <1>2, <1>3, OwnedInductive, NoneDeadInductive, PTL DEF Spec, VerifyMeansWhole

-----------------------------------------------------------------------------
(* When no etcd boots bare *)

\* Containers end before their etcd makes its directory, or after it has written a WAL.
StopsWhole == [][\A p \in Pods : Crash(p) \/ ProcessExit(p) => dir'[p] # Partial]_vars

\* Only a container that has called MemberAdd, or decided to found a cluster, has a
\* directory without a WAL.
WholeOrDecided == \A p \in Pods : env[p].state = "unset" => dir[p] # Partial

\* The environment is lost with the container, and only etcd begins a directory.
LEMMA PartialBegins ==
  ASSUME TypesOK, NEW p \in Pods, Step(p) \/ PromoteLosesAnswer(p) \/ Crash(p)
  PROVE  /\ env'[p].state = "unset" => env[p].state = "unset" \/ Crash(p) \/ ProcessExit(p)
         /\ dir'[p] = Partial => dir[p] = Partial \/ EtcdCreatesDir(p)
<1>0. None # Partial /\ \A x \in Identity : x # Partial
  BY DirAssumption
<1> USE DEF TypesOK, DirOK, EnvOK
<1>1. CASE Discover(p)
  BY <1>0, <1>1 DEF Discover, Probe, NoIPFiles, RetryNotReady, WaitForPod0, InitializeNewCluster
<1>2. ASSUME NEW v, UNCHANGED dir \/ HandleMemberJoin(p, v) PROVE dir'[p] = Partial => dir[p] = Partial
  BY <1>0, <1>2 DEF HandleMemberJoin, KeptData
<1>3. CASE MemberList(p)
  BY <1>2, <1>3 DEF MemberList
<1>4. ASSUME NEW id \in Ids, RemoveDeadMember(p, id)
      PROVE  UNCHANGED env /\ (dir'[p] = Partial => dir[p] = Partial)
  BY <1>2, <1>4 DEF RemoveDeadMember
<1>5. CASE AddMemberAndStart(p)
  <2>1. PICK c \in Reachable(p) : env' = [env EXCEPT ![p] = BuildClusterConfig(p, members'[c])]
    BY <1>5 DEF AddMemberAndStart
  <2>2. env'[p].state # "unset"
    BY <2>1 DEF BuildClusterConfig
  <2> QED BY <1>5, <2>2 DEF AddMemberAndStart
<1>6. CASE Join(p)
  BY <1>0, <1>3, <1>4, <1>5, <1>6
  DEF Join, MemberList, MemberListFails, RemoveSelf, RemoveSelfFails, AddMemberFails, PromoteStarted,
      PromoteStartedFails, PromoteExisting, PromoteExistingFails, CleanUp
<1>7. CASE Wait(p)
  <2>1. CASE Looks(p)
    BY <2>1, LooksOnly
  <2>2. CASE ~Looks(p)
    BY <1>7, <2>2, WaitSteps DEF BrainSplitDetected, BrainSplitVerified, SplitEtcdGone, ProcessExit
  <2> QED BY <2>1, <2>2
<1>8. CASE Etcd(p)
  <2>1. UNCHANGED env
    BY <1>8 DEF Etcd, EtcdCreatesDir, EtcdBootstraps, EtcdJoins, EtcdBootFails, EtcdRestarts,
                EtcdStops, EtcdLearnsRemoved, loopVars
  <2>2. dir'[p] = Partial => dir[p] = Partial \/ EtcdCreatesDir(p)
    BY <1>8 DEF Etcd, EtcdBootstraps, EtcdJoins, EtcdBootFails, EtcdRestarts, EtcdStops, EtcdLearnsRemoved
  <2> QED BY <2>1, <2>2
<1>9. CASE Restart(p) \/ PromoteLosesAnswer(p) \/ Crash(p)
  BY <1>0, <1>9 DEF Restart, PromoteLosesAnswer, Crash, loopVars
<1> QED BY <1>1, <1>6, <1>7, <1>8, <1>9 DEF Step

\* The bare boot (manager.go:208-209, 238) takes a container that ends between the moment
\* its etcd makes the directory and the moment it writes the WAL: by a crash, or because
\* its etcd could not join and exits (main.go:442-475).  If no container does, no etcd
\* ever founds a cluster that nobody decided to found, whatever else crashes or fails.
THEOREM WholeStopsFoundNothing == Spec /\ StopsWhole => []NoBareBoot
<1> DEFINE Whole == \A p \in Pods : Crash(p) \/ ProcessExit(p) => dir'[p] # Partial
<1>1. Init => WholeOrDecided
  BY DirAssumption DEF Init, WholeOrDecided
<1>2. IInv /\ WholeOrDecided /\ [Next]_vars /\ [Whole]_vars => WholeOrDecided'
  <2> SUFFICES ASSUME IInv, WholeOrDecided, [Next]_vars, [Whole]_vars PROVE WholeOrDecided'
    OBVIOUS
  <2>1. CASE UNCHANGED vars
    BY <2>1 DEF vars, loopVars, WholeOrDecided
  <2>2. ASSUME NEW p \in Pods, Step(p) \/ PromoteLosesAnswer(p) \/ Crash(p), Whole PROVE WholeOrDecided'
    <3>1. OnlyAt(p) /\ TypesOK /\ Good(p)
      BY <2>2, StepFacts DEF IInv, Control
    <3>2. ASSUME env'[p].state = "unset", dir'[p] = Partial PROVE FALSE
      <4>1. env[p].state = "unset" /\ (dir[p] = Partial \/ EtcdCreatesDir(p))
        BY <2>2, <3>1, <3>2, PartialBegins
      <4>2. EtcdCreatesDir(p)
        BY <4>1 DEF WholeOrDecided
      <4> QED BY <3>1, <4>1, <4>2 DEF EtcdCreatesDir, Good, BareHasDir
    <3> QED BY <3>1, <3>2 DEF OnlyAt, WholeOrDecided
  <2> QED BY <2>1, <2>2 DEF Next
<1>3. IInv /\ WholeOrDecided => NoBareBoot
  <2> SUFFICES ASSUME IInv, WholeOrDecided, NEW p \in Pods, BareBoot(p) PROVE FALSE
    BY DEF NoBareBoot
  <2>1. env[p].state = "unset" /\ etcd[p] = "boot" /\ dir[p] \in {None, Partial}
    BY DEF BareBoot, Founding, IInv, TypesOK, DirOK
  <2>2. dir[p] # None
    BY <2>1 DEF IInv, Control, Good, BareHasDir
  <2> QED BY <2>1, <2>2 DEF WholeOrDecided
<1> HIDE DEF Whole
<1>4. Spec /\ [][Whole]_vars => []NoBareBoot
  BY <1>1, <1>2, <1>3, Inductive, PTL DEF Spec
<1> QED BY <1>4 DEF StopsWhole, Whole

-----------------------------------------------------------------------------
(* One cluster *)

NoCluster == \A c \in Clusters : members[c] = {}

\* What the code wants of its probes (main.go:392-403): pod-0 finds nothing only when
\* there is nothing, that is, when no cluster has been founded yet.
FormsOnce == [][InitializeNewCluster(Pod0) => NoCluster]_vars

OneCluster == \A c, d \in Clusters : members[c] # {} /\ members[d] # {} => c = d

\* A pod-0 that is about to found a cluster founds the first one.
FoundsFirst ==
  etcd[Pod0] = "boot" /\ dir[Pod0] \notin Identity /\ env[Pod0].state = "new" => NoCluster

Single == OneCluster /\ FoundsFirst

\* Only a bootstrapping etcd gives a member to a cluster that has none.
LEMMA ClustersStay ==
  ASSUME TypesOK, NEW p \in Pods, Effect(p), ~EtcdBootstraps(p), NEW d \in Clusters, members'[d] # {}
  PROVE  members[d] # {}
<1>0. MembersOK /\ dir \in [Pods -> Identity \cup {None, Partial}]
  BY DEF TypesOK, DirOK
<1>1. CASE UNCHANGED members
  BY <1>1
<1>2. CASE EtcdJoins(p)
  <2>1. PICK c \in Clusters : \E m \in members[c] :
          members' = [members EXCEPT ![c] = (@ \ {m}) \cup {[m EXCEPT !.name = p]}]
    BY <1>2 DEF EtcdJoins
  <2> QED BY <1>0, <2>1 DEF MembersOK
<1>3. ASSUME NEW c \in Reachable(p), NEW m \in members[c], Removes(p, c, m) \/ Promotes(p, c, m)
      PROVE  members[d] # {}
  <2>1. d # c => members'[d] = members[d]
    BY <1>0, <1>3 DEF Removes, Removed, Promotes, Promoted, MembersOK, Reachable
  <2> QED BY <2>1
<1>4. ASSUME NEW c \in Reachable(p), NEW i \in Ids, Adds(p, c, i) PROVE members[d] # {}
  <2>1. d # c => members'[d] = members[d]
    BY <1>0, <1>4 DEF Adds, MemberAdd, MembersOK, Reachable
  <2>2. members[c] # {}
    BY DEF Reachable
  <2> QED BY <2>1, <2>2
<1> QED BY <1>1, <1>2, <1>3, <1>4 DEF Effect, Quiet, Lists

\* Where the "new" of an earlier decision survives, no etcd without data boots.
Strict(p) == env[p].state = "new" /\ etcd[p] = "boot" => dir[p] \in Identity

\* Joining, a pod never starts an etcd that would found a cluster by an old decision.
LEMMA JoinsStrictly ==
  ASSUME IInv, NEW p \in Pods, Join(p) PROVE Strict(p)'
<1>0. TypesOK /\ Good(p) /\ Control /\ Typed
  BY DEF IInv, Control, TypesOK, Typed, LoopOK, EnvOK, EtcdOK, DirOK
<1>1. pc[p] \in {"discover", "remove", "removeSelf", "add", "promote", "promoteFirst", "cleanUp"}
  BY DEF Join, MemberList, Discovered, MemberListFails, RemoveDeadMember, RemoveSelf, RemoveSelfFails,
         AddMemberAndStart, AddMemberFails, PromoteStarted, PromoteStartedFails, PromoteExisting,
         PromoteExistingFails, CleanUp
<1>2. env[p].state = "new" =>
        /\ dir[p] # Partial /\ (etcd[p] = "boot" => dir[p] \in Identity)
        /\ (pc[p] # "promote" => etcd[p] # "boot")
  <2>1. env[p].state = "new" => dir[p] # Partial /\ (etcd[p] = "boot" => dir[p] # None)
    BY <1>0, <1>1 DEF Good, NewEnv, Unwatched, Watching
  <2>2. pc[p] # "promote" => etcd[p] \in {"off", "term"}
    BY <1>0, <1>1 DEF Good, Idle, IdleStates
  <2>3. dir[p] \in Identity \cup {None, Partial}
    BY <1>0 DEF Typed
  <2> QED BY <2>1, <2>2, <2>3
<1>3. ASSUME NEW v \in View, HandleMemberJoin(p, v), pc[p] # "promote", UNCHANGED env PROVE Strict(p)'
  <2>1. CASE JoinStep(p, v) = "wait"
    <3>1. dir[p] # None /\ v.id # None
      BY <1>0, <2>1, JoinStepType, NoneIsNoId DEF TypesOK
    <3>2. dir'[p] = dir[p]
      BY <1>0, <1>3, <3>1 DEF HandleMemberJoin, KeptData, Typed
    <3> QED BY <1>0, <1>2, <1>3, <3>1, <3>2 DEF Strict, Typed
  <2>2. CASE JoinStep(p, v) # "wait"
    <3>1. UNCHANGED etcd
      BY <1>3, <2>2 DEF HandleMemberJoin
    <3> QED BY <1>2, <1>3, <3>1 DEF Strict
  <2> QED BY <2>1, <2>2
<1>4. CASE MemberList(p)
  <2>1. PICK c \in Reachable(p) : \E v \in ProcessMembers(p, c) :
          UNCHANGED <<etcd, dir>> \/ HandleMemberJoin(p, v)
    BY <1>4 DEF MemberList
  <2>2. PICK v \in ProcessMembers(p, c) : UNCHANGED <<etcd, dir>> \/ HandleMemberJoin(p, v)
    BY <2>1
  <2>3. v \in View /\ pc[p] # "promote" /\ UNCHANGED env
    BY <1>0, <1>4, ProcessMembersType DEF MemberList, Discovered, Reachable, TypesOK
  <2> QED BY <1>2, <1>3, <2>2, <2>3 DEF Strict
<1>5. ASSUME NEW id \in Ids, RemoveDeadMember(p, id) PROVE Strict(p)'
  <2> DEFINE v == [view[p] EXCEPT !.doomed = @ \ {id}]
  <2>1. v \in View
    BY <1>0 DEF TypesOK, LoopOK, View
  <2>2. UNCHANGED <<etcd, dir>> \/ HandleMemberJoin(p, v)
    BY <1>5 DEF RemoveDeadMember
  <2> HIDE DEF v
  <2>3. pc[p] # "promote" /\ UNCHANGED env
    BY <1>5 DEF RemoveDeadMember
  <2> QED BY <1>2, <1>3, <2>1, <2>2, <2>3 DEF Strict
<1>6. CASE AddMemberAndStart(p)
  <2>1. PICK c \in Reachable(p) : env' = [env EXCEPT ![p] = BuildClusterConfig(p, members'[c])]
    BY <1>6 DEF AddMemberAndStart
  <2>2. env'[p].state # "new"
    BY <1>0, <2>1 DEF Typed, BuildClusterConfig
  <2> QED BY <2>2 DEF Strict
<1>7. CASE PromoteExisting(p)
  <2>1. dir'[p] = dir[p] /\ env'[p] = env[p] /\ dir[p] # None /\ dir[p] \in Identity \cup {None, Partial}
        /\ pc[p] # "promote"
    BY <1>0, <1>7 DEF PromoteExisting, Good, PromotesData, Typed
  <2> QED BY <1>2, <2>1 DEF Strict
<1>8. CASE PromoteStartedFails(p)
  BY <1>0, <1>8 DEF PromoteStartedFails, TerminateEtcd, Strict, Typed
<1>9. CASE CleanUp(p)
  BY <1>2, <1>9 DEF CleanUp, Strict
<1>10. CASE MemberListFails(p) \/ RemoveSelf(p) \/ RemoveSelfFails(p) \/ AddMemberFails(p)
            \/ PromoteStarted(p) \/ PromoteExistingFails(p)
  BY <1>2, <1>10 DEF MemberListFails, RemoveSelf, RemoveSelfFails, AddMemberFails, PromoteStarted,
                     PromoteExistingFails, Strict
<1> QED BY <1>4, <1>5, <1>6, <1>7, <1>8, <1>9, <1>10 DEF Join

\* An etcd that is about to found a cluster by a decision of pod-0's was about to do so, or
\* this is the decision.
LEMMA FoundingBegins ==
  ASSUME IInv, NEW p \in Pods, Step(p) \/ PromoteLosesAnswer(p) \/ Crash(p), ~Strict(p)'
  PROVE  InitializeNewCluster(p) \/ ~Strict(p)
<1>0. TypesOK /\ dir[p] \in Identity \cup {None, Partial} /\ None \notin Identity /\ Partial \notin Identity
  BY DirAssumption DEF IInv, TypesOK, DirOK
<1>1. CASE Discover(p)
  BY <1>1 DEF Discover, Probe, NoIPFiles, RetryNotReady, WaitForPod0, Strict
<1>2. CASE Join(p)
  BY <1>2, JoinsStrictly
<1>3. CASE Wait(p)
  <2>1. CASE Looks(p)
    BY <2>1, LooksOnly, <1>0 DEF Strict
  <2>2. CASE \E q \in Pods : BrainSplitDetected(p, q)
    BY <1>0, <2>2 DEF BrainSplitDetected, TerminateEtcd, Strict, TypesOK, EtcdOK
  <2>3. CASE BrainSplitVerified(p) \/ SplitEtcdGone(p)
    BY <2>3 DEF BrainSplitVerified, SplitEtcdGone, Strict
  <2>4. CASE ProcessExit(p)
    BY <1>0, <2>4 DEF ProcessExit, Stop, Strict, TypesOK, EtcdOK
  <2> QED BY <1>3, <2>1, <2>2, <2>3, <2>4, WaitSteps
<1>4. CASE Etcd(p)
  <2>1. UNCHANGED env
    BY <1>4 DEF Etcd, EtcdCreatesDir, EtcdBootstraps, EtcdJoins, EtcdBootFails, EtcdRestarts,
                EtcdStops, EtcdLearnsRemoved, loopVars
  <2>2. etcd'[p] = "boot" => etcd[p] = "boot"
    BY <1>0, <1>4 DEF Etcd, EtcdCreatesDir, EtcdBootstraps, EtcdJoins, EtcdBootFails, EtcdRestarts,
                EtcdStops, EtcdLearnsRemoved, TypesOK, EtcdOK
  <2>3. dir[p] \in Identity => dir'[p] = dir[p]
    BY <1>0, <1>4 DEF Etcd, EtcdCreatesDir, EtcdBootstraps, EtcdJoins, EtcdBootFails, EtcdRestarts,
                EtcdStops, EtcdLearnsRemoved
  <2> QED BY <2>1, <2>2, <2>3 DEF Strict
<1>5. CASE Restart(p) \/ PromoteLosesAnswer(p)
  BY <1>5 DEF Restart, PromoteLosesAnswer, loopVars, Strict
<1>6. CASE Crash(p)
  BY <1>0, <1>6 DEF Crash, Stop, Strict, TypesOK, EtcdOK
<1> QED BY <1>1, <1>2, <1>3, <1>4, <1>5, <1>6 DEF Step

\* There is one cluster as long as pod-0 decides to found one only when there is none.
LEMMA SingleStep ==
  ASSUME OInv, Single, NoBareBoot, NEW p \in Pods, Step(p) \/ PromoteLosesAnswer(p) \/ Crash(p),
         InitializeNewCluster(Pod0) => NoCluster
  PROVE  Single'
<1>0. TypesOK /\ OnlyAt(p) /\ Good(p)' /\ Effect(p) /\ Pod0 \in Pods
  BY StepFacts, Pod0Assumption DEF OInv, IInv
<1>1. EtcdBootstraps(p) => p = Pod0 /\ NoCluster /\ dir'[p] \in Identity
  <2> SUFFICES ASSUME EtcdBootstraps(p) PROVE p = Pod0 /\ NoCluster /\ dir'[p] \in Identity
    OBVIOUS
  <2>1. p = Pod0 /\ env[p].state = "new"
    BY FounderDecided
  <2>2. NoCluster
    BY <2>1, DirAssumption DEF EtcdBootstraps, Single, FoundsFirst
  <2>3. PICK c \in Clusters, i \in Ids : dir' = [dir EXCEPT ![p] = [cluster |-> c, id |-> i]]
    BY DEF EtcdBootstraps
  <2>4. dir'[p] \in Identity
    BY <1>0, <2>3 DEF TypesOK, DirOK, Identity
  <2> QED BY <2>1, <2>2, <2>4
<1>2. OneCluster'
  <2>1. CASE EtcdBootstraps(p)
    <3>1. PICK c \in Clusters, i \in Ids :
            members' = [members EXCEPT ![c] = {[id |-> i, url |-> p, name |-> p, learner |-> FALSE]}]
      BY <2>1 DEF EtcdBootstraps
    <3>2. \A d \in Clusters : d # c => members'[d] = {}
      BY <1>0, <1>1, <2>1, <3>1 DEF TypesOK, MembersOK, NoCluster
    <3> QED BY <3>2 DEF OneCluster
  <2>2. CASE ~EtcdBootstraps(p)
    BY <1>0, <2>2, ClustersStay DEF Single, OneCluster
  <2> QED BY <2>1, <2>2
<1>3. FoundsFirst'
  <2> SUFFICES ASSUME etcd'[Pod0] = "boot", dir'[Pod0] \notin Identity, env'[Pod0].state = "new"
               PROVE  NoCluster'
    BY DEF FoundsFirst
  <2>1. ~EtcdBootstraps(p)
    BY <1>1
  <2>2. NoCluster => NoCluster'
    BY <1>0, <2>1, ClustersStay DEF NoCluster
  <2>3. CASE p # Pod0
    BY <1>0, <2>2, <2>3 DEF OnlyAt, Single, FoundsFirst
  <2>4. CASE p = Pod0
    <3>1. ~Strict(p)'
      BY <2>4 DEF Strict
    <3>3. CASE InitializeNewCluster(Pod0)
      BY <2>2, <3>3
    <3>4. CASE ~Strict(p)
      BY <2>2, <2>4, <3>4 DEF Single, FoundsFirst, Strict
    <3> QED BY <1>0, <2>4, <3>1, <3>3, <3>4, FoundingBegins DEF OInv
  <2> QED BY <2>3, <2>4
<1> QED BY <1>2, <1>3 DEF Single

\* At first there is no cluster.
LEMMA SingleInit ==
  ASSUME Init PROVE Single
BY Pod0Assumption DEF Init, Single, OneCluster, FoundsFirst, NoEnv

\* Nothing else founds one either: stutters do not.
LEMMA SingleStutters ==
  ASSUME Single, UNCHANGED vars PROVE Single'
BY DEF vars, loopVars, Single, OneCluster, FoundsFirst, NoCluster

\* As long as pod-0 decides to found a cluster only when there is none, there is one.
LEMMA SingleInductive == Spec /\ FormsOnce /\ []NoBareBoot => []Single
<1> DEFINE First == InitializeNewCluster(Pod0) => NoCluster
<1>1. OInv /\ Single /\ NoBareBoot /\ [Next]_vars /\ [First]_vars => Single'
  <2> SUFFICES ASSUME OInv, Single, NoBareBoot, [Next]_vars, [First]_vars PROVE Single'
    OBVIOUS
  <2>1. CASE UNCHANGED vars
    BY <2>1, SingleStutters
  <2>2. CASE ~UNCHANGED vars
    BY <2>2, SingleStep DEF Next
  <2> QED BY <2>1, <2>2
<1>2. Init => Single
  BY SingleInit
<1> QED BY <1>1, <1>2, OwnedInductive, PTL DEF Spec, FormsOnce

\* There are two ways to a second cluster only: pod-0 decides to found one although
\* there is one (main.go:392-403), or a container that restarted boots an etcd bare
\* (manager.go:208-209, 238).  Without them no stale ETCD_INITIAL_CLUSTER_STATE=new, no
\* data directory that survives a crash, no restart of a terminating etcd and no failed
\* or repeated membership call makes two clusters serve at one time.
THEOREM OneClusterServes == Spec /\ FormsOnce /\ []NoBareBoot => []OneServing
<1>1. Single => OneServing
  BY DEF Single, OneCluster, OneServing, Live
<1> QED BY <1>1, SingleInductive, PTL

-----------------------------------------------------------------------------
(* When pod-0 founds the first cluster only: what it takes of the environment *)

\* Whenever pod-0 probes although a cluster exists, the etcd of q runs.
Attended(q) == pc[Pod0] = "discover" /\ ~NoCluster => etcd[q] = "up"

\* pod-0 has found q's etcd, or has not probed q yet.
Meets(q) ==
  pc[Pod0] = "discover" /\ ~NoCluster => q \in todo[Pod0] \cup ready[Pod0] \cup notReady[Pod0]

\* A pod that probes has just begun, has probed, or is where it was.
LEMMA SearchBegins ==
  ASSUME TypesOK, NEW p \in Pods, Step(p) \/ PromoteLosesAnswer(p) \/ Crash(p), pc'[p] = "discover"
  PROVE  \/ todo'[p] = Pods
         \/ \E Q \in ProbeSets : Probe(p, Q)
         \/ NoIPFiles(p)
         \/ pc[p] = "discover" /\ UNCHANGED loopVars
<1> USE DEF TypesOK, LoopOK
<1>1. CASE Discover(p)
  BY <1>1 DEF Discover, RetryNotReady, WaitForPod0, InitializeNewCluster, Loop, Goto
<1>2. CASE Join(p)
  <2>1. ASSUME NEW v \in View, HandleMemberJoin(p, v) PROVE pc'[p] # "discover"
    <3>1. JoinStep(p, v) # "discover"
      BY JoinStepType
    <3> QED BY <2>1, <3>1 DEF HandleMemberJoin, WaitExit, Goto
  <2>2. CASE MemberList(p)
    <3>1. PICK c \in Reachable(p) : \E v \in ProcessMembers(p, c) :
            Goto(p, "remove") \/ HandleMemberJoin(p, v)
      BY <2>2 DEF MemberList
    <3>2. c \in Clusters
      BY DEF Reachable
    <3> QED BY <2>1, <3>1, <3>2, ProcessMembersType DEF Goto
  <2>3. ASSUME NEW id \in Ids, RemoveDeadMember(p, id) PROVE FALSE
    <3>1. [view[p] EXCEPT !.doomed = @ \ {id}] \in View
      BY DEF View
    <3> QED BY <2>1, <2>3, <3>1 DEF RemoveDeadMember
  <2>4. CASE AddMemberAndStart(p)
    BY <2>4 DEF AddMemberAndStart, Goto, WaitExit
  <2> QED BY <1>2, <2>2, <2>3, <2>4
      DEF Join, MemberListFails, RemoveSelf, RemoveSelfFails, AddMemberFails, PromoteStarted,
          PromoteStartedFails, PromoteExisting, PromoteExistingFails, CleanUp, Loop, Goto, WaitExit
<1>3. CASE Wait(p)
  <2>1. CASE Looks(p)
    BY <2>1, LooksOnly DEF Watching
  <2> QED BY <1>3, <2>1, WaitSteps
      DEF BrainSplitDetected, BrainSplitVerified, SplitEtcdGone, ProcessExit, Goto, Loop, Stop
<1>4. CASE Restart(p) \/ Crash(p)
  BY <1>4 DEF Restart, Crash, Loop, Stop
<1>5. CASE Etcd(p) \/ PromoteLosesAnswer(p)
  <2>1. UNCHANGED loopVars
    BY <1>5 DEF Etcd, EtcdCreatesDir, EtcdBootstraps, EtcdJoins, EtcdBootFails, EtcdRestarts,
                EtcdStops, EtcdLearnsRemoved, PromoteLosesAnswer
  <2> QED BY <2>1 DEF loopVars
<1> QED BY <1>1, <1>2, <1>3, <1>4, <1>5 DEF Step

\* Without a fault of the probes, one of a running etcd finds it.
LEMMA ProbeFinds ==
  ASSUME {"probe", "file", "dir"} \cap Faults = {}, TypesOK, NEW p \in Pods, NEW Q, Probe(p, Q),
         NEW q \in todo[p], etcd[q] = "up"
  PROVE  q \in todo'[p] \cup ready'[p] \cup notReady'[p]
<1>1. PICK r \in [Q -> {"ready", "notReady", "unreachable", "dead"}] :
        /\ \/ (\A n \in Q : r[n] \in Health(n)) /\ UNCHANGED faults
           \/ Fault("probe") /\ \A n \in Q : r[n] \in Health(n) \cup ProbeFault(n)
           \/ Fault("file") /\ \A n \in Q : r[n] \in Health(n) \cup {"dead"}
        /\ ready' = [ready EXCEPT ![p] = @ \cup {n \in Q : r[n] = "ready"}]
        /\ notReady' = [notReady EXCEPT ![p] = @ \cup {n \in Q : r[n] = "notReady"}]
  BY DEF Probe
<1>2. todo'[p] = todo[p] \ Q
  BY DEF Probe, TypesOK, LoopOK
<1>3. CASE q \in Q
  <2>1. r[q] \in Health(q)
    BY <1>1, <1>3 DEF Fault
  <2>2. Health(q) \subseteq {"ready", "notReady"}
    BY DEF Health
  <2> QED BY <1>1, <1>3, <2>1, <2>2 DEF TypesOK, LoopOK
<1> QED BY <1>2, <1>3

\* A pod that probes founds no cluster meanwhile.
LEMMA SearchersFoundNothing ==
  ASSUME OInv, NoBareBoot, NEW p \in Pods, Effect(p), NoCluster, ~NoCluster'
  PROVE  EtcdBootstraps(p) /\ p = Pod0 /\ pc[Pod0] \in Watching \cup {"wait"}
<1>1. EtcdBootstraps(p)
  BY ClustersStay DEF NoCluster, OInv, IInv
<1> QED BY <1>1, FounderDecided

\* So pod-0 meets q in every round of its probes.
LEMMA MeetsStep ==
  ASSUME {"probe", "file", "dir"} \cap Faults = {}, OInv, NoBareBoot, NEW q \in Pods, Meets(q), Attended(q),
         NEW p \in Pods, Step(p) \/ PromoteLosesAnswer(p) \/ Crash(p)
  PROVE  Meets(q)'
<1>0. TypesOK /\ OnlyAt(p) /\ Effect(p) /\ Pod0 \in Pods
  BY StepFacts, Pod0Assumption DEF OInv, IInv
<1> SUFFICES ASSUME pc'[Pod0] = "discover", ~NoCluster'
             PROVE  q \in todo'[Pod0] \cup ready'[Pod0] \cup notReady'[Pod0]
  BY DEF Meets
<1>1. CASE p # Pod0
  <2>1. pc[Pod0] = "discover" /\ ~NoCluster
    BY <1>0, <1>1, SearchersFoundNothing DEF OnlyAt, Watching
  <2> QED BY <1>0, <1>1, <2>1, SearchOnlyAt DEF Meets
<1>2. CASE p = Pod0
  <2>1. CASE todo'[Pod0] = Pods
    BY <2>1
  <2>2. ASSUME NEW Q \in ProbeSets, Probe(Pod0, Q)
        PROVE  q \in todo'[Pod0] \cup ready'[Pod0] \cup notReady'[Pod0]
    <3>1. pc[Pod0] = "discover" /\ ~NoCluster
      BY <2>2 DEF Probe, NoCluster
    <3>2. etcd[q] = "up" /\ q \in todo[Pod0] \cup ready[Pod0] \cup notReady[Pod0]
      BY <3>1 DEF Attended, Meets
    <3>3. ready[Pod0] \subseteq ready'[Pod0] /\ notReady[Pod0] \subseteq notReady'[Pod0]
      BY <1>0, <2>2 DEF Probe, TypesOK, LoopOK
    <3> QED BY <1>0, <2>2, <3>2, <3>3, ProbeFinds
  <2>3. CASE pc[Pod0] = "discover" /\ UNCHANGED loopVars
    <3>1. ~NoCluster
      BY <1>0, <2>3, SearchersFoundNothing DEF Watching
    <3> QED BY <2>3, <3>1 DEF Meets, loopVars
  <2>4. ~NoIPFiles(Pod0)
    BY DEF NoIPFiles, Fault
  <2> QED BY <1>0, <1>2, <2>1, <2>2, <2>3, <2>4, SearchBegins
<1> QED BY <1>1, <1>2

\* The default of the code, made precise (main.go:392-403): if no probe of a live
\* endpoint goes wrong, nodeIPDir is never empty and no etcd boots bare, and whenever
\* pod-0 probes the etcd of some other pod runs, then pod-0 never founds a second cluster,
\* whatever crashes, data losses and failed membership calls there are elsewhere, and
\* there are never two that serve.
THEOREM ReliableProbesSuffice ==
  ASSUME NEW q \in Pods, {"probe", "file", "dir"} \cap Faults = {}
  PROVE  Spec /\ []NoBareBoot /\ []Attended(q) => FormsOnce /\ []OneServing
<1> DEFINE First == InitializeNewCluster(Pod0) => NoCluster
<1>1. Init => Meets(q)
  BY Pod0Assumption DEF Init, Meets
<1>2. OInv /\ NoBareBoot /\ Meets(q) /\ Attended(q) /\ [Next]_vars => Meets(q)'
  <2> SUFFICES ASSUME OInv, NoBareBoot, Meets(q), Attended(q), [Next]_vars PROVE Meets(q)'
    OBVIOUS
  <2>1. CASE UNCHANGED vars
    BY <2>1 DEF vars, loopVars, Meets, NoCluster
  <2> QED BY <2>1, MeetsStep DEF Next
<1>3. Meets(q) => First
  BY DEF Meets, InitializeNewCluster, NothingAnswers, Discovered
<1>4. Spec /\ []NoBareBoot /\ []Attended(q) => []Meets(q)
  BY <1>1, <1>2, OwnedInductive, PTL DEF Spec
<1>5. Spec /\ []NoBareBoot /\ []Attended(q) => [][First]_vars
  BY <1>3, <1>4, PTL
<1>6. Spec /\ []NoBareBoot /\ []Attended(q) => FormsOnce
  BY <1>5 DEF FormsOnce
<1> QED BY <1>6, OneClusterServes, PTL

\* pod-0's container crashes, if ever, before the first cluster is founded.
StaysUp == [][Crash(Pod0) => NoCluster]_vars

\* Once there is a cluster, pod-0 is a member of it and waits for its own etcd.
Founded ==
  ~NoCluster =>
    /\ pc[Pod0] \in Watching \cup {"wait"} /\ etcd[Pod0] = "up" /\ dir[Pod0] \in Identity
    /\ \E m \in members[dir[Pod0].cluster] : m.id = dir[Pod0].id

\* pod-0's member stays in its cluster's list.
LEMMA FounderStays ==
  ASSUME OInv, NoneDead, Founded, ~NoCluster, NEW p \in Pods, Effect(p), ~EtcdBootstraps(p)
  PROVE  \E m \in members'[dir[Pod0].cluster] : m.id = dir[Pod0].id
<1> DEFINE c0 == dir[Pod0].cluster
<1>0. TypesOK /\ MembersOK /\ Distinct /\ dir \in [Pods -> Identity \cup {None, Partial}]
  BY DEF OInv, IInv, TypesOK, DirOK, Owned
<1>1. PICK m0 \in members[c0] : m0.id = dir[Pod0].id
  BY DEF Founded
<1>2. c0 \in Clusters /\ dir[Pod0] \in Identity /\ pc[Pod0] \in Watching \cup {"wait"}
  BY DEF Founded, Identity
<1>3. m0.url = Pod0
  BY <1>1, <1>2, Pod0Assumption DEF OInv, Owned, DirIsMine
<1> HIDE DEF c0
<1>4. CASE UNCHANGED members
  BY <1>1, <1>4 DEF c0
<1>5. CASE EtcdJoins(p)
  <2>1. PICK c \in Clusters : \E m \in members[c], k \in Member :
           /\ k.id = m.id /\ k.url = m.url /\ m.url = p /\ k.learner = m.learner
           /\ Holds(p, c, m.id)'
           /\ \A e \in Clusters : members'[e] = IF e = c THEN (members[c] \ {m}) \cup {k} ELSE members[e]
           /\ \A e \in Clusters : Voters(e)' = IF e = c /\ ~m.learner
                                               THEN (Voters(c) \ {m}) \cup {k} ELSE Voters(e)
    BY <1>0, <1>5, JoinedVoters
  <2>2. PICK m \in members[c], k \in Member :
           /\ k.id = m.id
           /\ \A e \in Clusters : members'[e] = IF e = c THEN (members[c] \ {m}) \cup {k} ELSE members[e]
    BY <2>1
  <2>3. \E n \in members'[c0] : n.id = m0.id
    BY <1>1, <1>2, <2>2
  <2> QED BY <1>1, <2>3 DEF c0
<1>6. ASSUME NEW c \in Reachable(p), NEW m \in members[c], Removes(p, c, m)
      PROVE  \E n \in members'[c0] : n.id = m0.id
  <2>1. c \in Clusters /\ members' = Removed(c, m)
    BY <1>6 DEF Reachable, Removes
  <2>2. m.url = p /\ pc[p] \in {"removeSelf", "cleanUp"}
    BY <1>6, <2>1, RemoverIsDown
  <2>3. m # m0
    BY <1>2, <1>3, <2>2 DEF Watching
  <2>4. members'[c0] = IF c0 = c THEN members[c] \ {m} ELSE members[c0]
    BY <1>0, <1>2, <2>1 DEF Removed, MembersOK
  <2> QED BY <1>1, <2>3, <2>4
<1>7. ASSUME NEW c \in Reachable(p), NEW m \in members[c], Promotes(p, c, m)
      PROVE  \E n \in members'[c0] : n.id = m0.id
  <2> DEFINE k == [m EXCEPT !.learner = FALSE]
  <2>1. c \in Clusters /\ m \in Member
    BY <1>0 DEF Reachable, MembersOK
  <2>2. k.id = m.id
    BY <2>1 DEF Member
  <2>3. members' = [members EXCEPT ![c] = (@ \ {m}) \cup {k}]
    BY <1>7 DEF Promotes, Promoted
  <2> HIDE DEF k
  <2>4. members'[c0] = IF c0 = c THEN (members[c] \ {m}) \cup {k} ELSE members[c0]
    BY <1>0, <1>2, <2>1, <2>3 DEF MembersOK
  <2> QED BY <1>1, <2>2, <2>4
<1>8. ASSUME NEW c \in Reachable(p), NEW i \in Ids, Adds(p, c, i)
      PROVE  \E n \in members'[c0] : n.id = m0.id
  <2>1. members[c0] \subseteq members'[c0]
    BY <1>0, <1>2, <1>8 DEF Adds, MemberAdd, MembersOK, Reachable
  <2> QED BY <1>1, <2>1
<1> QED BY <1>1, <1>4, <1>5, <1>6, <1>7, <1>8 DEF Effect, Quiet, Lists, c0

\* No cluster but its own contradicts pod-0, so it never finds a split.
LEMMA NothingContradicts ==
  ASSUME OInv, Single, Founded, ~NoCluster, NEW q \in Pods, Answers(q)
  PROVE  ~Mismatch(Pod0, q)
<1>1. "ready" \in Health(q)
  BY DEF Answers
<1>2. etcd[q] = "up" /\ \E m \in Voters(dir[q].cluster) : m.url = q /\ m.id = dir[q].id
  <2>1. etcd[q] \in {"off", "boot", "up", "term"}
    BY <1>1 DEF OInv, IInv, TypesOK, EtcdOK
  <2>2. etcd[q] = "up"
    BY <1>1, <2>1 DEF Health
  <2> QED BY <1>1, <2>2 DEF Health
<1>3. dir[q].cluster \in Clusters /\ members[dir[q].cluster] # {}
  BY <1>1, <1>2 DEF OInv, IInv, Control, Good, UpHasData, Identity, Voters
<1>4. dir[Pod0].cluster \in Clusters /\ \E m \in members[dir[Pod0].cluster] : m.id = dir[Pod0].id
  BY DEF Founded, Identity
<1>5. dir[q].cluster = dir[Pod0].cluster
  BY <1>3, <1>4 DEF Single, OneCluster
<1> QED BY <1>4, <1>5 DEF Mismatch

\* pod-0 stays where it is: a crash apart, only its own removal would stop its etcd.
LEMMA FoundedStep ==
  ASSUME OInv, NoBareBoot, NoneDead, Single, Founded, NEW p \in Pods,
         Step(p) \/ PromoteLosesAnswer(p) \/ Crash(p), Crash(Pod0) => NoCluster
  PROVE  Founded'
<1>0. TypesOK /\ OnlyAt(p) /\ Effect(p) /\ Pod0 \in Pods
  BY StepFacts, Pod0Assumption DEF OInv, IInv
<1> SUFFICES ASSUME ~NoCluster' PROVE Founded'
  BY DEF Founded
<1>1. CASE EtcdBootstraps(p)
  <2>1. p = Pod0 /\ pc[Pod0] \in Watching \cup {"wait"}
    BY <1>1, FounderDecided
  <2>2. PICK c \in Clusters, i \in Ids :
          /\ members' = [members EXCEPT ![c] = {[id |-> i, url |-> p, name |-> p, learner |-> FALSE]}]
          /\ dir' = [dir EXCEPT ![p] = [cluster |-> c, id |-> i]]
    BY <1>1 DEF EtcdBootstraps
  <2>3. pc' = pc /\ etcd'[Pod0] = "up"
    BY <1>0, <1>1, <2>1 DEF EtcdBootstraps, loopVars, TypesOK, EtcdOK
  <2>4. dir'[Pod0] = [cluster |-> c, id |-> i]
    BY <1>0, <2>1, <2>2 DEF TypesOK, DirOK
  <2>5. members'[c] = {[id |-> i, url |-> p, name |-> p, learner |-> FALSE]}
    BY <1>0, <2>2 DEF TypesOK, MembersOK
  <2>6. dir'[Pod0] \in Identity /\ dir'[Pod0].cluster = c /\ dir'[Pod0].id = i
    BY <2>4 DEF Identity
  <2>7. \E m \in members'[c] : m.id = i
    BY <2>5
  <2> QED BY <2>1, <2>3, <2>6, <2>7 DEF Founded
<1>2. CASE ~EtcdBootstraps(p)
  <2>1. ~NoCluster
    BY <1>0, <1>2, SearchersFoundNothing
  <2>2. /\ pc[Pod0] \in Watching \cup {"wait"} /\ etcd[Pod0] = "up" /\ dir[Pod0] \in Identity
        /\ \E m \in members[dir[Pod0].cluster] : m.id = dir[Pod0].id
    BY <2>1 DEF Founded
  <2>3. \E m \in members'[dir[Pod0].cluster] : m.id = dir[Pod0].id
    BY <1>0, <1>2, <2>1, FounderStays
  <2>4. CASE p # Pod0
    BY <1>0, <2>2, <2>3, <2>4 DEF OnlyAt, Founded
  <2>5. CASE p = Pod0
    <3>1. ~Crash(Pod0) /\ ~Restart(Pod0) /\ ~Discover(Pod0) /\ ~Join(Pod0) /\ ~PromoteLosesAnswer(Pod0)
      BY <2>1, <2>2
      DEF Restart, Discover, Probe, NoIPFiles, RetryNotReady, WaitForPod0, InitializeNewCluster,
          NothingAnswers, Discovered, Join, MemberList, MemberListFails, RemoveDeadMember, RemoveSelf,
          RemoveSelfFails, AddMemberAndStart, AddMemberFails, PromoteStarted, PromoteStartedFails,
          PromoteExisting, PromoteExistingFails, CleanUp, PromoteLosesAnswer, Watching
    <3>2. ~Etcd(Pod0)
      BY <2>2 DEF Etcd, EtcdCreatesDir, EtcdBootstraps, EtcdJoins, EtcdBootFails, EtcdRestarts,
                  EtcdStops, EtcdLearnsRemoved
    <3>3. \A q \in Pods : ~BrainSplitDetected(Pod0, q)
      BY <2>1, NothingContradicts DEF BrainSplitDetected
    <3>4. ~SplitEtcdGone(Pod0) /\ ~ProcessExit(Pod0)
      BY <2>2 DEF SplitEtcdGone, ProcessExit, Watching
    <3>5. Looks(Pod0) \/ BrainSplitVerified(Pod0)
      BY <1>0, <2>5, <3>1, <3>2, <3>3, <3>4, WaitSteps DEF Step
    <3>6. pc'[Pod0] \in Watching \cup {"wait"} /\ UNCHANGED <<etcd, dir>>
      <4>1. CASE Looks(Pod0)
        BY <1>0, <4>1, LooksOnly DEF TypesOK, LoopOK
      <4>2. CASE BrainSplitVerified(Pod0)
        BY <1>0, <4>2 DEF BrainSplitVerified, Goto, TypesOK, LoopOK
      <4> QED BY <3>5, <4>1, <4>2
    <3> QED BY <2>2, <2>3, <3>6 DEF Founded
  <2> QED BY <2>4, <2>5
<1> QED BY <1>1, <1>2

\* Wrong probes, lost data, crashes of the other pods and failed membership calls never
\* lead to a second cluster as long as pod-0's container does not crash after it has
\* founded the first one, and no etcd boots bare: the process has no way back to the loop
\* (main.go:401-419), the checker finds no split, and nobody removes pod-0's member.
THEOREM FounderThatStaysUp ==
  ASSUME "file" \notin Faults
  PROVE  Spec /\ []NoBareBoot /\ StaysUp => FormsOnce /\ []OneServing
<1> DEFINE First == InitializeNewCluster(Pod0) => NoCluster
           Last  == Crash(Pod0) => NoCluster
           Inv   == Single /\ Founded
<1>1. Init => Inv
  BY SingleInit DEF Init, Founded, NoCluster
<1>2. Inv => First
  BY DEF Founded, InitializeNewCluster, NothingAnswers, Discovered, Watching
<1>3. OInv /\ NoBareBoot /\ NoneDead /\ Inv /\ [Next]_vars /\ [Last]_vars => Inv'
  <2> SUFFICES ASSUME OInv, NoBareBoot, NoneDead, Single, Founded, [Next]_vars, [Last]_vars
               PROVE  Single' /\ Founded'
    OBVIOUS
  <2>1. CASE UNCHANGED vars
    <3>1. Founded'
      BY <2>1 DEF vars, loopVars, Founded, NoCluster
    <3> QED BY <2>1, <3>1, SingleStutters
  <2>2. CASE ~UNCHANGED vars
    BY <1>2, <2>2, SingleStep, FoundedStep DEF Next
  <2> QED BY <2>1, <2>2
<1> HIDE DEF First, Last, Inv
<1>4. Spec /\ []NoBareBoot /\ [][Last]_vars => []Inv
  BY <1>1, <1>3, OwnedInductive, NoneDeadInductive, PTL DEF Spec
<1>5. Spec /\ []NoBareBoot /\ [][Last]_vars => [][First]_vars
  BY <1>2, <1>4, PTL
<1>6. Spec /\ []NoBareBoot /\ StaysUp => FormsOnce
  BY <1>5 DEF StaysUp, FormsOnce, First, Last
<1> QED BY <1>6, OneClusterServes, PTL

-----------------------------------------------------------------------------
(* Adding a member *)

\* A pod that has counted two other voting members joins a cluster that has two, by
\* whatever time it calls MemberAdd.
TwoStay == \A p \in Pods : view[p].votes >= 2 => \E c \in Clusters : Cardinality(Voters(c)) >= 2

\* processMembers counts no more voting members than there are.
LEMMA CountsVoters ==
  ASSUME MembersOK, NEW p \in Pods, NEW c \in Clusters, NEW v \in ProcessMembers(p, c)
  PROVE  v.votes \in Nat /\ v.votes <= Cardinality(Voters(c))
<1> DEFINE found(id, learner) ==
             [id |-> id, learner |-> learner, votes |-> VotingNum(p, c),
              doomed |-> {m.id : m \in Doomed(p, c)}]
<1>1. v \in IF Mine(p, c) = {} THEN {found(None, FALSE)}
                              ELSE {found(m.id, m.learner) : m \in Mine(p, c)}
  BY DEF ProcessMembers
<1>2. v.votes = VotingNum(p, c)
  BY <1>1
<1>3. IsFiniteSet(Voters(c))
  BY VotersCount
<1>4. Voters(c) \ (Mine(p, c) \cup Doomed(p, c)) \in SUBSET Voters(c)
  OBVIOUS
<1>5. VotingNum(p, c) \in Nat /\ VotingNum(p, c) <= Cardinality(Voters(c))
  BY <1>3, <1>4, FS_Subset, FS_CardinalityType DEF VotingNum
<1> QED BY <1>2, <1>5

\* The only removal that two voting members allow is that of a learner: who leaves
\* does not run, and the other one alone is no quorum.
LEMMA TwoVotersStay ==
  ASSUME OInv, NoBareBoot, NoneDead, Single, NEW p \in Pods, Effect(p), NEW d \in Clusters,
         Cardinality(Voters(d)) >= 2
  PROVE  Cardinality(Voters(d)') >= 2
<1>0. MembersOK /\ Distinct /\ TypesOK /\ dir \in [Pods -> Identity \cup {None, Partial}]
  BY DEF OInv, IInv, TypesOK, Owned, DirOK
<1>1. Cardinality(Voters(d)) \in Nat /\ IsFiniteSet(Voters(d)) /\ Voters(d) # {}
  BY <1>0, VotersCount, FS_EmptySet
<1>2. CASE UNCHANGED members
  <2>1. Voters(d)' = Voters(d)
    BY <1>2 DEF Voters
  <2> QED BY <2>1
<1>3. ~EtcdBootstraps(p)
  <2> SUFFICES ASSUME EtcdBootstraps(p) PROVE FALSE
    OBVIOUS
  <2>1. p = Pod0 /\ env[p].state = "new"
    BY FounderDecided
  <2>2. NoCluster
    BY <2>1, DirAssumption DEF EtcdBootstraps, Single, FoundsFirst
  <2> QED BY <1>1, <2>2 DEF NoCluster, Voters
<1>4. CASE EtcdJoins(p)
  <2>1. PICK c \in Clusters : \E m \in members[c], k \in Member :
           /\ k.id = m.id /\ k.url = m.url /\ m.url = p /\ k.learner = m.learner
           /\ Holds(p, c, m.id)'
           /\ \A e \in Clusters : members'[e] = IF e = c THEN (members[c] \ {m}) \cup {k} ELSE members[e]
           /\ \A e \in Clusters : Voters(e)' = IF e = c /\ ~m.learner
                                               THEN (Voters(c) \ {m}) \cup {k} ELSE Voters(e)
    BY <1>0, <1>4, JoinedVoters
  <2>2. PICK m \in members[c], k \in Member :
           /\ k.id = m.id
           /\ \A e \in Clusters : Voters(e)' = IF e = c /\ ~m.learner
                                               THEN (Voters(c) \ {m}) \cup {k} ELSE Voters(e)
    BY <2>1
  <2>3. CASE Voters(d)' = Voters(d)
    BY <2>3
  <2>4. CASE d = c /\ ~m.learner
    <3>1. m \in Voters(d) /\ k \notin Voters(d) \ {m}
      BY <1>0, <2>2, <2>4 DEF Voters, Distinct, UniqueIds
    <3>2. Cardinality(Voters(d) \ {m}) = Cardinality(Voters(d)) - 1 /\ IsFiniteSet(Voters(d) \ {m})
      BY <1>1, <3>1, FS_RemoveElement
    <3>3. Cardinality((Voters(d) \ {m}) \cup {k}) = Cardinality(Voters(d) \ {m}) + 1
      BY <3>1, <3>2, FS_AddElement
    <3>4. Voters(d)' = (Voters(d) \ {m}) \cup {k}
      BY <2>2, <2>4
    <3> QED BY <1>1, <3>2, <3>3, <3>4
  <2> QED BY <2>2, <2>3, <2>4
<1>5. ASSUME NEW c \in Reachable(p), NEW m \in members[c], Removes(p, c, m)
      PROVE  Cardinality(Voters(d)') >= 2
  <2>1. c \in Clusters /\ Serving(c)
    BY DEF Reachable
  <2>2. Voters(d)' = IF d = c THEN Voters(c) \ {m} ELSE Voters(d)
    BY <1>0, <1>5, <2>1, RemovedVoters DEF Removes
  <2>3. CASE d # c \/ m \notin Voters(c)
    <3>1. Voters(d)' = Voters(d)
      BY <2>2, <2>3
    <3> QED BY <3>1
  <2>4. CASE d = c /\ m \in Voters(c)
    <3>1. Cardinality(Voters(c)) >= 3
      BY <1>0, <1>5, <2>1, <2>4, RemoverIsDown, ServingWithout
    <3>2. Cardinality(Voters(c) \ {m}) = Cardinality(Voters(c)) - 1
      BY <1>1, <2>4, FS_RemoveElement
    <3>3. Voters(d)' = Voters(c) \ {m}
      BY <2>2, <2>4
    <3> QED BY <1>1, <2>4, <3>1, <3>2, <3>3
  <2> QED BY <2>3, <2>4
<1>6. ASSUME NEW S, Voters(d)' = Voters(d) \cup S, S = {} \/ \E k : S = {k}
      PROVE  Cardinality(Voters(d)') >= 2
  <2>1. CASE S = {}
    <3>1. Voters(d)' = Voters(d)
      BY <1>6, <2>1
    <3> QED BY <3>1
  <2>2. CASE \E k : S = {k}
    <3>1. PICK k : Voters(d)' = Voters(d) \cup {k}
      BY <1>6, <2>2
    <3>2. Cardinality(Voters(d) \cup {k}) >= Cardinality(Voters(d))
      <4>1. Cardinality(Voters(d) \cup {k}) = IF k \in Voters(d) THEN Cardinality(Voters(d))
                                                                 ELSE Cardinality(Voters(d)) + 1
        BY <1>1, FS_AddElement
      <4> QED BY <1>1, <4>1
    <3>3. Cardinality(Voters(d) \cup {k}) \in Nat
      BY <1>1, FS_AddElement, FS_CardinalityType
    <3> QED BY <1>1, <3>1, <3>2, <3>3
  <2> QED BY <1>6, <2>1, <2>2
<1>7. ASSUME NEW c \in Reachable(p), NEW m \in members[c], Promotes(p, c, m)
      PROVE  \E S : Voters(d)' = Voters(d) \cup S /\ (S = {} \/ \E k : S = {k})
  <2>1. c \in Clusters
    BY DEF Reachable
  <2>2. PICK k \in Member :
           /\ k.id = m.id /\ k.url = m.url /\ ~k.learner /\ k \notin Voters(c)
           /\ \A e \in Clusters : Voters(e)' = IF e = c THEN Voters(c) \cup {k} ELSE Voters(e)
    BY <1>0, <1>7, <2>1, PromotedVoters DEF Promotes
  <2>3. Voters(d)' = Voters(d) \cup (IF d = c THEN {k} ELSE {})
    BY <2>2
  <2> QED BY <2>3
<1>8. ASSUME NEW c \in Reachable(p), NEW i \in Ids, Adds(p, c, i)
      PROVE  \E S : Voters(d)' = Voters(d) \cup S /\ (S = {} \/ \E k : S = {k})
  <2>1. c \in Clusters
    BY DEF Reachable
  <2>2. \A e \in Clusters : Voters(e)' = IF e = c /\ ~AsLearner(p)
                                         THEN Voters(c) \cup {AddedMember(p, i)} ELSE Voters(e)
    BY <1>0, <1>8, <2>1, AddedVoters DEF Adds
  <2>3. Voters(d)' = Voters(d) \cup (IF d = c /\ ~AsLearner(p) THEN {AddedMember(p, i)} ELSE {})
    BY <2>2
  <2> QED BY <2>3
<1> QED BY <1>2, <1>3, <1>4, <1>5, <1>6, <1>7, <1>8 DEF Effect, Quiet, Lists

\* So two voting members that were counted are two when a member is added.
LEMMA TwoStayStep ==
  ASSUME OInv, NoBareBoot, NoneDead, Single, TwoStay, NEW p \in Pods,
         Step(p) \/ PromoteLosesAnswer(p) \/ Crash(p)
  PROVE  TwoStay'
<1>0. TypesOK /\ ViewOnlyAt(p) /\ Effect(p) /\ view[p] \in View /\ MembersOK
  BY StepFacts DEF OInv, IInv, TypesOK, LoopOK
<1>1. view'[p].votes \in {view[p].votes, 0} \/ Lists(p)
  <2>1. ASSUME NEW i, view'[p] = [view[p] EXCEPT !.id = i] PROVE view'[p].votes = view[p].votes
    BY <1>0, <2>1 DEF View
  <2> QED BY <1>0, <2>1 DEF Effect, Quiet, Forgets, Removes, Promotes, Adds
<1>2. CASE view'[p].votes \in {view[p].votes, 0}
  <2> SUFFICES ASSUME NEW q \in Pods, view'[q].votes >= 2
               PROVE  \E c \in Clusters : Cardinality(Voters(c)') >= 2
    BY DEF TwoStay
  <2>1. view[q].votes >= 2
    BY <1>0, <1>2 DEF ViewOnlyAt
  <2>2. PICK c \in Clusters : Cardinality(Voters(c)) >= 2
    BY <2>1 DEF TwoStay
  <2> QED BY <1>0, <2>2, TwoVotersStay
<1>3. CASE Lists(p)
  <2>1. PICK c \in Reachable(p) : \E v \in ProcessMembers(p, c) : view'[p] \in {v, NoView}
    BY <1>3 DEF Lists
  <2>2. PICK v \in ProcessMembers(p, c) : view'[p] \in {v, NoView}
    BY <2>1
  <2>3. c \in Clusters
    BY DEF Reachable
  <2>4. view'[p].votes >= 2 => Cardinality(Voters(c)) >= 2
    <3>1. v.votes \in Nat /\ v.votes <= Cardinality(Voters(c)) /\ Cardinality(Voters(c)) \in Nat
      BY <1>0, <2>3, CountsVoters, VotersCount
    <3>2. CASE view'[p] = v
      BY <3>1, <3>2
    <3>3. CASE view'[p] = NoView
      BY <3>3 DEF NoView
    <3> QED BY <2>2, <3>2, <3>3
  <2>5. \A q \in Pods : view'[q].votes >= 2 => \E e \in Clusters : Cardinality(Voters(e)) >= 2
    BY <1>0, <2>3, <2>4 DEF ViewOnlyAt, TwoStay
  <2>6. \A e \in Clusters : Voters(e)' = Voters(e)
    BY <1>3 DEF Lists, Voters
  <2> QED BY <2>5, <2>6 DEF TwoStay
<1> QED BY <1>1, <1>2, <1>3

\* MemberAdd leaves the cluster that serves with a quorum that runs.
LEMMA AddKeeps ==
  ASSUME OInv, Single, TwoStay, NEW p \in Pods, AddMemberAndStart(p) \/ AddMemberFails(p),
         NEW c \in Clusters, Live(c)
  PROVE  Serving(c)'
<1>0. MembersOK /\ TypesOK /\ Distinct /\ view[p] \in View
  BY DEF OInv, IInv, TypesOK, LoopOK, Owned
<1>1. UNCHANGED dir /\ \A q \in Pods : etcd[q] = "up" => etcd'[q] = "up"
  BY <1>0 DEF AddMemberAndStart, AddMemberFails, StartEtcd, TypesOK, EtcdOK
<1>2. \A m \in Voters(c) : IsUp(c, m) => IsUp(c, m)'
  <2> SUFFICES ASSUME NEW m \in Voters(c), IsUp(c, m) PROVE IsUp(c, m)'
    OBVIOUS
  <2>1. m.url \in Pods
    BY <1>0 DEF Voters, MembersOK, Member
  <2> QED BY <1>1, <2>1 DEF IsUp
<1>3. MembersOK'
  <2>1. Join(p)
    BY DEF Join
  <2> QED BY <1>0, <2>1, JoinType DEF TypesOK
<1>4. CASE Voters(c)' = Voters(c)
  <2>1. UpVoters(c) \in SUBSET (UpVoters(c)')
    BY <1>2, <1>4 DEF UpVoters
  <2>2. IsFiniteSet(UpVoters(c)') /\ Cardinality(UpVoters(c)') \in Nat /\ Cardinality(UpVoters(c)) \in Nat
        /\ Cardinality(Voters(c)) \in Nat
    BY <1>0, <1>3, VotersCount, NextVotersCount
  <2>3. Cardinality(UpVoters(c)) <= Cardinality(UpVoters(c)')
    BY <2>1, <2>2, FS_Subset
  <2>4. 2 * Cardinality(UpVoters(c)) > Cardinality(Voters(c))
    BY DEF Live, Serving
  <2>5. 2 * Cardinality(UpVoters(c)') > Cardinality(Voters(c)')
    BY <1>4, <2>2, <2>3, <2>4
  <2> QED BY <2>5 DEF Serving
<1>5. CASE UNCHANGED members
  BY <1>4, <1>5 DEF Voters
<1>6. ASSUME NEW d \in Reachable(p), NEW i \in Ids, MemberAdd(p, d, i) PROVE Serving(c)'
  <2> DEFINE k == AddedMember(p, i)
  <2>1. d \in Clusters /\ d = c
    BY DEF Reachable, Live, Single, OneCluster
  <2>2. k \notin Voters(c) /\ Voters(c)' = IF ~AsLearner(p) THEN Voters(c) \cup {k} ELSE Voters(c)
    BY <1>0, <1>6, <2>1, AddedVoters
  <2>3. CASE AsLearner(p)
    BY <1>4, <2>2, <2>3
  <2>4. CASE ~AsLearner(p)
    <3> HIDE DEF k
    <3>1. view[p].votes >= 2
      BY <1>0, <1>6, <2>4 DEF MemberAdd, AsLearner, View
    <3>2. PICK e \in Clusters : Cardinality(Voters(e)) >= 2
      BY <3>1 DEF TwoStay
    <3>3. e = c
      <4>1. Voters(e) # {}
        BY <3>2, FS_EmptySet
      <4> QED BY <4>1 DEF Voters, Live, Single, OneCluster
    <3>4. UpVoters(c) = Voters(c)
      BY <1>6, <2>1 DEF MemberAdd, AddOk
    <3>5. Voters(c) \in SUBSET (UpVoters(c)')
      BY <1>2, <2>2, <2>4, <3>4 DEF UpVoters
    <3>6. IsFiniteSet(UpVoters(c)') /\ Cardinality(UpVoters(c)') \in Nat
          /\ IsFiniteSet(Voters(c)) /\ Cardinality(Voters(c)) \in Nat
      BY <1>0, <1>3, VotersCount, NextVotersCount
    <3>7. Cardinality(Voters(c)) <= Cardinality(UpVoters(c)')
      BY <3>5, <3>6, FS_Subset
    <3>8. Cardinality(Voters(c)') = Cardinality(Voters(c)) + 1
      BY <2>2, <2>4, <3>6, FS_AddElement
    <3>9. 2 * Cardinality(UpVoters(c)') > Cardinality(Voters(c)')
      BY <3>2, <3>3, <3>6, <3>7, <3>8
    <3> QED BY <3>9 DEF Serving
  <2> QED BY <2>3, <2>4
<1> QED BY <1>5, <1>6 DEF AddMemberAndStart, AddMemberFails, CallFails

\* The invariant of one cluster whose IP files can be read.
CInv == OInv /\ NoBareBoot /\ NoneDead /\ Single

\* It holds as long as pod-0 founds the first cluster only, and no etcd boots bare.
LEMMA OneClusterInductive ==
  ASSUME "file" \notin Faults PROVE Spec /\ FormsOnce /\ []NoBareBoot => []CInv
BY OwnedInductive, NoneDeadInductive, SingleInductive, PTL DEF CInv

\* Nobody has counted anyone at first.
LEMMA TwoStayInductive ==
  ASSUME "file" \notin Faults PROVE Spec /\ FormsOnce /\ []NoBareBoot => []TwoStay
<1>1. Init => TwoStay
  BY DEF Init, TwoStay, NoView
<1>2. CInv /\ TwoStay /\ [Next]_vars => TwoStay'
  <2> SUFFICES ASSUME OInv, NoBareBoot, NoneDead, Single, TwoStay, [Next]_vars PROVE TwoStay'
    BY DEF CInv
  <2>1. CASE UNCHANGED vars
    BY <2>1 DEF vars, loopVars, TwoStay, Voters
  <2> QED BY <2>1, TwoStayStep DEF Next
<1> QED BY <1>1, <1>2, OneClusterInductive, PTL DEF Spec

\* MemberAdd never takes the quorum of the cluster that serves away (manager.go:318-335),
\* although votingNumExceptMe was counted several calls ago, answers get lost and others
\* join and leave meanwhile: of two voting members neither can be removed before the
\* third one runs, so one that was counted as one of two never is the only one. An IP
\* file that cannot be read would take that away: the voter removed for it may run; and so
\* would a second cluster, by pod-0's decision or by a bare boot: the count may be of one
\* cluster and the call reach the other.
THEOREM AddingKeepsQuorum ==
  ASSUME "file" \notin Faults
  PROVE  Spec /\ FormsOnce /\ []NoBareBoot => AddKeepsQuorum
<1> DEFINE Kept == \A p \in Pods : AddMemberAndStart(p) \/ AddMemberFails(p) =>
                     \A c \in Clusters : Live(c) => Serving(c)'
<1>1. CInv /\ TwoStay => Kept
  BY AddKeeps DEF CInv
<1> HIDE DEF Kept
<1>2. Spec /\ FormsOnce /\ []NoBareBoot => [][Kept]_vars
  BY <1>1, OneClusterInductive, TwoStayInductive, PTL
<1> QED BY <1>2 DEF AddKeepsQuorum, Kept

-----------------------------------------------------------------------------
(* Removing data *)

Stranger(p)    == \A c \in Clusters : \A m \in members[c] : m.url # p
LearnerOnly(p) == \A c \in Clusters : \A m \in members[c] : m.url = p => m.learner

\* What a pod that is about to remove itself or its data knows is still true.
Knows(p) ==
  /\ pc[p] = "remove" /\ view[p].id = None => Stranger(p)
  /\ pc[p] = "remove" /\ view[p].id # None /\ view[p].learner => LearnerOnly(p)
  /\ pc[p] \in {"promoteFirst", "cleanUp"} => LearnerOnly(p)
  /\ pc[p] = "removeSelf" => dir[p] = None

Knowing == \A p \in Pods : Knows(p)

\* Only p changes p's member, other than by removing it.
LEMMA OthersMembers ==
  ASSUME OInv, NEW p \in Pods, Effect(p), NEW q \in Pods \ {p}, NEW d \in Clusters,
         NEW n \in members'[d], n.url = q
  PROVE  n \in members[d]
<1>0. MembersOK /\ TypesOK /\ dir \in [Pods -> Identity \cup {None, Partial}]
  BY DEF OInv, IInv, TypesOK, DirOK
<1>1. CASE UNCHANGED members
  BY <1>1
<1>2. CASE EtcdBootstraps(p)
  <2>1. PICK c \in Clusters, i \in Ids :
          members' = [members EXCEPT ![c] = {[id |-> i, url |-> p, name |-> p, learner |-> FALSE]}]
    BY <1>2 DEF EtcdBootstraps
  <2>2. members'[d] = IF d = c THEN {[id |-> i, url |-> p, name |-> p, learner |-> FALSE]} ELSE members[d]
    BY <1>0, <2>1 DEF MembersOK
  <2> QED BY <2>2
<1>3. CASE EtcdJoins(p)
  <2>1. PICK c \in Clusters : \E m \in members[c], k \in Member :
           /\ k.id = m.id /\ k.url = m.url /\ m.url = p /\ k.learner = m.learner
           /\ Holds(p, c, m.id)'
           /\ \A e \in Clusters : members'[e] = IF e = c THEN (members[c] \ {m}) \cup {k} ELSE members[e]
           /\ \A e \in Clusters : Voters(e)' = IF e = c /\ ~m.learner
                                               THEN (Voters(c) \ {m}) \cup {k} ELSE Voters(e)
    BY <1>0, <1>3, JoinedVoters
  <2>2. PICK m \in members[c], k \in Member :
           /\ k.url = p
           /\ \A e \in Clusters : members'[e] = IF e = c THEN (members[c] \ {m}) \cup {k} ELSE members[e]
    BY <2>1
  <2> QED BY <2>2
<1>4. ASSUME NEW c \in Reachable(p), NEW m \in members[c], Removes(p, c, m) PROVE n \in members[d]
  <2>1. members'[d] \subseteq members[d]
    BY <1>0, <1>4 DEF Removes, Removed, MembersOK
  <2> QED BY <2>1
<1>5. ASSUME NEW c \in Reachable(p), NEW m \in members[c], Promotes(p, c, m) PROVE n \in members[d]
  <2> DEFINE k == [m EXCEPT !.learner = FALSE]
  <2>1. c \in Clusters /\ m \in Member
    BY <1>0 DEF Reachable, MembersOK
  <2>2. m.url = p
    BY <1>5, <2>1 DEF Promotes, OInv, Owned, ViewIsMine
  <2>3. k.url = p
    BY <2>1, <2>2 DEF Member
  <2>4. members' = [members EXCEPT ![c] = (@ \ {m}) \cup {k}]
    BY <1>5 DEF Promotes, Promoted
  <2> HIDE DEF k
  <2>5. members'[d] = IF d = c THEN (members[c] \ {m}) \cup {k} ELSE members[d]
    BY <1>0, <2>1, <2>4 DEF MembersOK
  <2> QED BY <2>3, <2>5
<1>6. ASSUME NEW c \in Reachable(p), NEW i \in Ids, Adds(p, c, i) PROVE n \in members[d]
  <2> DEFINE k == AddedMember(p, i)
  <2>1. c \in Clusters /\ k.url = p /\ members' = [members EXCEPT ![c] = @ \cup {k}]
    BY <1>6 DEF Reachable, Adds, MemberAdd, AddedMember
  <2> HIDE DEF k
  <2>2. members'[d] = IF d = c THEN members[c] \cup {k} ELSE members[d]
    BY <1>0, <2>1 DEF MembersOK
  <2> QED BY <2>1, <2>2
<1> QED BY <1>1, <1>2, <1>3, <1>4, <1>5, <1>6 DEF Effect, Quiet, Lists

\* What the member list of the one cluster says of a pod is all there is to say.
LEMMA FoundIsAll ==
  ASSUME OInv, OneCluster, NEW p \in Pods, NEW c \in Reachable(p), NEW v \in ProcessMembers(p, c)
  PROVE  (v.id = None => Stranger(p)) /\ (v.id # None /\ v.learner => LearnerOnly(p))
<1>1. c \in Clusters /\ members[c] # {} /\ MembersOK /\ OwnName /\ UniqueUrls
  BY DEF Reachable, OInv, IInv, TypesOK, Owned, Distinct
<1>2. \A d \in Clusters : members[d] # {} => d = c
  BY <1>1 DEF OneCluster
<1>3. ASSUME v.id = None PROVE Stranger(p)
  BY <1>1, <1>2, <1>3, FoundIsMine DEF Stranger
<1>4. ASSUME v.id # None, v.learner PROVE LearnerOnly(p)
  <2>1. PICK m \in members[c] : m.url = p /\ m.learner
    BY <1>1, <1>4, FoundIsMine
  <2> QED BY <1>1, <1>2, <2>1 DEF LearnerOnly, UniqueUrls
<1> QED BY <1>3, <1>4

\* handleMemberJoin acts on what is true.
LEMMA HandleMemberJoinKnows ==
  ASSUME TypesOK, NEW p \in Pods, NEW v \in View, HandleMemberJoin(p, v),
         v.id # None /\ v.learner => LearnerOnly(p)',
         pc'[p] \in {"remove", "promoteFirst", "cleanUp", "removeSelf"}
  PROVE  Knows(p)'
<1>1. pc'[p] = JoinStep(p, v) \/ pc'[p] = "wait"
  BY DEF HandleMemberJoin, WaitExit, Goto, TypesOK, LoopOK
<1>2. pc'[p] = JoinStep(p, v) /\ pc'[p] \in {"promoteFirst", "removeSelf"}
  BY <1>1, JoinStepType DEF TypesOK
<1>3. v.id # None
  BY <1>2, JoinStepType, NoneIsNoId DEF TypesOK
<1>4. dir'[p] = dir[p]
  BY <1>3 DEF HandleMemberJoin, KeptData, TypesOK, DirOK
<1>5. CASE pc'[p] = "promoteFirst"
  <2>1. v.learner
    BY <1>2, <1>3, <1>5 DEF JoinStep
  <2> QED BY <1>3, <1>5, <2>1 DEF Knows
<1>6. CASE pc'[p] = "removeSelf"
  <2>1. dir[p] = None
    BY <1>2, <1>6, JoinStepType DEF TypesOK
  <2> QED BY <1>4, <1>6, <2>1 DEF Knows
<1> QED BY <1>2, <1>5, <1>6

\* A call that removes a member or fails leaves p's other members alone.
LEMMA FewerKnows ==
  ASSUME MembersOK, NEW p \in Pods, NEW id, MemberRemove(p, id) \/ UNCHANGED members
  PROVE  /\ \A c \in Clusters : members'[c] \subseteq members[c]
         /\ Stranger(p) => Stranger(p)'
         /\ LearnerOnly(p) => LearnerOnly(p)'
<1>1. \A c \in Clusters : members'[c] \subseteq members[c]
  BY DEF MembersOK, MemberRemove, Removed, Reachable
<1> QED BY <1>1 DEF Stranger, LearnerOnly

\* Every step that brings p there, or keeps it there, brings it there knowingly.
LEMMA OwnKnows ==
  ASSUME "lostPromote" \notin Faults, OInv, OneCluster, NEW p \in Pods, Knows(p),
         Step(p) \/ PromoteLosesAnswer(p) \/ Crash(p),
         pc'[p] \in {"remove", "promoteFirst", "cleanUp", "removeSelf"}
  PROVE  Knows(p)'
<1>0. TypesOK /\ MembersOK
  BY DEF OInv, IInv, TypesOK
<1> USE DEF TypesOK, LoopOK
<1>1. CASE Discover(p)
  BY <1>0, <1>1 DEF Discover, Probe, NoIPFiles, RetryNotReady, WaitForPod0, InitializeNewCluster,
                    Discovered, NothingAnswers, Loop, Goto
<1>2. CASE MemberList(p)
  <2>1. PICK c \in Reachable(p) : \E v \in ProcessMembers(p, c) :
          IF v.doomed # {}
          THEN Goto(p, "remove") /\ view' = [view EXCEPT ![p] = v] /\ UNCHANGED <<ready, etcd, dir>>
          ELSE HandleMemberJoin(p, v)
    BY <1>2 DEF MemberList
  <2>2. PICK v \in ProcessMembers(p, c) :
          IF v.doomed # {}
          THEN Goto(p, "remove") /\ view' = [view EXCEPT ![p] = v] /\ UNCHANGED <<ready, etcd, dir>>
          ELSE HandleMemberJoin(p, v)
    BY <2>1
  <2>3. (v.id = None => Stranger(p)) /\ (v.id # None /\ v.learner => LearnerOnly(p))
    BY FoundIsAll
  <2>4. UNCHANGED members
    BY <1>2 DEF MemberList
  <2>5. (Stranger(p) => Stranger(p)') /\ (LearnerOnly(p) => LearnerOnly(p)')
    BY <2>4 DEF Stranger, LearnerOnly
  <2>6. v \in View
    BY <1>0, ProcessMembersType DEF Reachable
  <2>7. CASE v.doomed = {}
    BY <1>0, <2>2, <2>3, <2>5, <2>6, <2>7, HandleMemberJoinKnows
  <2>8. CASE v.doomed # {}
    <3>1. pc'[p] = "remove" /\ view'[p] = v
      BY <1>0, <2>2, <2>8 DEF Goto
    <3> QED BY <2>3, <2>5, <3>1 DEF Knows
  <2> QED BY <2>7, <2>8
<1>3. ASSUME NEW id \in Ids, RemoveDeadMember(p, id) PROVE Knows(p)'
  <2> DEFINE v == [view[p] EXCEPT !.doomed = @ \ {id}]
  <2>1. v \in View /\ v.id = view[p].id /\ v.learner = view[p].learner
    BY <1>0 DEF View
  <2>2. pc[p] = "remove" /\ (MemberRemove(p, id) \/ UNCHANGED members)
    BY <1>3 DEF RemoveDeadMember, CallFails
  <2>3. (Stranger(p) => Stranger(p)') /\ (LearnerOnly(p) => LearnerOnly(p)')
    BY <1>0, <2>2, FewerKnows
  <2>4. \/ view' = [view EXCEPT ![p] = v] /\ UNCHANGED pc
        \/ HandleMemberJoin(p, v)
    BY <1>3 DEF RemoveDeadMember
  <2> HIDE DEF v
  <2>5. CASE view' = [view EXCEPT ![p] = v] /\ UNCHANGED pc
    <3>1. view'[p] = v /\ pc'[p] = "remove"
      BY <1>0, <2>2, <2>5
    <3> QED BY <2>1, <2>2, <2>3, <3>1 DEF Knows
  <2>6. CASE HandleMemberJoin(p, v)
    BY <1>0, <2>1, <2>2, <2>3, <2>6, HandleMemberJoinKnows DEF Knows
  <2> QED BY <2>4, <2>5, <2>6
<1>4. CASE PromoteExistingFails(p)
  <2>1. pc'[p] = "cleanUp" /\ pc[p] = "promoteFirst" /\ UNCHANGED members
    BY <1>0, <1>4 DEF PromoteExistingFails, PromoteGivesUp, CallFails, Goto
  <2> QED BY <2>1 DEF Knows, LearnerOnly
<1>5. CASE \/ MemberListFails(p) \/ RemoveSelf(p) \/ RemoveSelfFails(p) \/ AddMemberAndStart(p)
           \/ AddMemberFails(p) \/ PromoteStarted(p) \/ PromoteStartedFails(p) \/ PromoteExisting(p)
           \/ CleanUp(p)
  BY <1>0, <1>5
  DEF MemberListFails, RemoveSelf, RemoveSelfFails, AddMemberAndStart, AddMemberFails, PromoteStarted,
      PromoteStartedFails, PromoteExisting, CleanUp, Loop, Goto, WaitExit
<1>6. CASE Wait(p) \/ Restart(p) \/ Crash(p)
  <2>1. CASE Looks(p)
    BY <1>0, <2>1, LooksOnly DEF Watching
  <2> QED BY <1>0, <1>6, <2>1, WaitSteps
      DEF BrainSplitDetected, BrainSplitVerified, SplitEtcdGone, ProcessExit, Restart, Crash, Goto, Loop, Stop
<1>7. CASE Etcd(p)
  <2>1. UNCHANGED <<pc, view>>
    BY <1>7 DEF Etcd, EtcdCreatesDir, EtcdBootstraps, EtcdJoins, EtcdBootFails, EtcdRestarts,
                EtcdStops, EtcdLearnsRemoved, loopVars
  <2>2. etcd[p] \in {"off", "term"}
    BY <2>1 DEF OInv, IInv, Control, Good, Idle, IdleStates
  <2>3. UNCHANGED <<members, dir>>
    BY <1>7, <2>2 DEF Etcd, EtcdCreatesDir, EtcdBootstraps, EtcdJoins, EtcdBootFails, EtcdRestarts,
                      EtcdStops, EtcdLearnsRemoved
  <2> QED BY <2>1, <2>3 DEF Knows, Stranger, LearnerOnly
<1>8. CASE PromoteLosesAnswer(p)
  BY <1>8 DEF PromoteLosesAnswer, Fault
<1> QED BY <1>1, <1>2, <1>3, <1>4, <1>5, <1>6, <1>7, <1>8 DEF Step, Join

\* Nobody else makes it wrong.
LEMMA KnowingStep ==
  ASSUME "lostPromote" \notin Faults, OInv, OneCluster, Knowing, NEW p \in Pods,
         Step(p) \/ PromoteLosesAnswer(p) \/ Crash(p)
  PROVE  Knowing'
<1>0. OnlyAt(p) /\ ViewOnlyAt(p) /\ Effect(p)
  BY StepFacts DEF OInv
<1>1. Knows(p)'
  <2>1. CASE pc'[p] \in {"remove", "promoteFirst", "cleanUp", "removeSelf"}
    BY <2>1, OwnKnows DEF Knowing
  <2>2. CASE pc'[p] \notin {"remove", "promoteFirst", "cleanUp", "removeSelf"}
    BY <2>2 DEF Knows
  <2> QED BY <2>1, <2>2
<1>2. ASSUME NEW q \in Pods \ {p} PROVE Knows(q)'
  <2>1. (Stranger(q) => Stranger(q)') /\ (LearnerOnly(q) => LearnerOnly(q)')
    BY <1>0, OthersMembers DEF Stranger, LearnerOnly
  <2>2. pc'[q] = pc[q] /\ dir'[q] = dir[q] /\ view'[q] = view[q]
    BY <1>0 DEF OnlyAt, ViewOnlyAt
  <2> QED BY <2>1, <2>2 DEF Knowing, Knows
<1> QED BY <1>1, <1>2 DEF Knowing

\* Who removes its data is no voting member of any cluster (any more).
LEMMA DropsKnowingly ==
  ASSUME OInv, OneCluster, NEW p \in Pods, Knows(p),
         Step(p) \/ PromoteLosesAnswer(p), dir[p] \in Identity, dir'[p] \notin Identity,
         InitializeNewCluster(Pod0) => NoCluster
  PROVE  LearnerOnly(p)' /\ \A c \in Clusters : members'[c] \subseteq members[c]
<1>0. TypesOK /\ MembersOK /\ dir \in [Pods -> Identity \cup {None, Partial}]
  BY DEF OInv, IInv, TypesOK, DirOK
<1>1. CASE InitializeNewCluster(p)
  BY <1>1 DEF InitializeNewCluster, NoCluster, LearnerOnly
<1>2. ASSUME NEW v, HandleMemberJoin(p, v) PROVE v.id = None
  BY <1>0, <1>2 DEF HandleMemberJoin, KeptData
<1>3. CASE MemberList(p)
  <2>1. PICK c \in Reachable(p) : \E v \in ProcessMembers(p, c) : UNCHANGED dir \/ HandleMemberJoin(p, v)
    BY <1>3 DEF MemberList
  <2>2. PICK v \in ProcessMembers(p, c) : UNCHANGED dir \/ HandleMemberJoin(p, v)
    BY <2>1
  <2>3. HandleMemberJoin(p, v)
    BY <2>2
  <2>4. Stranger(p)
    BY <1>2, <2>3, FoundIsAll
  <2> QED BY <1>3, <2>4 DEF MemberList, Stranger, LearnerOnly
<1>4. ASSUME NEW id \in Ids, RemoveDeadMember(p, id)
      PROVE  LearnerOnly(p)' /\ \A c \in Clusters : members'[c] \subseteq members[c]
  <2>1. pc[p] = "remove" /\ (MemberRemove(p, id) \/ UNCHANGED members)
    BY <1>4 DEF RemoveDeadMember, CallFails
  <2>2. HandleMemberJoin(p, [view[p] EXCEPT !.doomed = @ \ {id}])
    BY <1>4 DEF RemoveDeadMember
  <2>3. [view[p] EXCEPT !.doomed = @ \ {id}].id = view[p].id
    BY <1>0 DEF TypesOK, LoopOK, View
  <2>4. view[p].id = None
    BY <1>2, <2>2, <2>3
  <2>5. Stranger(p)' /\ \A c \in Clusters : members'[c] \subseteq members[c]
    BY <1>0, <2>1, <2>4, FewerKnows DEF Knows
  <2> QED BY <2>5 DEF Stranger, LearnerOnly
<1>5. CASE CleanUp(p)
  <2>1. pc[p] = "cleanUp" /\ (MemberRemove(p, view[p].id) \/ UNCHANGED members)
    BY <1>5 DEF CleanUp, CallFails
  <2> QED BY <1>0, <2>1, FewerKnows DEF Knows
<1>6. CASE Etcd(p)
  <2>1. dir'[p] = dir[p]
    BY <1>6, DirAssumption DEF Etcd, EtcdCreatesDir, EtcdBootstraps, EtcdJoins, EtcdBootFails, EtcdRestarts,
                EtcdStops, EtcdLearnsRemoved
  <2> QED BY <2>1
<1>7. CASE Restart(p) \/ PromoteLosesAnswer(p) \/ Wait(p)
  BY <1>0, <1>7, WaitSteps, LooksOnly
  DEF Restart, PromoteLosesAnswer, BrainSplitDetected, BrainSplitVerified, SplitEtcdGone, ProcessExit
<1>8. CASE Discover(p)
  BY <1>1, <1>8 DEF Discover, Probe, NoIPFiles, RetryNotReady, WaitForPod0
<1>9. CASE Join(p)
  BY <1>3, <1>4, <1>5, <1>9
  DEF Join, MemberListFails, RemoveSelf, RemoveSelfFails, AddMemberAndStart, AddMemberFails,
      PromoteStarted, PromoteStartedFails, PromoteExisting, PromoteExistingFails
<1> QED BY <1>6, <1>7, <1>8, <1>9 DEF Step

\* At first nobody has anything to remove.
LEMMA KnowingInductive ==
  ASSUME "lostPromote" \notin Faults PROVE Spec /\ FormsOnce /\ []NoBareBoot => []Knowing
<1>1. Init => Knowing
  BY DEF Init, Knowing, Knows
<1>2. OInv /\ Single /\ Knowing /\ [Next]_vars => Knowing'
  <2> SUFFICES ASSUME OInv, OneCluster, Knowing, [Next]_vars PROVE Knowing'
    BY DEF Single
  <2>1. CASE UNCHANGED vars
    BY <2>1 DEF vars, loopVars, Knowing, Knows, Stranger, LearnerOnly
  <2> QED BY <2>1, KnowingStep DEF Next
<1> QED BY <1>1, <1>2, OwnedInductive, SingleInductive, PTL DEF Spec

\* etcdcluster removes the data of no voting member of the cluster that serves
\* (manager.go:207-217, 231-236, main.go:401-419), whatever calls fail, lose their
\* answer or remove the wrong member between the member list it read and the removal.
\* Not so when the answer of a promotion is lost and the removal that follows fails, nor
\* when there are two clusters: a voter of one is a stranger to the other.
THEOREM VotersKeepTheirData ==
  ASSUME "lostPromote" \notin Faults
  PROVE  Spec /\ FormsOnce /\ []NoBareBoot => KeepsVotersData
<1> DEFINE First == InitializeNewCluster(Pod0) => NoCluster
           Kept  == \A p \in Pods : /\ dir[p] \in Identity /\ dir'[p] \notin Identity /\ ~Crash(p)
                                    /\ Live(dir[p].cluster)
                      => \A m \in members'[dir[p].cluster] : m.id = dir[p].id => m.learner
<1>1. OInv /\ Single /\ Knowing /\ [Next]_vars /\ [First]_vars => [Kept]_vars
  <2> SUFFICES ASSUME OInv, Single, Knowing, Next, First, NEW p \in Pods,
                      dir[p] \in Identity, dir'[p] \notin Identity, ~Crash(p),
                      NEW m \in members'[dir[p].cluster], m.id = dir[p].id
               PROVE  m.learner
    OBVIOUS
  <2>1. PICK q \in Pods : Step(q) \/ PromoteLosesAnswer(q) \/ Crash(q)
    BY DEF Next
  <2>2. q = p
    BY <2>1, StepFacts DEF OnlyAt, OInv
  <2>3. LearnerOnly(p)' /\ \A c \in Clusters : members'[c] \subseteq members[c]
    BY <2>1, <2>2, DropsKnowingly DEF Single, Knowing
  <2>4. dir[p].cluster \in Clusters
    BY DEF Identity
  <2>5. m.url = p
    BY <2>3, <2>4 DEF OInv, Owned, DirIsMine
  <2> QED BY <2>3, <2>4, <2>5 DEF LearnerOnly
<1> HIDE DEF First, Kept
<1>2. Spec /\ [][First]_vars /\ FormsOnce /\ []NoBareBoot => [][Kept]_vars
  BY <1>1, OwnedInductive, SingleInductive, KnowingInductive, PTL DEF Spec
<1>3. FormsOnce => [][First]_vars
  BY DEF FormsOnce, First
<1>4. Spec /\ FormsOnce /\ []NoBareBoot => [][Kept]_vars
  BY <1>2, <1>3
<1> QED BY <1>4 DEF KeepsVotersData, Kept

-----------------------------------------------------------------------------
(* Losing one pod *)

\* The voting members whose pod does not hold their data.
Missing(c) == {m \in Voters(c) : ~Holds(m.url, c, m.id)}

\* At most one, and then it is one of three.
OneMissing(c) ==
  /\ members[c] # {} => Voters(c) # {}
  /\ Missing(c) # {} => Cardinality(Voters(c)) >= 3 /\ \E m : Missing(c) = {m}

\* A pod with data is lost only while every pod runs as a voting member, as in a rolling
\* restart, which waits for each pod before it takes the next.
LosesOneAtATime ==
  [][\A p \in Pods : Crash(p) /\ dir[p] \in Identity /\ dir'[p] # dir[p]
       => \E c \in Clusters : \A q \in Pods : Running(q, c)]_vars

\* With one missing of three, or none, most voting members hold their data.
LEMMA MostHold ==
  ASSUME MembersOK, NEW c \in Clusters, OneMissing(c), members[c] # {}
  PROVE  2 * Cardinality({m \in Voters(c) : Holds(m.url, c, m.id)}) > Cardinality(Voters(c))
<1> DEFINE H == {m \in Voters(c) : Holds(m.url, c, m.id)}
<1>1. IsFiniteSet(Voters(c)) /\ Cardinality(Voters(c)) \in Nat
  BY VotersCount
<1>2. CASE Missing(c) = {}
  <2>1. H = Voters(c)
    BY <1>2 DEF Missing
  <2>2. Cardinality(Voters(c)) # 0
    BY <1>1, FS_EmptySet DEF OneMissing
  <2> QED BY <1>1, <2>1, <2>2
<1>3. CASE Missing(c) # {}
  <2>1. PICK m : Missing(c) = {m}
    BY <1>3 DEF OneMissing
  <2>2. m \in Voters(c) /\ H = Voters(c) \ {m}
    BY <2>1 DEF Missing
  <2>3. Cardinality(Voters(c) \ {m}) = Cardinality(Voters(c)) - 1
    BY <1>1, <2>2, FS_RemoveElement
  <2>4. Cardinality(Voters(c)) >= 3
    BY <1>3 DEF OneMissing
  <2>5. Cardinality(H) = Cardinality(Voters(c)) - 1
    BY <2>2, <2>3
  <2> HIDE DEF H
  <2>6. 2 * Cardinality(H) > Cardinality(Voters(c))
    BY <1>1, <2>4, <2>5
  <2> QED BY <2>6 DEF H
<1> QED BY <1>2, <1>3

\* No fewer voters and none more that is missing leaves it at that.
LEMMA NoMoreMissing ==
  ASSUME MembersOK, NEW c \in Clusters, OneMissing(c), Missing(c)' \subseteq Missing(c),
         members'[c] # {} => Voters(c)' # {},
         Cardinality(Voters(c)') \in Nat /\ Cardinality(Voters(c)') >= Cardinality(Voters(c))
  PROVE  OneMissing(c)'
<1>1. Cardinality(Voters(c)) \in Nat
  BY VotersCount
<1>2. ASSUME Missing(c)' # {} PROVE Cardinality(Voters(c)') >= 3 /\ \E m : Missing(c)' = {m}
  <2>1. PICK m : Missing(c) = {m}
    BY <1>2 DEF OneMissing
  <2>2. Missing(c)' = {m}
    BY <1>2, <2>1
  <2>3. Cardinality(Voters(c)) >= 3
    BY <2>1 DEF OneMissing
  <2> QED BY <1>1, <2>2, <2>3
<1> QED BY <1>2 DEF OneMissing

\* A pod that keeps its data, or has none, is not missing where it was not before.
LEMMA StillHolds ==
  ASSUME NEW p \in Pods, OnlyAt(p), dir'[p] = dir[p] \/ dir[p] \notin Identity,
         NEW c \in Clusters, NEW m \in Member, Holds(m.url, c, m.id)
  PROVE  Holds(m.url, c, m.id)'
<1>1. m.url \in Pods /\ m.id \in Ids
  BY DEF Member
<1>2. [cluster |-> c, id |-> m.id] \in Identity
  BY <1>1 DEF Identity
<1>3. dir'[m.url] = dir[m.url]
  BY <1>1, <1>2 DEF OnlyAt, Holds
<1> QED BY <1>3 DEF Holds

\* So with the voters it had, a cluster misses no more than it did.
LEMMA SameVotersMissing ==
  ASSUME MembersOK, NEW p \in Pods, OnlyAt(p), dir'[p] = dir[p] \/ dir[p] \notin Identity,
         NEW c \in Clusters, Voters(c)' = Voters(c), OneMissing(c),
         members'[c] # {} => members[c] # {} \/ Voters(c) # {}
  PROVE  OneMissing(c)'
<1>1. \A m \in Voters(c) : m \in Member
  BY DEF Voters, MembersOK
<1>2. Missing(c)' \subseteq Missing(c)
  BY <1>1, StillHolds DEF Missing
<1>3. members'[c] # {} => Voters(c)' # {}
  BY DEF OneMissing
<1>4. Cardinality(Voters(c)') = Cardinality(Voters(c)) /\ Cardinality(Voters(c)) \in Nat
  BY VotersCount
<1> QED BY <1>2, <1>3, <1>4, NoMoreMissing

\* When every pod runs as a voting member, a cluster of three pods or more misses none
\* of its voters, and has three.
LEMMA AllRunning ==
  ASSUME OInv, Cardinality(Pods) >= 3, NEW c \in Clusters, \A q \in Pods : Running(q, c)
  PROVE  Missing(c) = {} /\ Cardinality(Voters(c)) >= 3 /\ members[c] # {}
<1>0. MembersOK /\ Distinct /\ Pod0 \in Pods
  BY Pod0Assumption DEF OInv, IInv, TypesOK, Owned
<1>1. \A m \in Voters(c) : m.url \in Pods
  BY <1>0 DEF Voters, MembersOK, Member
<1>2. Missing(c) = {}
  <2> SUFFICES ASSUME NEW m \in Voters(c) PROVE Holds(m.url, c, m.id)
    BY DEF Missing
  <2>1. PICK n \in Voters(c) : n.url = m.url /\ IsUp(c, n)
    BY <1>1 DEF Running
  <2>2. n = m
    BY <1>0, <2>1 DEF Voters, Distinct, UniqueUrls
  <2> QED BY <2>1, <2>2 DEF IsUp, Holds
<1> DEFINE f == [m \in Voters(c) |-> m.url]
<1>3. f \in Surjection(Voters(c), Pods)
  <2>1. f \in [Voters(c) -> Pods]
    BY <1>1
  <2>2. \A q \in Pods : \E m \in Voters(c) : f[m] = q
    BY DEF Running
  <2> QED BY <2>1, <2>2 DEF Surjection
<1> HIDE DEF f
<1>4. IsFiniteSet(Voters(c)) /\ Cardinality(Voters(c)) \in Nat
  BY <1>0, VotersCount
<1>5. IsFiniteSet(Pods) /\ Cardinality(Pods) <= Cardinality(Voters(c))
  BY <1>3, <1>4, FS_Surjection
<1>6. Cardinality(Pods) \in Nat
  BY <1>5, FS_CardinalityType
<1>7. members[c] # {}
  BY <1>0 DEF Running, Voters
<1> QED BY <1>2, <1>4, <1>5, <1>6, <1>7

\* Losing one pod then leaves its member without data, and no other.
LEMMA LosesOne ==
  ASSUME OInv, OneCluster, Cardinality(Pods) >= 3, NEW p \in Pods, Crash(p),
         NEW c \in Clusters, \A q \in Pods : Running(q, c)
  PROVE  \A d \in Clusters : OneMissing(d)'
<1>0. MembersOK /\ Distinct /\ OnlyAt(p) /\ Missing(c) = {} /\ Cardinality(Voters(c)) >= 3 /\ members[c] # {}
  BY AllRunning, StepFacts DEF OInv, IInv, TypesOK, Owned
<1> SUFFICES ASSUME NEW d \in Clusters PROVE OneMissing(d)'
  OBVIOUS
<1>1. members' = members /\ Voters(d)' = Voters(d)
  BY DEF Crash, Voters
<1>2. CASE d # c
  <2>1. members[d] = {}
    BY <1>0, <1>2 DEF OneCluster
  <2>2. members'[d] = {} /\ Missing(d)' = {}
    BY <1>1, <2>1 DEF Missing, Voters
  <2> QED BY <2>2 DEF OneMissing
<1>3. CASE d = c
  <2>1. \A m \in Missing(d)' : m \in Voters(d) /\ m.url = p
    <3> SUFFICES ASSUME NEW m \in Voters(d), ~Holds(m.url, d, m.id)' PROVE m.url = p
      BY <1>1 DEF Missing
    <3>1. Holds(m.url, d, m.id) /\ m.url \in Pods
      BY <1>0, <1>3 DEF Missing, Voters, MembersOK, Member
    <3> QED BY <1>0, <3>1 DEF OnlyAt, Holds
  <2>2. \A m, n \in Missing(d)' : m = n
    BY <1>0, <2>1 DEF Voters, Distinct, UniqueUrls
  <2>3. Missing(d)' # {} => \E m : Missing(d)' = {m}
    BY <2>2
  <2>4. Cardinality(Voters(d)') >= 3 /\ Voters(d)' # {}
    <3>1. Voters(d) # {}
      BY <1>0, <1>3, FS_EmptySet
    <3> QED BY <1>0, <1>1, <1>3, <3>1
  <2> QED BY <2>3, <2>4 DEF OneMissing
<1> QED BY <1>2, <1>3

\* Nobody removes the data of a voter.
LEMMA DropsNoVoter ==
  ASSUME OInv, NoneDead, OneCluster, NEW p \in Pods, Knows(p), Step(p) \/ PromoteLosesAnswer(p),
         dir[p] \in Identity, dir'[p] \notin Identity, InitializeNewCluster(Pod0) => NoCluster,
         NEW d \in Clusters, OneMissing(d)
  PROVE  OneMissing(d)'
<1>0. MembersOK /\ OnlyAt(p) /\ Effect(p) /\ dir \in [Pods -> Identity \cup {None, Partial}]
  BY StepFacts DEF OInv, IInv, TypesOK, DirOK
<1>1. LearnerOnly(p)' /\ \A c \in Clusters : members'[c] \subseteq members[c]
  BY DropsKnowingly
<1>2. Voters(d)' = Voters(d)
  <2>1. CASE UNCHANGED members
    BY <2>1 DEF Voters
  <2>2. ASSUME NEW c \in Reachable(p), NEW m \in members[c], Removes(p, c, m)
        PROVE  Voters(d)' = Voters(d)
    <3>1. c \in Clusters
      BY DEF Reachable
    <3>2. m.url = p /\ pc[p] \in {"removeSelf", "cleanUp"}
      BY <2>2, <3>1, RemoverIsDown
    <3>3. pc[p] = "cleanUp"
      BY <3>2, DirAssumption DEF Knows
    <3>4. m \notin Voters(c)
      BY <3>1, <3>2, <3>3 DEF Knows, LearnerOnly, Voters
    <3>5. Voters(d)' = IF d = c THEN Voters(c) \ {m} ELSE Voters(d)
      BY <1>0, <2>2, <3>1, RemovedVoters DEF Removes
    <3> QED BY <3>4, <3>5
  <2>3. ~EtcdBootstraps(p) /\ ~EtcdJoins(p)
    BY DirAssumption DEF EtcdBootstraps, EtcdJoins
  <2> QED BY <1>0, <2>1, <2>2, <2>3 DEF Effect, Quiet, Lists, Promotes, Adds
<1>3. Missing(d)' \subseteq Missing(d)
  <2> SUFFICES ASSUME NEW m \in Voters(d), m \in Voters(d)', Holds(m.url, d, m.id)
               PROVE  Holds(m.url, d, m.id)'
    BY <1>2 DEF Missing
  <2>1. m.url # p
    BY <1>1 DEF Voters, LearnerOnly
  <2>2. m.url \in Pods
    BY <1>0 DEF Voters, MembersOK, Member
  <2> QED BY <1>0, <2>1, <2>2 DEF OnlyAt, Holds
<1>4. members'[d] # {} => Voters(d)' # {}
  BY <1>1, <1>2 DEF OneMissing
<1>5. Cardinality(Voters(d)') = Cardinality(Voters(d)) /\ Cardinality(Voters(d)) \in Nat
  BY <1>0, <1>2, VotersCount
<1> QED BY <1>0, <1>3, <1>4, <1>5, NoMoreMissing

\* Who founds the first cluster holds its data.
LEMMA FoundsWhole ==
  ASSUME OInv, NoBareBoot, Single, NEW p \in Pods, EtcdBootstraps(p), NEW d \in Clusters
  PROVE  OneMissing(d)'
<1>0. MembersOK /\ dir \in [Pods -> Identity \cup {None, Partial}]
  BY DEF OInv, IInv, TypesOK, DirOK
<1>1. NoCluster
  <2>1. p = Pod0 /\ env[p].state = "new"
    BY FounderDecided
  <2> QED BY <2>1, DirAssumption DEF EtcdBootstraps, Single, FoundsFirst
<1>2. PICK c \in Clusters, i \in Ids :
        /\ members' = [members EXCEPT ![c] = {[id |-> i, url |-> p, name |-> p, learner |-> FALSE]}]
        /\ dir' = [dir EXCEPT ![p] = [cluster |-> c, id |-> i]]
  BY DEF EtcdBootstraps
<1> DEFINE k == [id |-> i, url |-> p, name |-> p, learner |-> FALSE]
<1>3. members'[d] = (IF d = c THEN {k} ELSE {}) /\ dir'[p] = [cluster |-> c, id |-> i]
  BY <1>0, <1>1, <1>2 DEF MembersOK, NoCluster
<1>4. Voters(d)' = IF d = c THEN {k} ELSE {}
  BY <1>3 DEF Voters
<1>5. Missing(d)' = {}
  BY <1>3, <1>4 DEF Missing, Holds
<1> QED BY <1>3, <1>4, <1>5 DEF OneMissing

\* Whose etcd starts for the first time is no longer missing.
LEMMA JoinsWhole ==
  ASSUME OInv, NEW p \in Pods, OnlyAt(p), EtcdJoins(p), NEW d \in Clusters, OneMissing(d)
  PROVE  OneMissing(d)'
<1>0. MembersOK /\ Distinct /\ dir \in [Pods -> Identity \cup {None, Partial}]
  BY DEF OInv, IInv, TypesOK, DirOK, Owned
<1>1. dir[p] \notin Identity
  BY DirAssumption DEF EtcdJoins
<1>2. PICK c \in Clusters : \E m \in members[c], k \in Member :
         /\ k.id = m.id /\ k.url = m.url /\ m.url = p /\ k.learner = m.learner
         /\ Holds(p, c, m.id)'
         /\ \A e \in Clusters : members'[e] = IF e = c THEN (members[c] \ {m}) \cup {k} ELSE members[e]
         /\ \A e \in Clusters : Voters(e)' = IF e = c /\ ~m.learner
                                             THEN (Voters(c) \ {m}) \cup {k} ELSE Voters(e)
  BY <1>0, JoinedVoters
<1>3. PICK m \in members[c], k \in Member :
         /\ k.id = m.id /\ k.url = p
         /\ Holds(p, c, m.id)'
         /\ \A e \in Clusters : members'[e] = IF e = c THEN (members[c] \ {m}) \cup {k} ELSE members[e]
         /\ \A e \in Clusters : Voters(e)' = IF e = c /\ ~m.learner
                                             THEN (Voters(c) \ {m}) \cup {k} ELSE Voters(e)
  BY <1>2
<1>4. CASE Voters(d)' = Voters(d)
  <2>1. members'[d] # {} => members[d] # {}
    BY <1>3
  <2> QED BY <1>0, <1>1, <1>4, <2>1, SameVotersMissing
<1>5. CASE d = c /\ ~m.learner
  <2>1. Voters(d)' = (Voters(d) \ {m}) \cup {k} /\ m \in Voters(d)
    BY <1>3, <1>5 DEF Voters
  <2>2. Holds(k.url, d, k.id)'
    <3>1. k.url = p /\ k.id = m.id
      BY <1>3
    <3>2. Holds(p, d, m.id)'
      BY <1>3, <1>5
    <3>3. dir'[p] = [cluster |-> d, id |-> m.id]
      BY <3>2 DEF Holds
    <3> QED BY <3>1, <3>3 DEF Holds
  <2>3. \A n \in Voters(d) : n \in Member
    BY <1>0 DEF Voters, MembersOK
  <2>4. Missing(d)' \subseteq Missing(d)
    BY <1>1, <2>1, <2>2, <2>3, StillHolds DEF Missing
  <2>5. k \notin Voters(d) \ {m}
    BY <1>0, <1>3, <2>1 DEF Voters, Distinct, UniqueIds
  <2>6. Cardinality(Voters(d)) \in Nat /\ IsFiniteSet(Voters(d))
    BY <1>0, VotersCount
  <2>7. Cardinality(Voters(d) \ {m}) = Cardinality(Voters(d)) - 1 /\ IsFiniteSet(Voters(d) \ {m})
    BY <2>1, <2>6, FS_RemoveElement
  <2>8. Cardinality((Voters(d) \ {m}) \cup {k}) = Cardinality(Voters(d) \ {m}) + 1
    BY <2>5, <2>7, FS_AddElement
  <2>9. Cardinality(Voters(d)') = Cardinality(Voters(d))
    BY <2>1, <2>6, <2>7, <2>8
  <2>10. Voters(d)' # {}
    BY <2>1
  <2>11. Cardinality(Voters(d)') \in Nat /\ Cardinality(Voters(d)') >= Cardinality(Voters(d))
    BY <2>6, <2>9
  <2> QED BY <1>0, <2>4, <2>10, <2>11, NoMoreMissing
<1> QED BY <1>3, <1>4, <1>5

\* Who removes itself is the one that is missing, or a learner.
LEMMA RemovesMissing ==
  ASSUME OInv, NoneDead, NEW p \in Pods, OnlyAt(p), dir'[p] = dir[p] \/ dir[p] \notin Identity,
         Knows(p), NEW c \in Clusters, NEW m \in members[c], Removes(p, c, m),
         NEW d \in Clusters, OneMissing(d)
  PROVE  OneMissing(d)'
<1>0. MembersOK /\ members'[d] \subseteq members[d]
  BY DEF OInv, IInv, TypesOK, MembersOK, Removes, Removed
<1>1. Voters(d)' = IF d = c THEN Voters(c) \ {m} ELSE Voters(d)
  BY <1>0, RemovedVoters DEF Removes
<1>2. m.url = p /\ pc[p] \in {"removeSelf", "cleanUp"} /\ m \in Member
  BY <1>0, RemoverIsDown DEF MembersOK
<1>3. CASE Voters(d)' = Voters(d)
  <2>1. members'[d] # {} => members[d] # {}
    BY <1>0
  <2> QED BY <1>0, <1>3, <2>1, SameVotersMissing
<1>4. CASE d = c /\ m \in Voters(c)
  <2>1. dir[p] = None
    BY <1>2, <1>4 DEF Knows, LearnerOnly, Voters
  <2>2. ~Holds(m.url, d, m.id)
    <3>1. [cluster |-> d, id |-> m.id] \in Identity
      BY <1>2 DEF Identity, Member
    <3> QED BY <1>2, <2>1, <3>1, DirAssumption DEF Holds
  <2>3. Missing(d) = {m} /\ Cardinality(Voters(d)) >= 3
    BY <1>4, <2>2 DEF OneMissing, Missing
  <2>4. Voters(d)' = Voters(d) \ {m}
    BY <1>1, <1>4
  <2>5. \A n \in Voters(d) : n \in Member
    BY <1>0 DEF Voters, MembersOK
  <2>6. Missing(d)' = {}
    BY <2>3, <2>4, <2>5, StillHolds DEF Missing
  <2>7. Cardinality(Voters(d) \ {m}) = Cardinality(Voters(d)) - 1 /\ Cardinality(Voters(d)) \in Nat
    BY <1>0, <1>4, VotersCount, FS_RemoveElement
  <2>8. Voters(d) \ {m} # {}
    BY <2>3, <2>7, FS_EmptySet
  <2> QED BY <2>4, <2>6, <2>8 DEF OneMissing
<1> QED BY <1>1, <1>3, <1>4

\* Who is promoted has caught up, in a directory of its own.
LEMMA PromotesWhole ==
  ASSUME OInv, NEW p \in Pods, OnlyAt(p), NEW c \in Clusters, NEW m \in members[c],
         Promotes(p, c, m), NEW d \in Clusters, OneMissing(d)
  PROVE  OneMissing(d)'
<1>0. MembersOK /\ Distinct
  BY DEF OInv, IInv, TypesOK, Owned
<1>1. PICK k \in Member :
         /\ k.id = m.id /\ k.url = m.url /\ ~k.learner /\ k \notin Voters(c)
         /\ \A e \in Clusters : Voters(e)' = IF e = c THEN Voters(c) \cup {k} ELSE Voters(e)
  BY <1>0, PromotedVoters DEF Promotes
<1>2. dir'[p] = dir[p] /\ Holds(m.url, c, m.id)
  BY DEF Promotes, PromoteOk, Holds
<1>3. CASE d # c
  <2>1. Voters(d)' = Voters(d)
    BY <1>1, <1>3
  <2>2. members'[d] = members[d]
    BY <1>0, <1>3 DEF Promotes, Promoted, MembersOK
  <2> QED BY <1>0, <1>2, <2>1, <2>2, SameVotersMissing
<1>4. CASE d = c
  <2>1. Voters(d)' = Voters(d) \cup {k} /\ k \notin Voters(d)
    BY <1>1, <1>4
  <2>2. Holds(k.url, d, k.id)
    BY <1>1, <1>2, <1>4 DEF Holds
  <2>3. \A n \in Voters(d) : n \in Member
    BY <1>0 DEF Voters, MembersOK
  <2>4. Missing(d)' \subseteq Missing(d)
    BY <1>2, <2>1, <2>2, <2>3, StillHolds DEF Missing
  <2>5. Cardinality(Voters(d) \cup {k}) = Cardinality(Voters(d)) + 1 /\ Cardinality(Voters(d)) \in Nat
    BY <1>0, <2>1, VotersCount, FS_AddElement
  <2>6. Cardinality(Voters(d)') \in Nat /\ Cardinality(Voters(d)') >= Cardinality(Voters(d))
    BY <2>1, <2>5
  <2> QED BY <1>0, <2>1, <2>4, <2>6, NoMoreMissing
<1> QED BY <1>3, <1>4

\* A voter is added while none is missing, to two others.
LEMMA AddsMissing ==
  ASSUME OInv, Single, TwoStay, NEW p \in Pods, OnlyAt(p), NEW c \in Reachable(p), NEW i \in Ids,
         Adds(p, c, i), NEW d \in Clusters, OneMissing(d)
  PROVE  OneMissing(d)'
<1>0. MembersOK /\ view[p] \in View /\ c \in Clusters /\ Serving(c) /\ members[c] # {} /\ dir'[p] = dir[p]
  BY DEF OInv, IInv, TypesOK, LoopOK, Reachable, Adds
<1> DEFINE k == AddedMember(p, i)
<1>1. /\ k \notin Voters(c)
      /\ \A e \in Clusters : Voters(e)' = IF e = c /\ ~AsLearner(p) THEN Voters(c) \cup {k} ELSE Voters(e)
  BY <1>0, AddedVoters DEF Adds
<1>2. members' = [members EXCEPT ![c] = @ \cup {k}]
  BY DEF Adds, MemberAdd
<1>3. AddOk(c, p, AsLearner(p)) /\ view[p].votes >= 1
  BY DEF Adds, MemberAdd
<1> HIDE DEF k
<1>4. members'[d] = IF d = c THEN members[c] \cup {k} ELSE members[d]
  BY <1>0, <1>2 DEF MembersOK
<1>5. CASE d # c \/ AsLearner(p)
  <2>1. Voters(d)' = Voters(d)
    BY <1>1, <1>5
  <2>2. members'[d] # {} => members[d] # {}
    BY <1>0, <1>4
  <2> QED BY <1>0, <2>1, <2>2, SameVotersMissing
<1>6. CASE d = c /\ ~AsLearner(p)
  <2>1. view[p].votes >= 2
    BY <1>0, <1>3, <1>6 DEF AsLearner, View
  <2>2. PICK e \in Clusters : Cardinality(Voters(e)) >= 2
    BY <2>1 DEF TwoStay
  <2>3. e = d
    <3>1. Voters(e) # {}
      BY <2>2, FS_EmptySet
    <3> QED BY <1>0, <1>6, <3>1 DEF Voters, Single, OneCluster
  <2>4. \A n \in Voters(d) : Holds(n.url, d, n.id) /\ n \in Member
    BY <1>0, <1>3, <1>6 DEF AddOk, UpVoters, IsUp, Holds, Voters, MembersOK
  <2>5. Voters(d)' = Voters(d) \cup {k}
    BY <1>1, <1>6
  <2>6. Missing(d)' \subseteq {k}
    BY <1>0, <2>4, <2>5, StillHolds DEF Missing
  <2>7. Cardinality(Voters(d) \cup {k}) = Cardinality(Voters(d)) + 1 /\ Cardinality(Voters(d)) \in Nat
    BY <1>0, <1>1, <1>6, VotersCount, FS_AddElement
  <2>8. Cardinality(Voters(d)') >= 3
    BY <2>2, <2>3, <2>5, <2>7
  <2>9. Missing(d)' # {} => Missing(d)' = {k}
    BY <2>6
  <2>10. Voters(d)' # {}
    BY <2>5
  <2> QED BY <2>8, <2>9, <2>10 DEF OneMissing
<1> QED BY <1>5, <1>6

\* Every step of a pod that loses no data leaves at most one voter missing.
LEMMA OneMissingStep ==
  ASSUME OInv, NoBareBoot, NoneDead, Single, TwoStay, Knowing, NEW p \in Pods,
         Step(p) \/ PromoteLosesAnswer(p) \/ Crash(p), dir'[p] = dir[p] \/ dir[p] \notin Identity,
         NEW d \in Clusters, OneMissing(d)
  PROVE  OneMissing(d)'
<1>0. MembersOK /\ OnlyAt(p) /\ Effect(p) /\ Knows(p)
  BY StepFacts DEF OInv, IInv, TypesOK, Knowing
<1>1. CASE UNCHANGED members
  <2>1. Voters(d)' = Voters(d) /\ (members'[d] # {} => members[d] # {})
    BY <1>1 DEF Voters
  <2> QED BY <1>0, <2>1, SameVotersMissing
<1>2. CASE EtcdBootstraps(p)
  BY <1>2, FoundsWhole
<1>3. CASE EtcdJoins(p)
  BY <1>0, <1>3, JoinsWhole
<1>4. ASSUME NEW c \in Reachable(p), NEW m \in members[c], Removes(p, c, m) PROVE OneMissing(d)'
  BY <1>0, <1>4, RemovesMissing DEF Reachable
<1>5. ASSUME NEW c \in Reachable(p), NEW m \in members[c], Promotes(p, c, m) PROVE OneMissing(d)'
  BY <1>0, <1>5, PromotesWhole DEF Reachable
<1>6. ASSUME NEW c \in Reachable(p), NEW i \in Ids, Adds(p, c, i) PROVE OneMissing(d)'
  BY <1>0, <1>6, AddsMissing
<1> QED BY <1>0, <1>1, <1>2, <1>3, <1>4, <1>5, <1>6 DEF Effect, Quiet, Lists

\* A pod that loses its data while all run can always be replaced: at every moment while
\* it leaves and joins again, and after any crash, refusal or lost answer of an addition
\* or a removal, most voting members of the cluster hold its data (manager.go:241-252,
\* 303-369). At most one of three is missing, and only the missing one removes itself; a
\* voter is added only while all others run. Two pods lost at once, a
\* promotion whose answer is lost, or a second cluster would break it.
THEOREM LosingOneIsRecoverable ==
  ASSUME {"file", "lostPromote"} \cap Faults = {}, Cardinality(Pods) >= 3
  PROVE  Spec /\ FormsOnce /\ []NoBareBoot /\ LosesOneAtATime => []Recoverable
<1> DEFINE First == InitializeNewCluster(Pod0) => NoCluster
           Loses == \A p \in Pods : Crash(p) /\ dir[p] \in Identity /\ dir'[p] # dir[p]
                      => \E c \in Clusters : \A q \in Pods : Running(q, c)
           Most  == \A c \in Clusters : OneMissing(c)
<1>1. Init => Most
  BY DEF Init, OneMissing, Missing, Voters
<1>2. CInv /\ TwoStay /\ Knowing /\ Most /\ [Next]_vars /\ [First]_vars /\ [Loses]_vars => Most'
  <2> SUFFICES ASSUME CInv, TwoStay, Knowing, Most, [Next]_vars, [First]_vars, [Loses]_vars,
                      NEW d \in Clusters
               PROVE  OneMissing(d)'
    OBVIOUS
  <2>1. CASE UNCHANGED vars
    BY <2>1 DEF vars, loopVars, OneMissing, Missing, Voters, Holds
  <2>2. ASSUME NEW p \in Pods, Step(p) \/ PromoteLosesAnswer(p) \/ Crash(p), First, Loses
        PROVE  OneMissing(d)'
    <3>1. CASE dir'[p] = dir[p] \/ dir[p] \notin Identity
      BY <2>2, <3>1, OneMissingStep DEF CInv
    <3>2. CASE Crash(p) /\ dir[p] \in Identity /\ dir'[p] # dir[p]
      BY <2>2, <3>2, LosesOne DEF CInv, Single
    <3>3. CASE ~Crash(p) /\ dir[p] \in Identity /\ dir'[p] # dir[p]
      <4>1. dir'[p] \in {dir[p], None, Partial}
        <5>1. Effect(p)
          BY <2>2, StepFacts DEF CInv, OInv
        <5>2. ~EtcdBootstraps(p) /\ ~EtcdJoins(p)
          BY <3>3, DirAssumption DEF EtcdBootstraps, EtcdJoins
        <5> QED BY <5>1, <5>2 DEF Effect, Quiet, Lists, Removes, Promotes, Adds, NoNewData
      <4>2. dir'[p] \notin Identity
        BY <3>3, <4>1, DirAssumption
      <4> QED BY <2>2, <3>3, <4>2, DropsNoVoter DEF CInv, Single, Knowing
    <3> QED BY <3>1, <3>2, <3>3
  <2> QED BY <2>1, <2>2 DEF Next
<1>3. CInv /\ Most => Recoverable
  BY MostHold DEF CInv, OInv, IInv, TypesOK, Recoverable
<1> HIDE DEF First, Loses, Most
<1>4. "file" \notin Faults /\ "lostPromote" \notin Faults
  OBVIOUS
<1>5. Spec /\ FormsOnce /\ []NoBareBoot /\ [][First]_vars /\ [][Loses]_vars => []Recoverable
  BY <1>1, <1>2, <1>3, <1>4, OneClusterInductive, TwoStayInductive, KnowingInductive, PTL DEF Spec
<1>6. FormsOnce => [][First]_vars
  BY DEF FormsOnce, First
<1>7. LosesOneAtATime => [][Loses]_vars
  BY DEF LosesOneAtATime, Loses
<1> QED BY <1>5, <1>6, <1>7
=============================================================================
