----------------------------- MODULE MCEtcdCluster -----------------------------
(* Small instances of EtcdCluster and EtcdClusterClaims for TLC. *)
EXTENDS EtcdClusterClaims, TLC

CONSTANTS p0, p1, p2, p3

\* DiscoverEndpoints sees all endpoints at one instant, each at a moment of its own, or
\* may do either.
Snapshot  == {Pods}
OneByOne  == {{p} : p \in Pods}
EitherWay == Snapshot \cup OneByOne

\* A constraint: the pods but pod-0 probe all endpoints at one instant.
OthersAtOnce == \A p \in Pods \ {Pod0} : todo[p] \in {{}, Pods}

\* 10.0.0.1 and 10.0.0.10, say.
OnePrefix == {<<p1, p2>>}

\* Only pod-0 has a role of its own.
Sym == Permutations(Pods \ {Pod0})

\* A cluster of all pods, each of which restarted since it joined.
IdOf == CHOOSE f \in [Pods -> 1..Cardinality(Pods)] : \A p, q \in Pods : f[p] = f[q] => p = q

FormedInit ==
  /\ pc = [p \in Pods |-> "wait"]
  /\ todo = [p \in Pods |-> {}]
  /\ ready = [p \in Pods |-> {}]
  /\ notReady = [p \in Pods |-> {}]
  /\ dead = [p \in Pods |-> {}]
  /\ view = [p \in Pods |-> NoView]
  /\ env = [p \in Pods |-> NoEnv]
  /\ etcd = [p \in Pods |-> "up"]
  /\ dir = [p \in Pods |-> [cluster |-> 1, id |-> IdOf[p]]]
  /\ members = [c \in Clusters |->
       IF c = 1 THEN {[id |-> IdOf[p], url |-> p, name |-> p, learner |-> FALSE] : p \in Pods}
                ELSE {}]
  /\ crashes = 0 /\ faults = 0

FormedSpec     == FormedInit /\ [][Next]_vars
FairFormedSpec == FormedSpec /\ Fairness

\* Once all pods run, a rolling restart: a pod goes down only while they all do.
RollingCrash(p) == Crash(p) /\ \E c \in Clusters : \A q \in Pods : Running(q, c)

RollingNext == \E p \in Pods : Step(p) \/ PromoteLosesAnswer(p) \/ RollingCrash(p)

RollingSpec == Init /\ [][RollingNext]_vars /\ Fairness

=============================================================================
