------------------------------ MODULE HostSync ------------------------------
(***************************************************************************)
(* What ecsnode's publish and subscribe promises its subscribers, without  *)
(* channels, triggers and loops: each entry of the published map reaches   *)
(* each copy sooner or later, at its own time and as it is then, and       *)
(* nothing else does.                                                      *)
(***************************************************************************)
CONSTANTS
  Ips,         \* keys of the map, and what its entries are made of
  Subscribers

VARIABLES
  hosts,   \* the published map: {} where there is no entry
  copies   \* each subscriber's copy

vars == <<hosts, copies>>

Maps     == [Ips -> SUBSET Ips]
EmptyMap == [k \in Ips |-> {}]

Init == hosts = EmptyMap /\ copies = [s \in Subscribers |-> EmptyMap]

Change == hosts' \in Maps /\ UNCHANGED copies

\* An entry of a copy becomes what it is in the map, or is removed with it.
Adopt(s) ==
  /\ UNCHANGED hosts
  /\ \E k \in Ips : copies' = [copies EXCEPT ![s][k] = hosts[k]]

\* Another process leads, which knows nothing at first.
Reset == hosts' = EmptyMap /\ copies' = [s \in Subscribers |-> EmptyMap]

Next == Change \/ Reset \/ \E s \in Subscribers : Adopt(s)

Spec == Init /\ [][Next]_vars

\* An entry that differs is adopted, unless it is changed again and again.
Corrected(s, k) == copies[s][k] # hosts[k] /\ Adopt(s) /\ copies'[s][k] = hosts[k]
Fairness == \A s \in Subscribers, k \in Ips : WF_vars(Corrected(s, k))

FairSpec == Spec /\ Fairness

=============================================================================
