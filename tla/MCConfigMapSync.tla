--------------------------- MODULE MCConfigMapSync ---------------------------
(* Instances of ConfigMapSync for TLC. *)
EXTENDS ConfigMapSync

CONSTANTS a, b, i1, i2

NodeSpec(eth0, eth1) == [interface \in {"eth0", "eth1", "lo"} |->
  CASE interface = "eth0" -> eth0
    [] interface = "eth1" -> eth1
    [] interface = "lo"   -> i1]

\* a changes its second IP; b may not have a master IP yet.
NodeSpecs == [o \in {a, b} |->
  IF o = a THEN {NodeSpec(i1, NoIp), NodeSpec(i1, i2)}
           ELSE {NodeSpec(NoIp, i1), NodeSpec(i2, NoIp)}]

\* Others write an empty value for a key.
EmptyValue == [k \in Ips |-> IF k = i1 THEN {NoIp} ELSE {}]
Writes     == {EmptyValue}

=============================================================================
