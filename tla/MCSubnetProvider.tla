-------------------------- MODULE MCSubnetProvider --------------------------
(***************************************************************************)
(* A small VPC for TLC: two subnets, a NodeClass that selects the first by *)
(* id and one that selects both (one of them by name and id), and calls    *)
(* whose instance types predict one, two or no addresses.                  *)
(***************************************************************************)
EXTENDS SubnetAccounting

CONSTANTS s1, s2, n1, n2, k1, k2, z1, z2

MCSubnet == {s1, s2}
MCSubnetName == [s \in MCSubnet |-> IF s = s1 THEN n1 ELSE n2]
MCKey == {k1, k2}
MCZone == {z1, z2}

MCTerms == [k \in MCKey |->
  IF k = k1
  THEN {[id |-> s1, name |-> Absent], [id |-> s2, name |-> n1], [id |-> Absent, name |-> Absent]}
  ELSE {[id |-> Absent, name |-> n1], [id |-> s2, name |-> n2]}]

Small == [pods |-> 1, zones |-> {z1, z2}, available |-> {z1}]
Large == [pods |-> 2, zones |-> {z1, z2}, available |-> {z1, z2}]
SoldOut == [pods |-> 1, zones |-> {z2}, available |-> {}]

MCRequests ==
  {[status |-> <<s1, s2>>, types |-> {Small, Large}],
   [status |-> <<s2, s1>>, types |-> {Small, SoldOut}],
   [status |-> <<s2>>, types |-> {SoldOut}]}
=============================================================================
