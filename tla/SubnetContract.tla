--------------------------- MODULE SubnetContract ---------------------------
(***************************************************************************)
(* What SelectForLaunch and ReleaseInflightIPs promise to the goroutine    *)
(* that creates a node (src/pkg/providers/subnet/subnet.go): it gets some  *)
(* subnet with a predicted number of addresses, and the reservation is its *)
(* own until it releases it.  Which subnet and which number are left open; *)
(* SubnetProvider implements this module, InstanceProvider relies on it.   *)
(***************************************************************************)
EXTENDS Naturals

CONSTANTS Subnet, Call, MaxPods, Absent

VARIABLE held  \* per call: the subnet and the addresses reserved on it

NoReservation == [subnet |-> Absent, ips |-> 0]

Reservation == [subnet : Subnet, ips : 0..MaxPods]

Init == held = [c \in Call |-> NoReservation]

Reserve(c) ==
  /\ held[c].ips = 0
  /\ \E r \in Reservation : held' = [held EXCEPT ![c] = r]

Release(c) == held' = [held EXCEPT ![c] = NoReservation]

Next == \E c \in Call : Reserve(c) \/ Release(c)

Spec == Init /\ [][Next]_held
=============================================================================
