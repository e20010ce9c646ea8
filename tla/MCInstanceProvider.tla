------------------------- MODULE MCInstanceProvider -------------------------
(***************************************************************************)
(* Two NodeClaims launched concurrently.  A claim has two candidates, of   *)
(* different types and zones, or only the second of them, or none; all     *)
(* cost the same, so that the names break the tie.                         *)
(***************************************************************************)
EXTENDS InstanceProvider

O(t, z) == [type |-> t, zone |-> z]

MCPrice == [t \in {1, 2} |-> 5]
MCClaims == {{O(1, 2), O(2, 1)}, {O(2, 1)}, {}}
=============================================================================
