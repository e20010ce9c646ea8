----------------------- MODULE MCInstanceTypeProvider -----------------------
(***************************************************************************)
(* Two flavors, fetched in pages of one: a fetch takes three calls when    *)
(* both are listed.  A flavor is sold out in one zone or in both; one zone *)
(* may be missing from the cloud's list; one offering can be marked.       *)
(***************************************************************************)
EXTENDS InstanceTypeProvider

CONSTANTS z1, z2

Everywhere == [z \in {z1, z2} |-> NoOverride]
SoldOut == [status |-> "sellout", az |-> Everywhere]
SoldOutInOne == [status |-> "normal", az |-> [Everywhere EXCEPT ![z2] = "obt_sellout"]]

MCEntries == {SoldOutInOne, SoldOut}
MCTried == {<<1, z1>>}
MCZoneLists == {{z2}, {z1, z2}}
=============================================================================
