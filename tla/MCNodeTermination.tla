------------------------- MODULE MCNodeTermination -------------------------
(***************************************************************************)
(* Two NodeClaims, two nodes for them, one other node in the cluster.      *)
(***************************************************************************)
EXTENDS NodeTermination
=============================================================================
