--------------------------- MODULE MCNodeClassHash ---------------------------
(***************************************************************************)
(* Instances of the hash controller: right after an upgrade from "v2" with *)
(* two NodeClaims to update, or with one to update and one to launch; and  *)
(* in operation under its own version with one NodeClaim to be launched.   *)
(***************************************************************************)
EXTENDS NodeClassHash

CONSTANTS c1, c2

Deployment(version, existing) == [version |-> version, existing |-> existing]

MCDeployments ==
  {Deployment("v2", {c1, c2}), Deployment("v2", {c1}), Deployment(CCENodeClassHashVersion, {c1})}

\* One NodeClaim, to be launched after an upgrade.
MCLaunch == {Deployment("v2", {})}

\* One NodeClaim, to be updated after an upgrade.
MCUpgrade == {Deployment("v2", {c1})}
=============================================================================
