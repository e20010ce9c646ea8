------------------------ MODULE MCNodeClassLifecycle ------------------------
(***************************************************************************)
(* One NodeClass that is edited (its second generation matches no subnet,  *)
(* its third one of the first's two), deleted and created again, with two  *)
(* NodeClaims.                                                             *)
(***************************************************************************)
EXTENDS NodeClassLifecycle

CONSTANTS s1, s2

MCSubnet == {s1, s2}
MCSelected == [g \in 1..MaxGen |-> IF g = 1 THEN {s1, s2} ELSE IF g = 2 THEN {} ELSE {s2}]
=============================================================================
