------------------------ MODULE MCUnregisteredTaint ------------------------
(***************************************************************************)
(* Two Nodes of one name; a NodeClaim without taints and one that repeats  *)
(* a taint, asks for what CCE manages, and has the unregistered key with   *)
(* another value and with another effect.                                  *)
(***************************************************************************)
EXTENDS UnregisteredTaint

MCKey == {"app", "node.kubernetes.io/not-ready", Unregistered.key, NetworkUnavailable.key}

T(k, e, v) == [key |-> k, effect |-> e, value |-> v]

Plain == [startup |-> <<>>, taints |-> <<>>]

Odd ==
  [startup |-> <<T("app", "NoExecute", "v1"), T("app", "NoSchedule", "none")>>,
   taints |-> <<T("app", "NoExecute", "v2"),
                T(Unregistered.key, "NoExecute", "x"), T(Unregistered.key, "NoSchedule", "none"),
                T(NetworkUnavailable.key, "NoSchedule", "x"),
                T(NetworkUnavailable.key, "NoExecute", "none")>>]

MCClaims == {Plain, Odd}
MCOthers == {T("node.kubernetes.io/not-ready", "NoExecute", "none")}
=============================================================================
