--------------------------- MODULE LaunchContract ---------------------------
(***************************************************************************)
(* What Karpenter's core relies on when it calls CloudProvider.Create      *)
(* (src/pkg/cloudprovider/cloudprovider.go), whatever offerings are tried  *)
(* and however calls overlap:                                              *)
(*                                                                         *)
(*   - a call provisions at most one node;                                 *)
(*   - success names the offering of the node the call provisioned;        *)
(*   - insufficient capacity and NodeClass-not-ready, the two answers on   *)
(*     which the core deletes the NodeClaim without asking for the node's  *)
(*     deletion, are given only when the call provisioned nothing.         *)
(*                                                                         *)
(* Any other error leaves open whether a node exists, as a lost response   *)
(* does.                                                                   *)
(***************************************************************************)
CONSTANTS Call, Offering, NoOffering

VARIABLES
  outcome,  \* per call: "running", or the last answer
  node      \* per call: the offerings it provisioned nodes from

Kinds == {"none", "launched", "insufficientCapacity", "nodeClassNotReady", "createError"}

Outcomes == [kind : Kinds \cup {"running"}, offering : Offering \cup {NoOffering}]

Plain(kind) == [kind |-> kind, offering |-> NoOffering]

Init ==
  /\ outcome = [c \in Call |-> Plain("none")]
  /\ node = [c \in Call |-> {}]

Begin(c) ==
  /\ outcome[c].kind # "running"
  /\ outcome' = [outcome EXCEPT ![c] = Plain("running")]
  /\ node' = [node EXCEPT ![c] = {}]

Provision(c, o) ==
  /\ outcome[c].kind = "running"
  /\ node[c] = {}
  /\ node' = [node EXCEPT ![c] = {o}]
  /\ UNCHANGED outcome

Answer(c, r) ==
  /\ outcome[c].kind = "running"
  /\ r.kind \in Kinds \ {"none"}
  /\ r.kind = "launched" => node[c] = {r.offering}
  /\ r.kind \in {"insufficientCapacity", "nodeClassNotReady"} => node[c] = {}
  /\ outcome' = [outcome EXCEPT ![c] = r]
  /\ UNCHANGED node

Next == \E c \in Call :
  \/ Begin(c)
  \/ \E o \in Offering : Provision(c, o)
  \/ \E r \in Outcomes : Answer(c, r)

Spec == Init /\ [][Next]_<<outcome, node>>
=============================================================================
