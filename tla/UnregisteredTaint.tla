------------------------- MODULE UnregisteredTaint -------------------------
(***************************************************************************)
(* The taint karpenter.sh/unregistered:NoExecute of one Node, from the     *)
(* creation request (toCCETaints of                                        *)
(* src/pkg/providers/instance/instance.go), which asks for it, to the      *)
(* controller that takes it away for good                                  *)
(* (src/pkg/controllers/nodeclaim/unregisteredtaint/controller.go).        *)
(*                                                                         *)
(* Four others write the Node: the kubelet, which joins with the requested *)
(* taints; Karpenter's core, which registers the Node and removes the      *)
(* taint; CCE's node controller, which writes the requested taints once    *)
(* more, at any time; and whoever adds and removes other taints.  A Node   *)
(* may be replaced by another of the same name.  The controller works from *)
(* an informer's copy, its patch carries the copy's resource version, and  *)
(* a list in a patch replaces the stored list.                             *)
(*                                                                         *)
(* A resource version is modelled by the object: the patch of a copy is    *)
(* accepted when the Node is as copied.  If the Node was changed and       *)
(* changed back meanwhile the cluster answers with a conflict, which here  *)
(* is one of the failures that may meet any patch.                         *)
(***************************************************************************)
EXTENDS Naturals, Sequences

CONSTANTS
  Key,      \* keys of taints
  Value,    \* their values, "none" among them
  Claims,   \* what NodeClaims may ask for: startup taints and taints
  Others,   \* taints that others add and remove
  MaxUid,   \* bound on the Nodes of this name
  Absent

\* toCCETaintEffect has one of CCE's effects for each of these.
Effect == {"NoSchedule", "PreferNoSchedule", "NoExecute"}
Taint == [key : Key, effect : Effect, value : Value]

Unregistered == [key |-> "karpenter.sh/unregistered", effect |-> "NoExecute", value |-> "none"]
NetworkUnavailable ==
  [key |-> "node.kubernetes.io/network-unavailable", effect |-> "NoSchedule", value |-> "none"]

\* No value, or no label, is "none".  MatchTaint: the value does not matter.
Matches(t, u) == t.key = u.key /\ t.effect = u.effect

ASSUME KeyAssumption == {Unregistered.key, NetworkUnavailable.key} \subseteq Key
ASSUME ValueAssumption == "none" \in Value
ASSUME ClaimsAssumption == Claims \subseteq [startup : Seq(Taint), taints : Seq(Taint)]
ASSUME OthersAssumption ==
  Others \subseteq Taint /\ \A t \in Others : ~Matches(t, Unregistered)
ASSUME MaxUidAssumption == MaxUid \in Nat
ASSUME AbsentAssumption ==
  Absent \notin [uid : Nat, registered : {"true", "none"}, taints : SUBSET Taint]

VARIABLES
  node,    \* the Node in the API server
  uids,    \* Nodes of this name so far
  owed,    \* the requested taints, if CCE has yet to write them
  seen,    \* the informer's copy
  queued,  \* whether the Node is in the controller's queue
  step,    \* "idle" or "patch"
  copy     \* the Node that the reconcile under way works from

vars == <<node, uids, owed, seen, queued, step, copy>>

Node == [uid : Nat, registered : {"true", "none"}, taints : SUBSET Taint]

TypeOK ==
  /\ node \in Node \cup {Absent} /\ seen \in Node \cup {Absent}
  /\ uids \in 0..MaxUid
  /\ owed \in (SUBSET Taint) \cup {Absent}
  /\ queued \in BOOLEAN
  /\ step \in {"idle", "patch"}
  /\ copy \in Node \cup {Absent} /\ (step = "patch" => copy # Absent)

-----------------------------------------------------------------------------
(* toCCETaints: the taints of the creation request *)

\* Keeps every taint of a list.
AllOf(s) == {s[i] : i \in DOMAIN s}

\* Of taints that match, the last counts.
LastOf(s) == {s[i] : i \in {j \in DOMAIN s : \A k \in DOMAIN s : k > j => ~Matches(s[j], s[k])}}

\* The startup taints come before the taints; the unregistered taint is always
\* asked for, with its own value, and network-unavailable never, since CCE
\* rejects it.
ToCCETaints(claim) ==
  {Unregistered} \cup
  {t \in LastOf(claim.startup \o claim.taints) :
     ~Matches(t, Unregistered) /\ ~Matches(t, NetworkUnavailable)}

-----------------------------------------------------------------------------
(* The rest of the cluster *)

Init ==
  /\ node = Absent /\ uids = 0 /\ owed = Absent
  /\ seen = Absent /\ queued = FALSE /\ step = "idle" /\ copy = Absent

\* A kubelet joins, with --register-with-taints as CCE was asked.
Joins(claim) ==
  /\ node = Absent /\ uids < MaxUid
  /\ uids' = uids + 1
  /\ node' = [uid |-> uids', registered |-> "none", taints |-> ToCCETaints(claim)]
  /\ owed' = ToCCETaints(claim)
  /\ UNCHANGED <<seen, queued, step, copy>>

\* lo.Reject of the matching taints.
Without(taints) == {t \in taints : ~Matches(t, Unregistered)}

\* The core's registration: one patch, guarded by the resource version.
Registers ==
  /\ node # Absent /\ node.registered = "none"
  /\ node' = [node EXCEPT !.registered = "true", !.taints = Without(node.taints)]
  /\ UNCHANGED <<uids, owed, seen, queued, step, copy>>

\* CCE's Synced operation writes the requested taints.
CCESyncs ==
  /\ node # Absent /\ owed # Absent
  /\ node' = [node EXCEPT !.taints =
                owed \cup {t \in node.taints : \A u \in owed : ~Matches(t, u)}]
  /\ owed' = Absent
  /\ UNCHANGED <<uids, seen, queued, step, copy>>

OtherWrites(t) ==
  /\ node # Absent
  /\ node' \in {[node EXCEPT !.taints = @ \cup {t}], [node EXCEPT !.taints = @ \ {t}]}
  /\ UNCHANGED <<uids, owed, seen, queued, step, copy>>

NodeDeleted ==
  /\ node # Absent
  /\ node' = Absent /\ owed' = Absent
  /\ UNCHANGED <<uids, seen, queued, step, copy>>

-----------------------------------------------------------------------------
(* The controller *)

\* The taint alone, registered or not.
HasTaint(n) == \E t \in n.taints : Matches(t, Unregistered)

\* isKarpenterRegisteredWithStaleTaint.
StaleTaint(n) == n.registered = "true" /\ HasTaint(n)

\* Register: creations and updates that show a stale taint go to the queue,
\* deletions do not.
InformerSees ==
  /\ seen # node
  /\ seen' = node
  /\ queued' = (queued \/ (node # Absent /\ StaleTaint(node)))
  /\ UNCHANGED <<node, uids, owed, step, copy>>

\* Patches whatever it was called for.
Always == TRUE

\* A Node that is gone or has no stale taint needs nothing.
NeedsPatch == seen # Absent /\ StaleTaint(seen)

Reconcile ==
  /\ queued /\ step = "idle"
  /\ queued' = FALSE
  /\ IF NeedsPatch
       THEN step' = "patch" /\ copy' = seen
       ELSE UNCHANGED <<step, copy>>
  /\ UNCHANGED <<node, uids, owed, seen>>

\* A patch without the optimistic lock.
AnyVersion == node # Absent

Accepted == node = copy

Patched ==
  /\ step = "patch" /\ Accepted
  /\ node' = [node EXCEPT !.taints = Without(copy.taints)]
  /\ step' = "idle" /\ copy' = Absent
  /\ UNCHANGED <<uids, owed, seen, queued>>

\* An outcome that leaves the Node to the next event.
NoRetry == queued

Retry == TRUE

\* A conflict asks for a requeue, any other error is retried by the queue.
PatchFails ==
  /\ step = "patch"
  /\ queued' = Retry
  /\ step' = "idle" /\ copy' = Absent
  /\ UNCHANGED <<node, uids, owed, seen>>

\* The process ends; the next one lists all Nodes.
Restart ==
  /\ seen' = Absent /\ queued' = FALSE /\ step' = "idle" /\ copy' = Absent
  /\ UNCHANGED <<node, uids, owed>>

Next ==
  \/ \E claim \in Claims : Joins(claim)
  \/ Registers \/ CCESyncs \/ NodeDeleted
  \/ \E t \in Others : OtherWrites(t)
  \/ InformerSees \/ Reconcile \/ Patched \/ PatchFails \/ Restart

Spec == Init /\ [][Next]_vars

\* A patch is answered.  Restarts and failures may come any number of times, but
\* not always.
Fairness ==
  /\ SF_vars(InformerSees) /\ SF_vars(Reconcile)
  /\ WF_vars(Patched \/ PatchFails) /\ SF_vars(Patched)

FairSpec == Spec /\ Fairness

-----------------------------------------------------------------------------
(* Properties *)

\* No pod is scheduled to a Node before it is registered: it has the taint from
\* the moment it joins until the core registers it, whatever the controller's
\* cache said of an earlier Node of its name.
ProtectedUntilRegistered ==
  node # Absent /\ node.registered = "none" => HasTaint(node)

\* The controller's patch, which replaces the list of taints, takes away the
\* stale taint and no other: not one of the same key with another effect, nor
\* one that was added after the controller read the Node.
OtherTaintsSurvive ==
  [][step = "patch" /\ step' = "idle" /\ node' # node =>
       /\ node # Absent /\ node' # Absent
       /\ node'.taints = {t \in node.taints :
            t.key # "karpenter.sh/unregistered" \/ t.effect # "NoExecute"}]_vars

\* A creation request is one that CCE and the kubelet accept: one taint for each
\* key and effect, none that CCE manages, and the unregistered taint, whatever
\* startup taints and taints a NodeClaim has.
RequestIsAcceptable ==
  owed # Absent =>
    /\ \A t, u \in owed : Matches(t, u) => t = u
    /\ \A t \in owed : ~Matches(t, NetworkUnavailable)
    /\ Unregistered \in owed

\* Once others leave the Node alone, a registered Node loses the taint, even if
\* CCE writes it back after the registration ("This controller acts as a
\* reliable second pass to clean it up").
StaleTaintGoes ==
  <>[][\A t \in Others : ~OtherWrites(t)]_vars =>
    [](node # Absent /\ StaleTaint(node) => <>(node = Absent \/ ~StaleTaint(node)))
=============================================================================
