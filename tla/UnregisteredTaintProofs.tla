---------------------- MODULE UnregisteredTaintProofs ----------------------
(***************************************************************************)
(* No Node loses the unregistered taint before it is registered, the       *)
(* controller takes away nothing else, and creation requests are           *)
(* acceptable, for any NodeClaims and any taints of others.                *)
(*                                                                         *)
(* A patch under way was prepared from a copy of a registered Node; it is  *)
(* accepted only if the stored Node is that copy, so registered too.       *)
(***************************************************************************)
EXTENDS UnregisteredTaint, TLAPS

CopyIsStale == step = "patch" => copy # Absent /\ copy.registered = "true"

IInv == TypeOK /\ ProtectedUntilRegistered /\ RequestIsAcceptable /\ CopyIsStale

-----------------------------------------------------------------------------

\* Of two last ones that match, each is the later.
LEMMA LastUnique ==
  ASSUME NEW s \in Seq(Taint)
  PROVE  /\ LastOf(s) \subseteq Taint
         /\ \A t, u \in LastOf(s) : Matches(t, u) => t = u
<1>1. LastOf(s) \subseteq Taint
  BY DEF LastOf
<1>2. ASSUME NEW t \in LastOf(s), NEW u \in LastOf(s), Matches(t, u) PROVE t = u
  <2>1. PICK i \in DOMAIN s : t = s[i] /\ \A k \in DOMAIN s : k > i => ~Matches(s[i], s[k])
    BY DEF LastOf
  <2>2. PICK j \in DOMAIN s : u = s[j] /\ \A k \in DOMAIN s : k > j => ~Matches(s[j], s[k])
    BY DEF LastOf
  <2>3. Matches(s[i], s[j]) /\ Matches(s[j], s[i])
    BY <1>2, <2>1, <2>2 DEF Matches
  <2>4. i \in Nat /\ j \in Nat /\ ~(j > i) /\ ~(i > j)
    BY <2>1, <2>2, <2>3
  <2> QED BY <2>1, <2>2, <2>4
<1> QED BY <1>1, <1>2

\* What is requested for a NodeClaim: taints, the unregistered one among them.
LEMMA RequestType ==
  ASSUME NEW claim \in Claims
  PROVE  ToCCETaints(claim) \in SUBSET Taint /\ Unregistered \in ToCCETaints(claim)
<1>1. Unregistered \in Taint
  BY KeyAssumption, ValueAssumption DEF Unregistered, Taint, Effect
<1>2. claim.startup \o claim.taints \in Seq(Taint)
  BY ClaimsAssumption
<1> QED BY <1>1, <1>2, LastUnique DEF ToCCETaints

\* A request names each key and effect once, and none that CCE manages.
LEMMA RequestAcceptable ==
  ASSUME NEW claim \in Claims
  PROVE  /\ \A t, u \in ToCCETaints(claim) : Matches(t, u) => t = u
         /\ \A t \in ToCCETaints(claim) : ~Matches(t, NetworkUnavailable)
<1> DEFINE last == LastOf(claim.startup \o claim.taints)
<1>1. claim.startup \o claim.taints \in Seq(Taint)
  BY ClaimsAssumption
<1>2. \A t, u \in last : Matches(t, u) => t = u
  BY <1>1, LastUnique
<1>3. \A t \in ToCCETaints(claim) :
        t = Unregistered \/ (t \in last /\ ~Matches(t, Unregistered) /\ ~Matches(t, NetworkUnavailable))
  BY DEF ToCCETaints
<1>4. ~Matches(Unregistered, NetworkUnavailable)
  BY DEF Matches, Unregistered, NetworkUnavailable
<1>5. \A t, u \in ToCCETaints(claim) : Matches(t, u) => t = u
  BY <1>2, <1>3 DEF Matches
<1> QED BY <1>3, <1>4, <1>5

\* A taint that matches is what HasTaint looks for.
LEMMA UnregisteredMatches == Matches(Unregistered, Unregistered)
BY DEF Matches

\* The initial states satisfy the invariant.
LEMMA InitInv == Init => IInv
<1> SUFFICES ASSUME Init PROVE IInv
  OBVIOUS
<1>1. TypeOK
  <2>1. queued \in BOOLEAN
    BY DEF Init
  <2>2. uids \in 0..MaxUid
    BY MaxUidAssumption DEF Init
  <2> QED BY <2>1, <2>2 DEF Init, TypeOK
<1> QED BY <1>1 DEF Init, IInv, ProtectedUntilRegistered, RequestIsAcceptable, CopyIsStale

\* Every step preserves the invariant.
LEMMA StepInv == IInv /\ [Next]_vars => IInv'
<1> SUFFICES ASSUME IInv, [Next]_vars PROVE IInv'
  OBVIOUS
<1>a. TypeOK /\ ProtectedUntilRegistered /\ RequestIsAcceptable /\ CopyIsStale
  BY DEF IInv
<1>1. ASSUME NEW claim \in Claims, Joins(claim) PROVE IInv'
  <2>1. node' \in Node /\ node'.taints = ToCCETaints(claim)
    BY <1>1, <1>a, RequestType DEF Joins, Node, TypeOK
  <2>2. TypeOK'
    BY <1>1, <1>a, <2>1, RequestType, MaxUidAssumption DEF Joins, TypeOK
  <2>3. ProtectedUntilRegistered'
    BY <2>1, RequestType, UnregisteredMatches DEF ProtectedUntilRegistered, HasTaint
  <2>4. CopyIsStale'
    BY <1>1, <1>a DEF Joins, CopyIsStale
  <2>5. RequestIsAcceptable'
    BY <1>1, RequestType, RequestAcceptable DEF Joins, RequestIsAcceptable
  <2> QED BY <2>2, <2>3, <2>4, <2>5 DEF IInv
<1>2. CASE Registers
  <2>1. node \in Node /\ node' = [node EXCEPT !.registered = "true", !.taints = Without(node.taints)]
    BY <1>2, <1>a DEF Registers, TypeOK
  <2>2. node' \in Node /\ node'.registered = "true"
    BY <2>1 DEF Node, Without
  <2> QED
    BY <1>2, <1>a, <2>2 DEF Registers, IInv, TypeOK, ProtectedUntilRegistered,
      RequestIsAcceptable, CopyIsStale
<1>3. CASE CCESyncs
  <2>1. /\ node \in Node /\ owed \in SUBSET Taint
        /\ node' = [node EXCEPT !.taints =
                      owed \cup {t \in node.taints : \A u \in owed : ~Matches(t, u)}]
    BY <1>3, <1>a DEF CCESyncs, TypeOK
  <2>2. node' \in Node /\ node'.registered = node.registered
    BY <2>1 DEF Node
  <2>3. \A t \in node.taints : \E u \in node'.taints : u = t \/ Matches(t, u)
    BY <2>1 DEF Node
  <2>4. HasTaint(node) => HasTaint(node')
    BY <2>3 DEF HasTaint, Matches
  <2>5. ProtectedUntilRegistered'
    BY <1>3, <1>a, <2>2, <2>4 DEF CCESyncs, ProtectedUntilRegistered
  <2> QED
    BY <1>3, <1>a, <2>2, <2>5 DEF CCESyncs, IInv, TypeOK, RequestIsAcceptable, CopyIsStale
<1>4. ASSUME NEW t \in Others, OtherWrites(t) PROVE IInv'
  <2>1. /\ node \in Node
        /\ node' \in {[node EXCEPT !.taints = @ \cup {t}], [node EXCEPT !.taints = @ \ {t}]}
    BY <1>4, <1>a DEF OtherWrites, TypeOK
  <2>2. node' \in Node /\ node'.registered = node.registered
        /\ \A u \in node.taints : u = t \/ u \in node'.taints
    BY <2>1, OthersAssumption DEF Node
  <2>3. HasTaint(node) => HasTaint(node')
    BY <2>2, OthersAssumption DEF HasTaint
  <2>4. ProtectedUntilRegistered'
    BY <1>4, <1>a, <2>2, <2>3 DEF OtherWrites, ProtectedUntilRegistered
  <2> QED
    BY <1>4, <1>a, <2>2, <2>4 DEF OtherWrites, IInv, TypeOK, RequestIsAcceptable, CopyIsStale
<1>5. CASE NodeDeleted
  BY <1>5, <1>a DEF NodeDeleted, IInv, TypeOK, ProtectedUntilRegistered,
      RequestIsAcceptable, CopyIsStale
<1>6. CASE InformerSees
  BY <1>6, <1>a DEF InformerSees, IInv, TypeOK, ProtectedUntilRegistered,
      RequestIsAcceptable, CopyIsStale
<1>7. CASE Reconcile
  BY <1>7, <1>a DEF Reconcile, NeedsPatch, IInv, TypeOK, ProtectedUntilRegistered,
      RequestIsAcceptable, CopyIsStale, StaleTaint
<1>8. CASE Patched
  <2>1. node = copy /\ node \in Node /\ node.registered = "true"
    BY <1>8, <1>a DEF Patched, Accepted, CopyIsStale, TypeOK
  <2>2. node' \in Node /\ node'.registered = "true"
    BY <1>8, <2>1 DEF Patched, Node, Without
  <2> QED
    BY <1>8, <1>a, <2>2 DEF Patched, IInv, TypeOK, ProtectedUntilRegistered,
      RequestIsAcceptable, CopyIsStale
<1>9. CASE PatchFails
  BY <1>9, <1>a DEF PatchFails, Retry, IInv, TypeOK, ProtectedUntilRegistered,
      RequestIsAcceptable, CopyIsStale
<1>10. CASE Restart
  BY <1>10, <1>a DEF Restart, IInv, TypeOK, ProtectedUntilRegistered,
      RequestIsAcceptable, CopyIsStale
<1>11. CASE UNCHANGED vars
  BY <1>11, <1>a DEF vars, IInv, TypeOK, ProtectedUntilRegistered,
      RequestIsAcceptable, CopyIsStale
<1> QED
  BY <1>1, <1>2, <1>3, <1>4, <1>5, <1>6, <1>7, <1>8, <1>9, <1>10, <1>11 DEF Next

\* A step of the controller that changes the Node takes away the stale taint only.
LEMMA StepSurvive ==
  IInv /\ [Next]_vars =>
    [step = "patch" /\ step' = "idle" /\ node' # node =>
       /\ node # Absent /\ node' # Absent
       /\ node'.taints = {t \in node.taints :
            t.key # "karpenter.sh/unregistered" \/ t.effect # "NoExecute"}]_vars
<1> SUFFICES ASSUME IInv, Next, step = "patch", step' = "idle", node' # node
             PROVE  /\ node # Absent /\ node' # Absent
                    /\ node'.taints = {t \in node.taints :
                         t.key # "karpenter.sh/unregistered" \/ t.effect # "NoExecute"}
  BY DEF vars
<1>1. Patched
  BY DEF Next, Joins, Registers, CCESyncs, OtherWrites, NodeDeleted, InformerSees, Reconcile,
         PatchFails, Restart
<1>2. node = copy /\ node # Absent /\ node \in Node
  BY <1>1 DEF Patched, Accepted, IInv, CopyIsStale, TypeOK
<1>3. node' = [node EXCEPT !.taints = Without(node.taints)]
  BY <1>1, <1>2 DEF Patched
<1>4. node' \in Node /\ node'.taints = Without(node.taints)
  BY <1>2, <1>3 DEF Node, Without
<1>5. node' # Absent
  BY <1>4, AbsentAssumption DEF Node
<1> QED BY <1>2, <1>4, <1>5 DEF Without, Matches, Unregistered

-----------------------------------------------------------------------------

\* The invariant holds in every reachable state.
THEOREM Invariance == Spec => []IInv
<1>1. Init => IInv
  BY InitInv
<1>2. IInv /\ [Next]_vars => IInv'
  BY StepInv
<1> QED BY <1>1, <1>2, PTL DEF Spec

\* Variables have their types.
THEOREM TypeCorrect == Spec => []TypeOK
<1>1. IInv => TypeOK
  BY DEF IInv
<1> QED BY <1>1, Invariance, PTL

\* An unregistered Node has the taint.
THEOREM Protected == Spec => []ProtectedUntilRegistered
<1>1. IInv => ProtectedUntilRegistered
  BY DEF IInv
<1> QED BY <1>1, Invariance, PTL

\* The controller takes away the stale taint and no other.
THEOREM Survive == Spec => OtherTaintsSurvive
<1>1. IInv /\ [Next]_vars =>
        [step = "patch" /\ step' = "idle" /\ node' # node =>
           /\ node # Absent /\ node' # Absent
           /\ node'.taints = {t \in node.taints :
                t.key # "karpenter.sh/unregistered" \/ t.effect # "NoExecute"}]_vars
  BY StepSurvive
<1> QED BY <1>1, Invariance, PTL DEF OtherTaintsSurvive, Spec

\* Whatever NodeClaims ask for, the request is acceptable.
THEOREM Acceptable == Spec => []RequestIsAcceptable
<1>1. IInv => RequestIsAcceptable
  BY DEF IInv
<1> QED BY <1>1, Invariance, PTL
=============================================================================
