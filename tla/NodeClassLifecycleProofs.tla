---------------------- MODULE NodeClassLifecycleProofs ----------------------
(***************************************************************************)
(* A NodeClass outlives its nodes, for any number of NodeClaims, edits and *)
(* recreations.                                                            *)
(*                                                                         *)
(* The argument compares three copies of the object: the one stored, the   *)
(* one the cache shows and the one a finalize works on.  Each is no older  *)
(* than the next (Later), so a finalize that holds the stored version saw  *)
(* a deletion that the cache shows too: from its reading of the NodeClaims *)
(* on, no launch begins.                                                   *)
(***************************************************************************)
EXTENDS NodeClassLifecycle, TLAPS

\* a was read from the API server no earlier than b.
Later(a, b) ==
  \/ a.uid > b.uid
  \/ a.uid = b.uid /\ (b.deleting => a.deleting)

\* The finalizer comes before the status.
FinalizerFirst(o) == o.exists /\ o.subnets # {} => o.finalizer

\* A cached object that is protected and not deleting is still stored.
CachedIsStored ==
  seen.finalizer /\ ~seen.deleting => api.uid = seen.uid /\ api.exists /\ api.finalizer

Finalizing == step \in {"listClaims", "removeFinalizer"}
Underway(c) == claims[c] \in {"launching", "launched"}

IInv ==
  /\ TypeOK
  /\ api.finalizer => api.exists
  /\ Later(api, seen)
  /\ CachedIsStored
  /\ FinalizerFirst(api) /\ FinalizerFirst(seen)
  /\ step \in {"listSubnets", "patchStatus"} => copy.finalizer
  /\ step = "patchStatus" => found = Selected[copy.generation]
  /\ Finalizing => copy.deleting /\ Later(seen, copy)
  /\ \A c \in Claim : Underway(c) => c \in claimSeen /\ api.exists /\ api.finalizer
  /\ step = "removeFinalizer" => api.uid > copy.uid \/ \A c \in Claim : ~Underway(c)

\* The initial states satisfy the invariant.
LEMMA InitInv == Init => IInv
<1>1. Fresh(1) \in NodeClass
  BY BoundsAssumption DEF Fresh, NodeClass
<1> QED
  BY <1>1 DEF Init, IInv, TypeOK, Later, CachedIsStored, FinalizerFirst, Finalizing, Underway,
     Fresh, Steps, Phases

\* A cached NodeClass that is ready is stored, protected by its finalizer.
LEMMA ReadyIsProtected == IInv /\ Ready => api.exists /\ api.finalizer /\ ~seen.deleting
BY DEF IInv, Ready, CachedIsStored, FinalizerFirst

\* The steps of a reconcile preserve the invariant.
LEMMA ReconcileInv == ASSUME IInv, Reconcile PROVE IInv'
<1> USE DEF IInv, TypeOK, Later, CachedIsStored, FinalizerFirst, Finalizing, Underway
<1>t. api.uid \in Nat /\ seen.uid \in Nat /\ copy.uid \in Nat
  BY BoundsAssumption DEF NodeClass
<1>1. CASE Start
  BY <1>1, <1>t DEF Start, Steps, nodes
<1>2. CASE AddFinalizer
  <2>1. api' \in NodeClass /\ copy' \in NodeClass
    BY ZenonT(30), <1>2 DEF AddFinalizer, NodeClass
  <2>2. /\ api'.uid = api.uid /\ api'.deleting = api.deleting /\ api'.exists = api.exists
        /\ api'.subnets = api.subnets /\ (api.finalizer => api'.finalizer)
        /\ step' = "listSubnets" => copy'.finalizer
        /\ api'.exists /\ api'.deleting => api'.finalizer
        /\ api'.finalizer => api'.exists
    BY <1>2 DEF AddFinalizer, SameVersion, NodeClass
  <2>3. step' \in {"idle", "listSubnets"} /\ UNCHANGED <<seen, found, claims, claimSeen, node, drifted>>
    BY <1>2 DEF AddFinalizer, nodes
  <2> QED BY <2>1, <2>2, <2>3, <1>t DEF Steps
<1>3. CASE ListSubnets
  <2>1. Selected[copy.generation] \subseteq Subnet
    BY SelectedAssumption DEF NodeClass
  <2> QED BY <1>3, <2>1, <1>t DEF ListSubnets, Steps, nodes
<1>4. CASE PatchStatus
  <2>1. api' \in NodeClass
    BY <1>4 DEF PatchStatus, NodeClass
  <2>2. /\ api'.uid = api.uid /\ api'.deleting = api.deleting /\ api'.exists = api.exists
        /\ api'.finalizer = api.finalizer
        /\ api' = api \/ api'.finalizer
    BY <1>4 DEF PatchStatus, SameVersion, NodeClass
  <2>3. step' = "idle" /\ found' = {} /\ UNCHANGED <<seen, copy, claims, claimSeen, node, drifted>>
    BY <1>4 DEF PatchStatus, nodes
  <2> QED BY <2>1, <2>2, <2>3, <1>t DEF Steps
<1>5. CASE ListClaims
  BY <1>5, <1>t DEF ListClaims, Steps, nodes
<1>6. CASE RemoveFinalizer
  <2>0. step = "removeFinalizer" /\ step' = "idle" /\ UNCHANGED <<seen, copy, found, claims, claimSeen, node, drifted>>
    BY <1>6 DEF RemoveFinalizer, nodes
  <2>1. CASE ~SameVersion
    BY <1>6, <2>0, <2>1, <1>t DEF RemoveFinalizer, Steps
  <2>2. CASE SameVersion
    <3>1. /\ api' \in NodeClass /\ ~api'.exists /\ ~api'.finalizer
          /\ api'.uid = api.uid /\ api'.deleting = api.deleting
      BY <1>6, <2>2 DEF RemoveFinalizer, NodeClass
    <3>2. seen.uid = api.uid /\ seen.deleting
      BY <2>0, <2>2, <1>t DEF SameVersion
    <3>3. \A c \in Claim : ~Underway(c)
      BY <2>0, <2>2, <1>t DEF SameVersion
    <3> QED BY <2>0, <3>1, <3>2, <3>3, <1>t DEF Steps
  <2> QED BY <2>1, <2>2
<1>7. CASE ReconcileFails
  BY <1>7, <1>t DEF ReconcileFails, Steps, nodes
<1> QED
  BY <1>1, <1>2, <1>3, <1>4, <1>5, <1>6, <1>7 DEF Reconcile

\* The steps of users and of the informers, and a restart, preserve the invariant.
LEMMA EnvironmentInv ==
  ASSUME IInv,
         \/ EditSpec \/ DeleteNodeClass \/ RecreateNodeClass
         \/ NodeClassObserved \/ Restart
         \/ \E c \in Claim : ClaimObserved(c) \/ ClaimRemovalObserved(c)
  PROVE  IInv'
<1> USE DEF IInv, TypeOK, Later, CachedIsStored, FinalizerFirst, Finalizing, Underway
<1>t. api.uid \in Nat /\ seen.uid \in Nat /\ copy.uid \in Nat /\ api.generation \in 1..MaxGen
  BY BoundsAssumption DEF NodeClass
<1>1. CASE EditSpec
  <2>1. api' = [api EXCEPT !.generation = api.generation + 1] /\ api.generation + 1 \in 1..MaxGen
    BY <1>1, <1>t, BoundsAssumption DEF EditSpec
  <2>2. /\ api' \in NodeClass
        /\ api'.uid = api.uid /\ api'.exists = api.exists /\ api'.deleting = api.deleting
        /\ api'.finalizer = api.finalizer /\ api'.subnets = api.subnets
    BY <2>1 DEF NodeClass
  <2>3. UNCHANGED <<seen, step, copy, found, claims, claimSeen, node, drifted>>
    BY <1>1 DEF EditSpec, controller, nodes
  <2> QED BY <2>2, <2>3, <1>t
<1>2. CASE DeleteNodeClass
  <2>1. /\ api' \in NodeClass /\ UNCHANGED <<seen, step, copy, found, claims, claimSeen, node, drifted>>
        /\ api'.uid = api.uid /\ api'.finalizer = api.finalizer /\ api'.subnets = api.subnets
        /\ IF api.finalizer THEN api'.deleting /\ api'.exists = api.exists
           ELSE api'.deleting = api.deleting /\ ~api'.exists
    BY <1>2 DEF DeleteNodeClass, NodeClass, controller, nodes
  <2>2. ~api.finalizer => \A c \in Claim : ~Underway(c)
    OBVIOUS
  <2> QED BY <2>1, <2>2, <1>t
<1>3. CASE RecreateNodeClass
  <2>1. /\ ~api.exists /\ api' = Fresh(api.uid + 1)
        /\ UNCHANGED <<seen, step, copy, found, claims, claimSeen, node, drifted>>
        /\ api.uid + 1 \in 1..MaxUid
    BY <1>3, <1>t, BoundsAssumption DEF RecreateNodeClass, controller, nodes
  <2>2. /\ api' \in NodeClass /\ api'.uid = api.uid + 1 /\ api'.exists
        /\ ~api'.deleting /\ api'.subnets = {}
    BY <2>1, BoundsAssumption DEF Fresh, NodeClass
  <2>3. \A c \in Claim : ~Underway(c)
    BY <2>1
  <2>4. ~(seen.finalizer /\ ~seen.deleting)
    BY <2>1
  <2> QED BY <2>1, <2>2, <2>3, <2>4, <1>t
<1>4. CASE NodeClassObserved
  BY <1>4, <1>t DEF NodeClassObserved, controller, nodes
<1>5. CASE Restart
  <2>1. \A c \in Claim : claims'[c] = IF claims[c] = "launching" THEN "created" ELSE claims[c]
    BY <1>5 DEF Restart
  <2>2. claims' \in [Claim -> Phases]
    BY <1>5 DEF Restart, Phases
  <2>3. \A c \in Claim : Underway(c)' => Underway(c) /\ c \in claimSeen'
    BY <1>5, <2>1 DEF Restart
  <2>4. /\ api' = api /\ seen' = api /\ step' = "idle" /\ copy' = api /\ found' = {}
        /\ claimSeen' \subseteq Claim /\ drifted' = drifted
        /\ node' \in [Claim -> Subnet \cup {NoSubnet}]
    BY <1>5 DEF Restart
  <2> QED BY <2>2, <2>3, <2>4, <1>t DEF Steps
<1>6. ASSUME NEW c \in Claim, ClaimObserved(c) \/ ClaimRemovalObserved(c) PROVE IInv'
  BY <1>6, <1>t DEF ClaimObserved, ClaimRemovalObserved, controller, nodes
<1> QED
  BY <1>1, <1>2, <1>3, <1>4, <1>5, <1>6

\* The steps of a NodeClaim preserve the invariant: while a finalize has read
\* that there is no NodeClaim, the cache shows the deletion and Create refuses.
LEMMA ClaimInv ==
  ASSUME IInv, NEW c \in Claim,
         \/ ClaimCreated(c) \/ CreateBegins(c) \/ CreateEnds(c)
         \/ CheckDrift(c) \/ ClaimTerminated(c)
  PROVE  IInv'
<1>0. UNCHANGED <<api, seen, step, copy, found, claimSeen>>
  BY DEF ClaimCreated, CreateBegins, CreateEnds, CheckDrift, ClaimTerminated, controller
<1>1. claims' \in [Claim -> Phases]
  BY DEF ClaimCreated, CreateBegins, CreateEnds, CheckDrift, ClaimTerminated, IInv, TypeOK, Phases
<1>n. node' \in [Claim -> Subnet \cup {NoSubnet}] /\ drifted' \subseteq Claim
  <2>1. seen.subnets \subseteq Subnet
    BY DEF IInv, TypeOK, NodeClass
  <2> QED
    BY <2>1 DEF ClaimCreated, CreateBegins, CreateEnds, CheckDrift, ClaimTerminated, nodes,
       IInv, TypeOK
<1>2. \A d \in Claim : d # c => claims'[d] = claims[d]
  BY DEF ClaimCreated, CreateBegins, CreateEnds, CheckDrift, ClaimTerminated, IInv, TypeOK
<1>3. Underway(c)' => Underway(c) \/ (c \in claimSeen /\ Ready)
  BY DEF ClaimCreated, CreateBegins, CreateEnds, CheckDrift, ClaimTerminated, IInv, TypeOK, Underway
<1>4. \A d \in Claim : Underway(d)' => d \in claimSeen /\ api.exists /\ api.finalizer
  BY <1>2, <1>3, ReadyIsProtected DEF IInv, Underway
<1>5. ASSUME step = "removeFinalizer", ~(api.uid > copy.uid)
      PROVE  \A d \in Claim : ~Underway(d)'
  <2>1. api.uid \in Nat /\ seen.uid \in Nat /\ copy.uid \in Nat
    BY BoundsAssumption DEF IInv, TypeOK, NodeClass
  <2>2. seen.deleting
    BY <1>5, <2>1 DEF IInv, Later, Finalizing
  <2>3. \A d \in Claim : ~Underway(d)
    BY <1>5 DEF IInv
  <2>4. ~Ready
    BY <2>2 DEF Ready
  <2> QED BY <1>2, <1>3, <2>3, <2>4 DEF Underway
<1> QED
  BY <1>0, <1>1, <1>n, <1>4, <1>5
  DEF IInv, TypeOK, Later, CachedIsStored, FinalizerFirst, Finalizing, Underway

\* The invariant holds in every reachable state.
THEOREM Invariance == Spec => []IInv
<1>1. ASSUME IInv, [Next]_vars PROVE IInv'
  <2>1. CASE Next
    BY <1>1, <2>1, ReconcileInv, EnvironmentInv, ClaimInv DEF Next
  <2>2. CASE UNCHANGED vars
    BY <1>1, <2>2 DEF vars, controller, nodes, IInv, TypeOK, Later, CachedIsStored, FinalizerFirst,
       Finalizing, Underway
  <2> QED BY <1>1, <2>1, <2>2
<1> QED
  BY InitInv, <1>1, PTL DEF Spec

\* Every reachable state has the declared types, and an object being deleted is
\* stored only while the finalizer holds it.
THEOREM TypeCorrect == Spec => []TypeOK
<1>1. IInv => TypeOK
  BY DEF IInv
<1> QED BY Invariance, <1>1, PTL

\* finalize never removes a NodeClass from under a node that is being launched or
\* runs with it, however far the caches lag and wherever the controllers restart.
THEOREM NodeClassProtected == Spec => []NodeClassOutlivesNodes
<1>1. IInv => NodeClassOutlivesNodes
  BY DEF IInv, Underway, NodeClassOutlivesNodes
<1> QED BY Invariance, <1>1, PTL

\* No reconcile overwrites the status with the subnets of a specification that
\* was edited after it was read: the optimistic lock refuses that patch.
THEOREM StatusIsCurrent == Spec => StatusPatchIsCurrent
<1> DEFINE Current ==
      api'.uid = api.uid /\ api'.subnets # api.subnets => api'.subnets = Selected[api.generation]
<1>1. ASSUME IInv, [Next]_vars PROVE [Current]_vars
  <2>1. ASSUME PatchStatus PROVE Current
    BY <1>1, <2>1 DEF PatchStatus, SameVersion, IInv, TypeOK, NodeClass
  <2>2. ASSUME RecreateNodeClass PROVE api'.uid # api.uid
    <3>1. api.uid \in Nat
      BY <1>1, BoundsAssumption DEF IInv, TypeOK, NodeClass
    <3> QED BY <2>2, <3>1 DEF RecreateNodeClass, Fresh
  <2>3. ASSUME \/ AddFinalizer \/ RemoveFinalizer \/ EditSpec \/ DeleteNodeClass
        PROVE  api'.subnets = api.subnets
    BY <1>1, <2>3 DEF AddFinalizer, RemoveFinalizer, EditSpec, DeleteNodeClass,
       IInv, TypeOK, NodeClass
  <2>4. ASSUME \/ Start \/ ListSubnets \/ ListClaims \/ ReconcileFails
               \/ NodeClassObserved \/ Restart
               \/ \E c \in Claim :
                    \/ ClaimObserved(c) \/ ClaimRemovalObserved(c)
                    \/ ClaimCreated(c) \/ CreateBegins(c) \/ CreateEnds(c)
                    \/ CheckDrift(c) \/ ClaimTerminated(c)
        PROVE  UNCHANGED api
    BY <2>4 DEF Start, ListSubnets, ListClaims, ReconcileFails, NodeClassObserved, Restart,
       ClaimObserved, ClaimRemovalObserved, ClaimCreated, CreateBegins, CreateEnds, CheckDrift,
       ClaimTerminated
  <2>5. CASE UNCHANGED vars
    BY <2>5 DEF vars
  <2> QED BY <1>1, <2>1, <2>2, <2>3, <2>4, <2>5 DEF Next, Reconcile
<1> QED
  BY Invariance, <1>1, PTL DEF StatusPatchIsCurrent, Spec
=============================================================================
