------------------------- MODULE NodeClassLifecycle -------------------------
(***************************************************************************)
(* The life of one CCENodeClass: the nodeclass controller                  *)
(* (src/pkg/controllers/nodeclass/controller.go and subnet.go), which adds *)
(* the termination finalizer, keeps the discovered subnets in the status   *)
(* and finalizes, against the API server, the informer caches every read   *)
(* goes through, and the NodeClaims that are launched with the NodeClass   *)
(* (the gate at the start of CloudProvider.Create) into one of its subnets *)
(* and are drifted once the status no longer holds it (subnet drift, in    *)
(* src/pkg/cloudprovider/drift.go).                                        *)
(*                                                                         *)
(* Writes are patches with optimistic locking: they carry the resource     *)
(* version of the copy they were computed from.  Here a version is the     *)
(* object itself: a patch succeeds when the object still equals the copy.  *)
(* Reads come from the manager's caches, which lag behind the API server   *)
(* independently for the NodeClass and for each NodeClaim.                 *)
(*                                                                         *)
(* Simplifications: the SubnetsReady condition is written in the same      *)
(* patch as the subnets and is true exactly when there are some, so        *)
(* subnets stands for both; Selected(g) is what the subnet provider lists  *)
(* for generation g (its cache is keyed by UID and generation); the        *)
(* workqueue runs one reconcile of the NodeClass at a time, and, with its  *)
(* watches and its requeue delays, may run one at any moment.  An edit     *)
(* changes the selector only, which the NodeClass hash leaves out, so      *)
(* static drift never answers in place of subnet drift; a drift check      *)
(* that fails changes nothing and is left out.                             *)
(***************************************************************************)
EXTENDS Naturals, FiniteSets

CONSTANTS
  Claim,      \* NodeClaims whose NodePool refers to the NodeClass
  Subnet,
  Selected,   \* Selected[g]: the subnets that match the terms of generation g
  NoSubnet,   \* the node of a NodeClaim that has none
  MaxGen,     \* bound: generations of the specification
  MaxUid      \* bound: times the NodeClass is created under its name

ASSUME BoundsAssumption == MaxGen \in Nat \ {0} /\ MaxUid \in Nat \ {0}
ASSUME NoSubnetAssumption == NoSubnet \notin Subnet
ASSUME SelectedAssumption == Selected \in [1..MaxGen -> SUBSET Subnet]

VARIABLES
  api,        \* the NodeClass stored by the API server
  seen,       \* the NodeClass in the informer cache
  step,       \* where the reconcile of the NodeClass is
  copy,       \* the object it works on: the version its next patch carries
  found,      \* the subnets its status patch writes
  claims,     \* phase of each NodeClaim
  claimSeen,  \* the NodeClaims in the informer cache
  node,       \* the subnet of each NodeClaim's node, once its launch began
  drifted     \* launched NodeClaims with the Drifted condition

controller == <<step, copy, found>>
nodes == <<node, drifted>>
vars == <<api, seen, controller, claims, claimSeen, nodes>>

NodeClass == [uid : 1..MaxUid, exists : BOOLEAN, generation : 1..MaxGen, deleting : BOOLEAN,
              finalizer : BOOLEAN, subnets : SUBSET Subnet]

Fresh(uid) == [uid |-> uid, exists |-> TRUE, generation |-> 1, deleting |-> FALSE,
               finalizer |-> FALSE, subnets |-> {}]

Phases == {"absent", "created", "launching", "launched"}

Steps == {"idle", "addFinalizer", "listSubnets", "patchStatus", "listClaims", "removeFinalizer"}

TypeOK ==
  /\ api \in NodeClass
  /\ api.exists /\ api.deleting => api.finalizer
  /\ seen \in NodeClass
  /\ step \in Steps
  /\ copy \in NodeClass
  /\ found \subseteq Subnet
  /\ claims \in [Claim -> Phases]
  /\ claimSeen \subseteq Claim
  /\ node \in [Claim -> Subnet \cup {NoSubnet}]
  /\ drifted \subseteq Claim

Init ==
  /\ api = Fresh(1)
  /\ seen = Fresh(1)
  /\ step = "idle"
  /\ copy = Fresh(1)
  /\ found = {}
  /\ claims = [c \in Claim |-> "absent"]
  /\ claimSeen = {}
  /\ node = [c \in Claim |-> NoSubnet]
  /\ drifted = {}

-----------------------------------------------------------------------------
(* Reconcile *)

\* A reconcile that never looks at the deletion timestamp.
StartIgnoresDeletion ==
  /\ step = "idle"
  /\ seen.exists
  /\ copy' = seen
  /\ step' = IF seen.finalizer THEN "listSubnets" ELSE "addFinalizer"
  /\ UNCHANGED <<api, seen, found, claims, claimSeen, nodes>>

\* Reconcile gets the NodeClass from the cache and takes one of its paths.
Start ==
  /\ step = "idle"
  /\ seen.exists
  /\ copy' = seen
  /\ step' = IF seen.deleting THEN (IF seen.finalizer THEN "listClaims" ELSE "idle")
             ELSE (IF seen.finalizer THEN "listSubnets" ELSE "addFinalizer")
  /\ UNCHANGED <<api, seen, found, claims, claimSeen, nodes>>

\* An optimistic lock that is not there.
AnyVersion == api.exists

\* The resource version of the patch is still the stored one.
SameVersion == api.exists /\ api = copy

\* The object returned by the patch becomes the working copy.  On a conflict the
\* reconcile is requeued; a NodeClass that is gone is ignored, and the reconcile
\* goes on with the copy it has.
AddFinalizer ==
  /\ step = "addFinalizer"
  /\ \/ /\ SameVersion
        /\ api' = [api EXCEPT !.finalizer = TRUE]
        /\ copy' = api'
        /\ step' = "listSubnets"
     \/ /\ ~api.exists
        /\ step' = "listSubnets"
        /\ copy' = [copy EXCEPT !.finalizer = TRUE]
        /\ UNCHANGED api
     \/ /\ ~SameVersion /\ api.exists
        /\ step' = "idle"
        /\ UNCHANGED <<api, copy>>
  /\ UNCHANGED <<seen, found, claims, claimSeen, nodes>>

\* The subnet reconciler.  An unchanged status is not patched.
ListSubnets ==
  /\ step = "listSubnets"
  /\ IF Selected[copy.generation] # copy.subnets
     THEN found' = Selected[copy.generation] /\ step' = "patchStatus"
     ELSE found' = {} /\ step' = "idle"
  /\ UNCHANGED <<api, seen, copy, claims, claimSeen, nodes>>

\* A conflict is requeued and a NodeClass that is gone ignored.
PatchStatus ==
  /\ step = "patchStatus"
  /\ IF SameVersion THEN api' = [api EXCEPT !.subnets = found] ELSE UNCHANGED api
  /\ step' = "idle"
  /\ found' = {}
  /\ UNCHANGED <<copy, seen, claims, claimSeen, nodes>>

\* Any call of the reconcile fails, or a patch conflicts with one of the hash
\* controller, which changes annotations only: the request is queued again, after
\* a delay.
ReconcileFails ==
  /\ step # "idle"
  /\ step' = "idle"
  /\ found' = {}
  /\ UNCHANGED <<api, seen, copy, claims, claimSeen, nodes>>

-----------------------------------------------------------------------------
(* finalize *)

\* The NodeClaims of the NodeClass are listed from the cache; while there are
\* any, the finalizer stays.
ListClaims ==
  /\ step = "listClaims"
  /\ step' = IF claimSeen = {} THEN "removeFinalizer" ELSE "idle"
  /\ UNCHANGED <<api, seen, copy, found, claims, claimSeen, nodes>>

\* A patch that leaves the object behind.
RemoveFinalizerOnly ==
  /\ step = "removeFinalizer"
  /\ IF SameVersion THEN api' = [api EXCEPT !.finalizer = FALSE] ELSE UNCHANGED api
  /\ step' = "idle"
  /\ UNCHANGED <<seen, copy, found, claims, claimSeen, nodes>>

\* Without finalizers a deleting object is gone.
RemoveFinalizer ==
  /\ step = "removeFinalizer"
  /\ IF SameVersion THEN api' = [api EXCEPT !.finalizer = FALSE, !.exists = FALSE]
     ELSE UNCHANGED api
  /\ step' = "idle"
  /\ UNCHANGED <<seen, copy, found, claims, claimSeen, nodes>>

-----------------------------------------------------------------------------
(* Users and the informers *)

EditSpec ==
  /\ api.exists
  /\ api.generation < MaxGen
  /\ api' = [api EXCEPT !.generation = @ + 1]
  /\ UNCHANGED <<seen, controller, claims, claimSeen, nodes>>

\* An object without finalizers is removed at once.
DeleteNodeClass ==
  /\ api.exists /\ ~api.deleting
  /\ api' = IF api.finalizer THEN [api EXCEPT !.deleting = TRUE] ELSE [api EXCEPT !.exists = FALSE]
  /\ UNCHANGED <<seen, controller, claims, claimSeen, nodes>>

RecreateNodeClass ==
  /\ ~api.exists
  /\ api.uid < MaxUid
  /\ api' = Fresh(api.uid + 1)
  /\ UNCHANGED <<seen, controller, claims, claimSeen, nodes>>

NodeClassObserved ==
  /\ seen # api
  /\ seen' = api
  /\ UNCHANGED <<api, controller, claims, claimSeen, nodes>>

ClaimObserved(c) ==
  /\ claims[c] # "absent" /\ c \notin claimSeen
  /\ claimSeen' = claimSeen \cup {c}
  /\ UNCHANGED <<api, seen, controller, claims, nodes>>

ClaimRemovalObserved(c) ==
  /\ claims[c] = "absent" /\ c \in claimSeen
  /\ claimSeen' = claimSeen \ {c}
  /\ UNCHANGED <<api, seen, controller, claims, nodes>>

\* The controllers' process restarts: its work is lost, its caches are filled
\* before it starts, and a launch that was under way is started over.
Restart ==
  /\ seen' = api
  /\ step' = "idle"
  /\ copy' = api
  /\ found' = {}
  /\ claims' = [c \in Claim |-> IF claims[c] = "launching" THEN "created" ELSE claims[c]]
  /\ claimSeen' = {c \in Claim : claims[c] # "absent"}
  /\ node' = [c \in Claim |-> IF claims[c] = "launching" THEN NoSubnet ELSE node[c]]
  /\ UNCHANGED <<api, drifted>>

-----------------------------------------------------------------------------
(* NodeClaims *)

\* The core creates NodeClaims without asking the NodeClass controller.
ClaimCreated(c) ==
  /\ claims[c] = "absent" /\ c \notin claimSeen
  /\ claims' = [claims EXCEPT ![c] = "created"]
  /\ UNCHANGED <<api, seen, controller, claimSeen, nodes>>

\* A gate that does not look at the deletion timestamp.
ReadyEvenIfDeleting == seen.exists /\ seen.subnets # {}

\* CloudProvider.Create accepts a NodeClass that exists, is not terminating and
\* has ready subnets.
Ready == seen.exists /\ ~seen.deleting /\ seen.subnets # {}

\* Create for a NodeClaim the core has seen: it goes on to the instance
\* provider, which takes a subnet of the status, or answers NodeClassNotReady and
\* the core deletes the NodeClaim.
CreateBegins(c) ==
  /\ c \in claimSeen /\ claims[c] = "created"
  /\ IF Ready
     THEN /\ claims' = [claims EXCEPT ![c] = "launching"]
          /\ \E s \in seen.subnets : node' = [node EXCEPT ![c] = s]
     ELSE /\ claims' = [claims EXCEPT ![c] = "absent"]
          /\ UNCHANGED node
  /\ UNCHANGED <<api, seen, controller, claimSeen, drifted>>

\* A node, an error that is retried, or no capacity, which drops the NodeClaim.
CreateEnds(c) ==
  /\ claims[c] = "launching"
  /\ \E phase \in {"launched", "created", "absent"} :
       /\ claims' = [claims EXCEPT ![c] = phase]
       /\ node' = IF phase = "launched" THEN node ELSE [node EXCEPT ![c] = NoSubnet]
  /\ UNCHANGED <<api, seen, controller, claimSeen, drifted>>

\* A comparison that reports drift at the first subnet that differs.
DiffersFromOne(c) == \E s \in seen.subnets : s # node[c]

\* isSubnetDrifted compares the node's subnet with those of the status.
IsSubnetDrifted(c) == node[c] \notin seen.subnets

\* The core asks IsDrifted and records the answer.  A NodeClass that is gone or
\* being deleted has no drift; without subnets in the status the answer is an
\* error, and the condition stays as it is.
CheckDrift(c) ==
  /\ claims[c] = "launched"
  /\ \/ /\ seen.exists /\ ~seen.deleting /\ seen.subnets # {}
        /\ drifted' = IF IsSubnetDrifted(c) THEN drifted \cup {c} ELSE drifted \ {c}
     \/ /\ ~(seen.exists /\ ~seen.deleting)
        /\ drifted' = drifted \ {c}
  /\ UNCHANGED <<api, seen, controller, claims, claimSeen, node>>

\* The NodeClaim's node is terminated and the NodeClaim removed.
ClaimTerminated(c) ==
  /\ claims[c] = "launched"
  /\ claims' = [claims EXCEPT ![c] = "absent"]
  /\ node' = [node EXCEPT ![c] = NoSubnet]
  /\ drifted' = drifted \ {c}
  /\ UNCHANGED <<api, seen, controller, claimSeen>>

-----------------------------------------------------------------------------

Reconcile ==
  \/ Start \/ AddFinalizer \/ ListSubnets \/ PatchStatus \/ ListClaims \/ RemoveFinalizer
  \/ ReconcileFails

Next ==
  \/ Reconcile
  \/ EditSpec \/ DeleteNodeClass \/ RecreateNodeClass \/ NodeClassObserved \/ Restart
  \/ \E c \in Claim :
       \/ ClaimObserved(c) \/ ClaimRemovalObserved(c)
       \/ ClaimCreated(c) \/ CreateBegins(c) \/ CreateEnds(c) \/ CheckDrift(c)
       \/ ClaimTerminated(c)

Spec == Init /\ [][Next]_vars

\* The controller is requeued after every outcome and woken by its watches, so a
\* reconcile always starts again; calls do not fail for ever, nor does the
\* process restart for ever before they are made; the informers catch up.
Fairness ==
  /\ WF_vars(Start)
  /\ SF_vars(AddFinalizer) /\ SF_vars(ListSubnets) /\ SF_vars(PatchStatus)
  /\ SF_vars(ListClaims) /\ SF_vars(RemoveFinalizer)
  /\ WF_vars(NodeClassObserved)
  /\ \A c \in Claim :
       WF_vars(ClaimObserved(c)) /\ WF_vars(ClaimRemovalObserved(c)) /\ WF_vars(CheckDrift(c))

FairSpec == Spec /\ Fairness

-----------------------------------------------------------------------------
(* Properties *)

\* A NodeClass exists, protected by its finalizer, for as long as a node is
\* being launched or runs with it, although the finalizer is removed on the
\* word of a cache that lags: the finalizer is added before the status that
\* lets a launch begin, and a launch begins only for a NodeClaim the cache
\* holds and with a NodeClass the cache does not show as deleting.
NodeClassOutlivesNodes ==
  \A c \in Claim :
    claims[c] \in {"launching", "launched"} => api.exists /\ api.finalizer

\* The status of a NodeClass is only ever overwritten with the subnets of the
\* generation stored at that moment, never with those of one edited meanwhile.
StatusPatchIsCurrent ==
  [][api'.uid = api.uid /\ api'.subnets # api.subnets => api'.subnets = Selected[api.generation]]_vars

\* Once edits stop, what the selector of a live NodeClass matches takes effect,
\* whatever conflicts, failures and restarts come between: the status becomes and
\* stays the matching subnets, and the nodes reported as drifted are those in
\* other subnets, wherever their launch stood when the selector was edited.
SelectionTakesEffect ==
  <>[](api.exists /\ ~api.deleting =>
         /\ api.subnets = Selected[api.generation]
         /\ api.subnets # {} =>
              \A c \in Claim : claims[c] = "launched" => (c \in drifted <=> node[c] \notin api.subnets))

\* A deletion is never stuck for want of a reconcile: it is pending for ever only
\* if NodeClaims keep coming back.
DeletionCompletes ==
  <>[](\A c \in Claim : claims[c] = "absent") => []<>~(api.exists /\ api.deleting)

=============================================================================
