---------------------------- MODULE NodeClassHash ----------------------------
(***************************************************************************)
(* Drift of NodeClaims from their NodeClass: the hash controller           *)
(* (src/pkg/controllers/nodeclass/hash/controller.go), which annotates the *)
(* NodeClass with the hash of its specification and, after an upgrade that *)
(* changes how hashes are computed, brings the NodeClaims to the new       *)
(* version first; CloudProvider.Create, which annotates a NodeClaim with   *)
(* the hash it was launched from; and CloudProvider.IsDrifted, which       *)
(* compares the two annotations.                                           *)
(*                                                                         *)
(* The controller reads through caches that lag and patches without an     *)
(* optimistic lock: only the annotations it changed are written, over      *)
(* whatever is stored by then.  It runs when the cache reports a change of *)
(* the NodeClass and again after an error, not periodically.               *)
(*                                                                         *)
(* Simplifications: one NodeClass that is not deleted; a hash is the pair  *)
(* of the hashing mechanism and the specification (distinct pairs, distinct*)
(* hashes); specifications are numbered and never return to an older one.  *)
(* Subnet drift, which IsDrifted examines when the hashes agree, is left   *)
(* out.  Karpenter's core, which sets and clears the Drifted condition on  *)
(* what IsDrifted says, is external; it does so with an optimistic lock.   *)
(*                                                                         *)
(* What every module has a name for (Init, Next, Spec, the type) is named  *)
(* Drift... here, so that one module of proofs can extend this one and     *)
(* NodeSpecification, the two halves of drift.                             *)
(***************************************************************************)
EXTENDS Naturals

CONSTANTS
  Claim,
  Deployments, \* what this build may find: the hash version of the build
               \* before and the NodeClaims that one launched
  StartSpecs,  \* specifications the NodeClass may have when this build starts
  MaxSpec      \* bound: specifications

CCENodeClassHashVersion == "v3"
Versions == {"", "v2", CCENodeClassHashVersion}

ASSUME DeploymentsAssumption ==
  Deployments \subseteq [version : Versions \ {""}, existing : SUBSET Claim]
ASSUME StartSpecsAssumption == MaxSpec \in Nat /\ StartSpecs \subseteq 1..MaxSpec

VARIABLES
  nodeClass,  \* the stored NodeClass: specification and hash annotations
  seen,       \* the NodeClass in the informer cache
  queued,     \* a request to reconcile the NodeClass is in the workqueue
  step,       \* where the hash controller's reconcile is
  copy,       \* the NodeClass it works on
  listed,     \* the listed NodeClaims still to be updated, as they were read
  failed,     \* a patch of a NodeClaim failed
  claims,     \* the stored NodeClaims
  claimSeen   \* the NodeClaims in the informer cache

controller == <<queued, step, copy, listed, failed>>
driftVars == <<nodeClass, seen, controller, claims, claimSeen>>

HashOf(spec) == [version |-> CCENodeClassHashVersion, spec |-> spec]
NoHash == [version |-> "", spec |-> 0]

NodeClass == [spec : 1..MaxSpec, hash : [version : Versions, spec : 0..MaxSpec], version : Versions]

\* The name of a NodeClaim that is gone is not given to another.  Two fields are
\* history: the specification it was built from, and whether it was launched while
\* an update of the NodeClaims was due or under way.
NodeClaim == [phase : {"absent", "launching", "launched", "gone"}, built : 0..MaxSpec,
              hash : [version : Versions, spec : 0..MaxSpec], version : Versions,
              drifted : BOOLEAN, overlap : BOOLEAN]

NoClaim == [phase |-> "absent", built |-> 0, hash |-> NoHash, version |-> "",
            drifted |-> FALSE, overlap |-> FALSE]

Nothing == [c \in {} |-> NoClaim]

DriftTypeOK ==
  /\ nodeClass \in NodeClass /\ seen \in NodeClass /\ copy \in NodeClass
  /\ queued \in BOOLEAN /\ failed \in BOOLEAN
  /\ step \in {"idle", "list", "claims", "annotate"}
  /\ DOMAIN listed \subseteq Claim
  /\ \A c \in DOMAIN listed :
       listed[c] \in NodeClaim /\ listed[c].version # CCENodeClassHashVersion
  /\ claims \in [Claim -> NodeClaim]
  /\ claimSeen \in [Claim -> NodeClaim]

\* What a build of some version left: NodeClaims with annotations of that version,
\* built from this or an earlier specification, those drifted reported so or not yet.
LeftBehind(spec, version) ==
  {[phase |-> "launched", built |-> b, hash |-> [version |-> version, spec |-> b],
    version |-> version, drifted |-> d, overlap |-> FALSE] : b \in 1..spec, d \in BOOLEAN}

DriftInit ==
  /\ \E spec \in StartSpecs, before \in Deployments :
       /\ nodeClass = [spec |-> spec, hash |-> [version |-> before.version, spec |-> spec],
                       version |-> before.version]
       /\ \E left \in [before.existing -> LeftBehind(spec, before.version)] :
            /\ \A c \in before.existing : left[c].drifted => left[c].built # spec
            /\ claims = [c \in Claim |-> IF c \in before.existing THEN left[c] ELSE NoClaim]
  /\ seen = nodeClass
  /\ queued = TRUE
  /\ step = "idle"
  /\ copy = nodeClass
  /\ listed = Nothing
  /\ failed = FALSE
  /\ claimSeen = claims

-----------------------------------------------------------------------------
(* The hash controller *)

\* A reconcile that leaves an annotated NodeClass alone.
StartOncePerVersion ==
  /\ step = "idle" /\ queued
  /\ queued' = FALSE
  /\ copy' = seen
  /\ step' = IF seen.version # CCENodeClassHashVersion THEN "list" ELSE "idle"
  /\ UNCHANGED <<nodeClass, seen, listed, failed, claims, claimSeen>>

\* Reconcile.
Start ==
  /\ step = "idle" /\ queued
  /\ queued' = FALSE
  /\ copy' = seen
  /\ step' = IF seen.version # CCENodeClassHashVersion THEN "list" ELSE "annotate"
  /\ UNCHANGED <<nodeClass, seen, listed, failed, claims, claimSeen>>

\* A list that takes every NodeClaim, of this version or not.
ListAllClaims ==
  /\ step = "list"
  /\ step' = "claims"
  /\ listed' = [c \in {d \in Claim : claimSeen[d].phase \notin {"absent", "gone"}} |-> claimSeen[c]]
  /\ failed' = FALSE
  /\ UNCHANGED <<nodeClass, seen, queued, copy, claims, claimSeen>>

\* updateNodeClaimHash lists the NodeClaims; those of this version need nothing.
ListClaims ==
  /\ step = "list"
  /\ step' = "claims"
  /\ listed' = [c \in {d \in Claim : /\ claimSeen[d].phase \notin {"absent", "gone"}
                                     /\ claimSeen[d].version # CCENodeClassHashVersion}
                  |-> claimSeen[c]]
  /\ failed' = FALSE
  /\ UNCHANGED <<nodeClass, seen, queued, copy, claims, claimSeen>>

\* An update that leaves the hash of the old mechanism in place.
UpdatedVersionOnly(c) == [claims[c] EXCEPT !.version = CCENodeClassHashVersion]

\* The NodeClaim gets the version, and the hash of the copy of the NodeClass
\* unless the copy of the NodeClaim is drifted.
Updated(c) ==
  [claims[c] EXCEPT !.version = CCENodeClassHashVersion,
                    !.hash = IF listed[c].drifted THEN @ ELSE HashOf(copy.spec)]

Listed(S) == [c \in S |-> listed[c]]

\* A NodeClaim that is gone is no failure.
PatchClaim(c) ==
  /\ step = "claims" /\ c \in DOMAIN listed
  /\ listed' = Listed(DOMAIN listed \ {c})
  /\ claims' = IF claims[c].phase = "gone" THEN claims ELSE [claims EXCEPT ![c] = Updated(c)]
  /\ UNCHANGED <<nodeClass, seen, queued, step, copy, failed, claimSeen>>

\* The error is kept while the others are updated.
PatchClaimFails(c) ==
  /\ step = "claims" /\ c \in DOMAIN listed
  /\ listed' = Listed(DOMAIN listed \ {c})
  /\ failed' = TRUE
  /\ UNCHANGED <<nodeClass, seen, queued, step, copy, claims, claimSeen>>

\* A controller that does not let a failed NodeClaim hold up the NodeClass.
ClaimsDoneDespiteFailures ==
  /\ step = "claims" /\ DOMAIN listed = {}
  /\ step' = "annotate"
  /\ queued' = queued
  /\ UNCHANGED <<nodeClass, seen, copy, listed, failed, claims, claimSeen>>

\* A failure of any of them ends the reconcile before the NodeClass is annotated.
ClaimsDone ==
  /\ step = "claims" /\ DOMAIN listed = {}
  /\ step' = IF failed THEN "idle" ELSE "annotate"
  /\ queued' = (queued \/ failed)
  /\ UNCHANGED <<nodeClass, seen, copy, listed, failed, claims, claimSeen>>

\* The hash of the copy is written over the stored annotations; the
\* specification may have been edited since.
Annotate ==
  /\ step = "annotate"
  /\ nodeClass' = IF copy.hash = HashOf(copy.spec) /\ copy.version = CCENodeClassHashVersion
                  THEN nodeClass
                  ELSE [nodeClass EXCEPT !.hash = HashOf(copy.spec), !.version = CCENodeClassHashVersion]
  /\ step' = "idle"
  /\ UNCHANGED <<seen, queued, copy, listed, failed, claims, claimSeen>>

\* The List or the patch of the NodeClass fails; the request is retried.
ReconcileFails ==
  /\ step \in {"list", "annotate"}
  /\ step' = "idle"
  /\ queued' = TRUE
  /\ UNCHANGED <<nodeClass, seen, copy, listed, failed, claims, claimSeen>>

-----------------------------------------------------------------------------
(* Drift *)

\* areStaticFieldsDrifted: hashes are compared when both are there and of the
\* same version.
AreStaticFieldsDrifted(claim, class) ==
  /\ claim.version # "" /\ class.version # ""
  /\ claim.version = class.version
  /\ claim.hash # class.hash

\* The core asks IsDrifted about a launched NodeClaim and records the answer; the
\* patch fails if the NodeClaim changed since it was read.
CheckDrift(c) ==
  /\ claims[c].phase = "launched"
  /\ claimSeen[c] = claims[c]
  /\ claims' = [claims EXCEPT ![c].drifted = AreStaticFieldsDrifted(claimSeen[c], seen)]
  /\ UNCHANGED <<nodeClass, seen, controller, claimSeen>>

-----------------------------------------------------------------------------
(* Launches *)

\* As far as the controller has come and the cache shows, the NodeClaims are to be
\* brought to this version.
Updating == seen.version # CCENodeClassHashVersion \/ step \in {"list", "claims"}

\* Create resolves the NodeClass: its specification is what the node is built from.
CreateBegins(c) ==
  /\ claims[c].phase = "absent"
  /\ claims' = [claims EXCEPT ![c] = [NoClaim EXCEPT !.phase = "launching", !.built = seen.spec,
                                                    !.overlap = Updating]]
  /\ UNCHANGED <<nodeClass, seen, controller, claimSeen>>

\* Create returns with the hash of the NodeClass it resolved at its start.
CreateEnds(c) ==
  /\ claims[c].phase = "launching"
  /\ claims' = [claims EXCEPT ![c].phase = "launched",
                              ![c].hash = HashOf(claims[c].built),
                              ![c].version = CCENodeClassHashVersion]
  /\ UNCHANGED <<nodeClass, seen, controller, claimSeen>>

ClaimTerminated(c) ==
  /\ claims[c].phase = "launched"
  /\ claims' = [claims EXCEPT ![c] = [NoClaim EXCEPT !.phase = "gone"]]
  /\ UNCHANGED <<nodeClass, seen, controller, claimSeen>>

-----------------------------------------------------------------------------
(* Users, informers and restarts *)

EditNodeClass ==
  /\ nodeClass.spec < MaxSpec
  /\ nodeClass' = [nodeClass EXCEPT !.spec = @ + 1]
  /\ UNCHANGED <<seen, controller, claims, claimSeen>>

NodeClassObserved ==
  /\ seen # nodeClass
  /\ seen' = nodeClass
  /\ queued' = TRUE
  /\ UNCHANGED <<nodeClass, step, copy, listed, failed, claims, claimSeen>>

ClaimObserved(c) ==
  /\ claimSeen[c] # claims[c]
  /\ claimSeen' = [claimSeen EXCEPT ![c] = claims[c]]
  /\ UNCHANGED <<nodeClass, seen, controller, claims>>

\* The process restarts at any point: a reconcile under way is lost, a launch
\* starts over, the caches are filled and every NodeClass is queued.
Restart ==
  /\ claims' = [c \in Claim |-> IF claims[c].phase = "launching" THEN NoClaim ELSE claims[c]]
  /\ claimSeen' = claims'
  /\ seen' = nodeClass
  /\ queued' = TRUE
  /\ step' = "idle"
  /\ copy' = nodeClass
  /\ listed' = Nothing
  /\ failed' = FALSE
  /\ UNCHANGED nodeClass

-----------------------------------------------------------------------------

DriftNext ==
  \/ Start \/ ListClaims \/ ClaimsDone \/ Annotate \/ ReconcileFails
  \/ EditNodeClass \/ NodeClassObserved \/ Restart
  \/ \E c \in Claim :
       \/ PatchClaim(c) \/ PatchClaimFails(c) \/ CheckDrift(c)
       \/ CreateBegins(c) \/ CreateEnds(c) \/ ClaimTerminated(c) \/ ClaimObserved(c)

DriftSpec == DriftInit /\ [][DriftNext]_driftVars

\* The workers run, the informers catch up, and a call that is tried again and
\* again, however many failures and restarts come between, succeeds.
Fairness ==
  /\ WF_driftVars(Start)
  /\ SF_driftVars(ListClaims) /\ SF_driftVars(ClaimsDone) /\ SF_driftVars(Annotate)
  /\ WF_driftVars(NodeClassObserved)
  /\ \A c \in Claim :
       /\ SF_driftVars(PatchClaim(c))
       /\ SF_driftVars(CheckDrift(c))
       /\ SF_driftVars(CreateEnds(c))
       /\ WF_driftVars(ClaimObserved(c))

FairSpec == DriftSpec /\ Fairness

-----------------------------------------------------------------------------
(* Properties *)

\* The NodeClaim c is found to be drifted while the annotation and the cache of the
\* NodeClass are up to date.
FoundDrifted(c) ==
  /\ claims'[c].drifted /\ ~claims[c].drifted
  /\ seen = nodeClass /\ nodeClass.hash = HashOf(nodeClass.spec)

\* While the annotation and the cache of the NodeClass are up to date, no
\* NodeClaim is found to be drifted but those launched from another specification,
\* in operation and after an upgrade, whichever hashes the update has rewritten: it
\* gives a NodeClaim the hash of a specification it was not built from only if that
\* is no longer the stored one.  The NodeClaims that are launched during the update
\* are excepted.
DriftFoundIsReal ==
  [][\A c \in Claim :
       FoundDrifted(c) /\ ~claims[c].overlap => claims[c].built # nodeClass.spec]_driftVars

\* What the comment of IsDrifted says, of every NodeClaim.  The code does not keep
\* this for one that is launched during the update after an upgrade: the update
\* works from what it listed, and writes its hash over the one that Create gave.
EveryDriftFoundIsReal ==
  [][\A c \in Claim : FoundDrifted(c) => claims[c].built # nodeClass.spec]_driftVars

\* The update after an upgrade leaves a NodeClaim that is reported as drifted
\* with a hash that keeps it so.
DriftedKeepsHash ==
  \A c \in Claim : claims[c].drifted => claims[c].hash.spec = claims[c].built

\* Unless this build changed the hash version, once edits stop exactly the
\* NodeClaims launched from an older specification are reported as drifted, and
\* stay so.
DriftConverges ==
  nodeClass.version = CCENodeClassHashVersion =>
  <>[](\A c \in Claim : claims[c].phase = "launched" =>
         (claims[c].drifted <=> claims[c].built # nodeClass.spec))

\* After an upgrade, whatever failed or restarted in between, the NodeClass and
\* every launched NodeClaim are brought to the new version: none is left behind
\* with a version that exempts it from drift for good.
UpgradeCompletes ==
  <>[](/\ nodeClass.version = CCENodeClassHashVersion
       /\ \A c \in Claim : claims[c].phase = "launched" =>
                             claims[c].version = CCENodeClassHashVersion)

=============================================================================
