-------------------------- MODULE NodeTermination --------------------------
(***************************************************************************)
(* How NodeClaims and the nodes of the cloud come to an end together:      *)
(* CloudProvider.Create, Delete, Get and List                              *)
(* (src/pkg/cloudprovider/cloudprovider.go) on the instance provider's     *)
(* calls of the same names (src/pkg/providers/instance/instance.go), and   *)
(* Karpenter's core, which calls them: its lifecycle controller launches a *)
(* NodeClaim, remembers the provider ID of its node, and lets a deleted    *)
(* NodeClaim go once the provider says that the node is not found; its     *)
(* garbage collector deletes the NodeClaims whose nodes List does not      *)
(* show.                                                                   *)
(*                                                                         *)
(* The cloud acts on a call before its answer is handled, and the answer   *)
(* may be lost; the process may end between any two steps.  Node IDs are   *)
(* never reused.  What goes on inside of Create is InstanceProvider's.     *)
(***************************************************************************)
EXTENDS Naturals

CONSTANTS
  Claim,     \* NodeClaims
  NodeId,    \* IDs of the nodes that may be created for them
  Foreign,   \* IDs of the cluster's other nodes
  None       \* no ID

ASSUME IdAssumption == NodeId \cap Foreign = {} /\ None \notin NodeId \cup Foreign

\* The HTTP status of an error; NoStatus if it is no response of the service.
NoStatus == 0
Statuses == {404, 409, 500, NoStatus}

VARIABLES
  cloud,       \* the state of each node
  providerID,  \* Status.ProviderID of each NodeClaim
  deleting,    \* NodeClaims with a deletion timestamp
  gone,        \* NodeClaims whose finalizer was removed
  pc,          \* where the lifecycle controller is with each NodeClaim
  reply,       \* the node a launch was told of
  gcStep,      \* where the garbage collector is
  gcClaims,    \* the launched NodeClaims it read
  gcListed,    \* the provider IDs that List told it
  collected    \* history: NodeClaims it deleted

claims == <<providerID, deleting, gone>>
calls == <<pc, reply>>
gc == <<gcStep, gcClaims, gcListed, collected>>
vars == <<cloud, claims, calls, gc>>

TypeOK ==
  /\ cloud \in [NodeId \cup Foreign -> {"free", "running", "deleting", "gone"}]
  /\ providerID \in [Claim -> NodeId \cup {None}]
  /\ deleting \subseteq Claim /\ gone \subseteq deleting /\ collected \subseteq deleting
  /\ pc \in [Claim -> {"idle", "creating", "created", "notFound", "waiting"}]
  /\ reply \in [Claim -> NodeId \cup {None}]
  /\ \A c \in Claim :
       /\ pc[c] = "created" => reply[c] # None
       /\ pc[c] \in {"notFound", "waiting"} => c \in deleting /\ providerID[c] # None
  /\ gcStep \in {"idle", "list", "collect"}
  /\ gcClaims \subseteq Claim
  /\ gcListed \subseteq NodeId \cup Foreign

Init ==
  /\ cloud = [n \in NodeId \cup Foreign |-> IF n \in Foreign THEN "running" ELSE "free"]
  /\ providerID = [c \in Claim |-> None] /\ deleting = {} /\ gone = {}
  /\ pc = [c \in Claim |-> "idle"] /\ reply = [c \in Claim |-> None]
  /\ gcStep = "idle" /\ gcClaims = {} /\ gcListed = {} /\ collected = {}

Exists(n) == n # None /\ cloud[n] \in {"running", "deleting"}

-----------------------------------------------------------------------------
(* Launch *)

Launch(c) ==
  /\ pc[c] = "idle" /\ c \notin deleting /\ providerID[c] = None
  /\ pc' = [pc EXCEPT ![c] = "creating"]
  /\ UNCHANGED <<cloud, claims, reply, gc>>

\* The cloud creates a node, and Create returns its ID.
NodeCreated(c) ==
  /\ pc[c] = "creating"
  /\ \E n \in NodeId :
       /\ cloud[n] = "free"
       /\ cloud' = [cloud EXCEPT ![n] = "running"]
       /\ reply' = [reply EXCEPT ![c] = n]
  /\ pc' = [pc EXCEPT ![c] = "created"]
  /\ UNCHANGED <<claims, gc>>

\* Create returns an error: no node was created, or the answer was lost or did
\* not name the node.
CreateFails(c) ==
  /\ pc[c] = "creating"
  /\ \/ UNCHANGED cloud
     \/ \E n \in NodeId : cloud[n] = "free" /\ cloud' = [cloud EXCEPT ![n] = "running"]
  /\ pc' = [pc EXCEPT ![c] = "idle"]
  /\ UNCHANGED <<claims, reply, gc>>

\* The core stores what Create returned.
LaunchStored(c) ==
  /\ pc[c] = "created"
  /\ providerID' = [providerID EXCEPT ![c] = reply[c]]
  /\ reply' = [reply EXCEPT ![c] = None]
  /\ pc' = [pc EXCEPT ![c] = "idle"]
  /\ UNCHANGED <<cloud, deleting, gone, gc>>

-----------------------------------------------------------------------------
(* Termination *)

\* The status the cloud may answer a call for node n with, other than success:
\* 404 only if there is no such node.
MayAnswer(n, status) == status = 404 => ~Exists(n)

\* Every response of the service that is an error.
IsServiceError(status) == status # NoStatus

\* An error nobody recognises.
IsUnknown(status) == FALSE

\* isNotFoundError.
IsNotFound(status) == status = 404

\* The errors that Delete and Get return: NodeClaimNotFound, which the core waits
\* for, or another, after which it calls again.
Outcome(status) == IF IsNotFound(status) THEN "notFound" ELSE "waiting"

\* Calls the cloud for every NodeClaim.
EveryDeleting(c) == pc[c] \in {"idle", "waiting"} /\ c \in deleting \ gone

\* Without a provider ID Delete returns before it calls the cloud.
Terminating(c) == pc[c] \in {"idle", "waiting"} /\ c \in deleting \ gone /\ providerID[c] # None

\* Delete: the cloud accepts the call, and the answer may be lost, or refuses it.
Delete(c) ==
  /\ Terminating(c)
  /\ \/ /\ Exists(providerID[c])
        /\ cloud' = [cloud EXCEPT ![providerID[c]] = "deleting"]
        /\ pc' = [pc EXCEPT ![c] = "waiting"]
     \/ \E status \in Statuses :
          /\ MayAnswer(providerID[c], status)
          /\ pc' = [pc EXCEPT ![c] = Outcome(status)]
          /\ UNCHANGED cloud
  /\ UNCHANGED <<claims, reply, gc>>

\* Get: the node is shown, or there is an error.
Get(c) ==
  /\ Terminating(c)
  /\ \/ Exists(providerID[c]) /\ pc' = [pc EXCEPT ![c] = "waiting"]
     \/ \E status \in Statuses :
          /\ MayAnswer(providerID[c], status)
          /\ pc' = [pc EXCEPT ![c] = Outcome(status)]
  /\ UNCHANGED <<cloud, claims, reply, gc>>

\* The core removes the finalizer of a NodeClaim whose node is not found, or that
\* has none that it knows of.
FinalizerRemoved(c) ==
  /\ c \in deleting \ gone
  /\ \/ pc[c] = "notFound"
     \/ pc[c] = "idle" /\ providerID[c] = None
  /\ gone' = gone \cup {c}
  /\ pc' = [pc EXCEPT ![c] = "idle"]
  /\ UNCHANGED <<cloud, providerID, deleting, reply, gc>>

-----------------------------------------------------------------------------
(* Garbage collection *)

\* Shows only the nodes that nobody is deleting.
ListRunning == {n \in NodeId \cup Foreign : cloud[n] = "running"}

\* CloudProvider.List: the nodes of the cluster.
List == {n \in NodeId \cup Foreign : Exists(n)}

GCReads ==
  /\ gcStep = "idle"
  /\ gcStep' = "list"
  /\ gcClaims' = {c \in Claim \ deleting : providerID[c] # None}
  /\ UNCHANGED <<cloud, claims, calls, gcListed, collected>>

GCLists ==
  /\ gcStep = "list"
  /\ gcStep' = "collect" /\ gcListed' = List
  /\ UNCHANGED <<cloud, claims, calls, gcClaims, collected>>

GCEnds ==
  /\ gcStep # "idle"
  /\ gcStep' = "idle" /\ gcClaims' = {} /\ gcListed' = {}
  /\ UNCHANGED <<cloud, claims, calls, collected>>

GCDeletes(c) ==
  /\ gcStep = "collect" /\ c \in gcClaims \ deleting
  /\ providerID[c] \notin gcListed
  /\ deleting' = deleting \cup {c} /\ collected' = collected \cup {c}
  /\ UNCHANGED <<cloud, providerID, gone, calls, gcStep, gcClaims, gcListed>>

-----------------------------------------------------------------------------
(* Users, the cloud, restarts *)

\* A user, or a controller of the core, deletes a NodeClaim.
ClaimDeleted(c) ==
  /\ c \notin deleting
  /\ deleting' = deleting \cup {c}
  /\ UNCHANGED <<cloud, providerID, gone, calls, gc>>

\* Somebody else deletes a node.
NodeDeleted(n) ==
  /\ cloud[n] = "running"
  /\ cloud' = [cloud EXCEPT ![n] = "deleting"]
  /\ UNCHANGED <<claims, calls, gc>>

NodeRemoved(n) ==
  /\ cloud[n] = "deleting"
  /\ cloud' = [cloud EXCEPT ![n] = "gone"]
  /\ UNCHANGED <<claims, calls, gc>>

Restart ==
  /\ pc' = [c \in Claim |-> "idle"] /\ reply' = [c \in Claim |-> None]
  /\ gcStep' = "idle" /\ gcClaims' = {} /\ gcListed' = {}
  /\ UNCHANGED <<cloud, claims, collected>>

Next ==
  \/ \E c \in Claim :
       \/ Launch(c) \/ NodeCreated(c) \/ CreateFails(c) \/ LaunchStored(c)
       \/ Delete(c) \/ Get(c) \/ FinalizerRemoved(c)
       \/ GCDeletes(c) \/ ClaimDeleted(c)
  \/ GCReads \/ GCLists \/ GCEnds
  \/ \E n \in NodeId \cup Foreign : NodeDeleted(n) \/ NodeRemoved(n)
  \/ Restart

Spec == Init /\ [][Next]_vars

\* The core goes on with a NodeClaim as long as it exists; calls and steps may
\* fail or be cut any number of times, but not always; the cloud removes what it
\* deletes.
Fairness ==
  /\ \A c \in Claim :
       /\ WF_vars(NodeCreated(c) \/ CreateFails(c)) /\ WF_vars(LaunchStored(c))
       /\ SF_vars(Delete(c) /\ \E n \in NodeId : cloud'[n] # cloud[n])
       /\ SF_vars((Delete(c) \/ Get(c)) /\ ~Exists(providerID[c]) /\ pc'[c] = Outcome(404))
       /\ SF_vars(FinalizerRemoved(c))
  /\ \A n \in NodeId : WF_vars(NodeRemoved(n))

FairSpec == Spec /\ Fairness

-----------------------------------------------------------------------------
(* Properties *)

\* A NodeClaim that knows its node does not go before the node does, whatever
\* errors the calls return: nothing would delete the node afterwards.
NoNodeLeftBehind ==
  \A c \in gone : providerID[c] # None => ~Exists(providerID[c])

\* The garbage collector deletes a NodeClaim only if its node has gone, although
\* the two lists it compares are read at different times and nodes come and go.
CollectedForCause ==
  \A c \in collected : ~Exists(providerID[c])

\* A deleted NodeClaim goes, even if its node went first or answers were lost.
DeletionCompletes == \A c \in Claim : c \in deleting ~> c \in gone
=============================================================================
