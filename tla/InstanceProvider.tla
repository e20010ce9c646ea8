-------------------------- MODULE InstanceProvider --------------------------
(***************************************************************************)
(* Launching a node: CloudProvider.Create                                  *)
(* (src/pkg/cloudprovider/cloudprovider.go) and, inside it, Create of the  *)
(* instance provider (src/pkg/providers/instance/instance.go), run by one  *)
(* goroutine per NodeClaim.  The goroutines share the subnet provider      *)
(* (here through SubnetContract), the cache of temporarily unavailable     *)
(* offerings and the cloud.                                                *)
(*                                                                         *)
(* A call reads the NodeClass, reserves addresses, filters the candidate   *)
(* offerings against the cache once, and then tries them from the cheapest *)
(* on until the cloud accepts one.  Between two steps of a call any other  *)
(* call may mark an offering and any mark may expire.                      *)
(*                                                                         *)
(* Simplifications: the node specification sent to the cloud is left out,  *)
(* and so is the error of nodeSpecForCandidate, whose only cause, the      *)
(* kubelet configuration, Create has validated on the same object; the     *)
(* cache reads of one filter pass are one step.  A call that the core      *)
(* retries is the same Call, begun again.                                  *)
(***************************************************************************)
EXTENDS Naturals, FiniteSets

CONSTANTS
  Call,        \* NodeClaims whose creation is reconciled concurrently
  Subnet, MaxPods, Absent,
  Type,        \* instance types, numbered in the order of their names
  Zone,        \* availability zones, numbered in the order of their names
  Price,       \* Price[t]: on-demand price of instance type t
  Claims,      \* sets of offerings a NodeClaim's requirements may allow
  NoOffering

ASSUME OrderAssumption == Type \subseteq Nat /\ Zone \subseteq Nat /\ Price \in [Type -> Nat]

Offering == [type : Type, zone : Zone]

ASSUME ClaimsAssumption == Claims \subseteq SUBSET Offering
ASSUME NoOfferingAssumption == NoOffering \notin Offering
ASSUME PodsAssumption == MaxPods \in Nat /\ Absent \notin Subnet

VARIABLES
  pc,           \* where the call is
  claim,        \* the offerings compatible with its NodeClaim
  todo,         \* candidates its loop has still to try
  current,      \* the candidate of its CreateNode request
  reply,        \* the cloud's answer to that request
  result,       \* the answer of the call, once it has one
  held,         \* the subnet reservation
  unavailable,  \* the offering availability cache
  created,      \* history: offerings the cloud made nodes of for this call
  refused       \* history: offerings refused to a call while their mark lasts

local == <<pc, claim, todo, current, reply, result>>
vars == <<local, held, unavailable, created, refused>>

SP == INSTANCE SubnetContract

Plain(kind) == [kind |-> kind, offering |-> NoOffering]

Kinds == {"none", "launched", "insufficientCapacity", "nodeClassNotReady", "createError"}

\* What the response to a CreateNode request is to the code.
Replies == {"created", "createdWithoutUid", "insufficient", "network", "failed"}

TypeOK ==
  /\ pc \in [Call -> {"idle", "resolve", "filter", "create", "sent", "answered", "returning"}]
  /\ claim \in [Call -> SUBSET Offering]
  /\ todo \in [Call -> SUBSET Offering]
  /\ current \in [Call -> Offering \cup {NoOffering}]
  /\ reply \in [Call -> Replies \cup {"none"}]
  /\ result \in [Call -> [kind : Kinds, offering : Offering \cup {NoOffering}]]
  /\ held \in [Call -> [subnet : Subnet \cup {Absent}, ips : 0..MaxPods]]
  /\ unavailable \subseteq Offering
  /\ created \in [Call -> SUBSET Offering]
  /\ refused \in [Call -> SUBSET Offering]

Init ==
  /\ pc = [c \in Call |-> "idle"]
  /\ claim = [c \in Call |-> {}]
  /\ todo = [c \in Call |-> {}]
  /\ current = [c \in Call |-> NoOffering]
  /\ reply = [c \in Call |-> "none"]
  /\ result = [c \in Call |-> Plain("none")]
  /\ SP!Init
  /\ unavailable = {}
  /\ created = [c \in Call |-> {}]
  /\ refused = [c \in Call |-> {}]

-----------------------------------------------------------------------------
(* CloudProvider.Create up to the reservation *)

\* The core asks for a node for NodeClaim c, the first time or again.
Begin(c) ==
  /\ pc[c] = "idle"
  /\ pc' = [pc EXCEPT ![c] = "resolve"]
  /\ \E offerings \in Claims : claim' = [claim EXCEPT ![c] = offerings]
  /\ result' = [result EXCEPT ![c] = Plain("none")]
  /\ created' = [created EXCEPT ![c] = {}]
  /\ UNCHANGED <<todo, current, reply, held, unavailable, refused>>

\* The call has its answer r; only the deferred release is left.
Return(c, r) ==
  /\ pc' = [pc EXCEPT ![c] = "returning"]
  /\ result' = [result EXCEPT ![c] = r]

\* A missing or terminating NodeClass, or one whose SubnetsReady is not true or
\* whose status has no subnet, is not ready; an invalid specification, an API
\* error or unresolved instance types are a create error.
Reject(c) ==
  /\ pc[c] = "resolve"
  /\ \E kind \in {"nodeClassNotReady", "createError"} : Return(c, Plain(kind))
  /\ UNCHANGED <<claim, todo, current, reply, held, unavailable, created, refused>>

NoCompatibleTypes(c) ==
  /\ pc[c] = "resolve"
  /\ claim[c] = {}
  /\ Return(c, Plain("insufficientCapacity"))
  /\ UNCHANGED <<claim, todo, current, reply, held, unavailable, created, refused>>

SelectSubnet(c) ==
  /\ pc[c] = "resolve"
  /\ claim[c] # {}
  /\ SP!Reserve(c)
  /\ pc' = [pc EXCEPT ![c] = "filter"]
  /\ UNCHANGED <<claim, todo, current, reply, result, unavailable, created, refused>>

-----------------------------------------------------------------------------
(* The candidates *)

\* Price, then zone, then name.
Before(o, p) ==
  \/ Price[o.type] < Price[p.type]
  \/ Price[o.type] = Price[p.type] /\ o.zone < p.zone
  \/ Price[o.type] = Price[p.type] /\ o.zone = p.zone /\ o.type < p.type

\* buildCreateCandidates and filterUnavailableCandidates: with nothing left
\* the call answers that every compatible offering is temporarily unavailable.
FilterCandidates(c) ==
  /\ pc[c] = "filter"
  /\ todo' = [todo EXCEPT ![c] = claim[c] \ unavailable]
  /\ \/ claim[c] \ unavailable # {} /\ pc' = [pc EXCEPT ![c] = "create"] /\ UNCHANGED result
     \/ claim[c] \ unavailable = {} /\ Return(c, Plain("insufficientCapacity"))
  /\ UNCHANGED <<claim, current, reply, held, unavailable, created, refused>>

\* A loop that forgets which candidate it is at.
CreateNodeUntracked(c) ==
  /\ pc[c] = "create"
  /\ \E o \in todo[c] :
       /\ \A p \in todo[c] \ {o} : Before(o, p)
       /\ todo' = [todo EXCEPT ![c] = @ \ {o}]
  /\ pc' = [pc EXCEPT ![c] = "sent"]
  /\ UNCHANGED <<claim, current, reply, result, held, unavailable, created, refused>>

\* A loop that keeps a candidate it has tried.
CreateNodeKeepsCandidate(c) ==
  /\ pc[c] = "create"
  /\ \E o \in todo[c] :
       /\ \A p \in todo[c] \ {o} : Before(o, p)
       /\ current' = [current EXCEPT ![c] = o]
  /\ pc' = [pc EXCEPT ![c] = "sent"]
  /\ UNCHANGED <<claim, todo, reply, result, held, unavailable, created, refused>>

\* The next candidate of the sorted slice is sent to the cloud.
CreateNode(c) ==
  /\ pc[c] = "create"
  /\ \E o \in todo[c] :
       /\ \A p \in todo[c] \ {o} : Before(o, p)
       /\ todo' = [todo EXCEPT ![c] = @ \ {o}]
       /\ current' = [current EXCEPT ![c] = o]
  /\ pc' = [pc EXCEPT ![c] = "sent"]
  /\ UNCHANGED <<claim, reply, result, held, unavailable, created, refused>>

-----------------------------------------------------------------------------
(* The cloud *)

\* An error is a service response with a code and a message, or it is not one
\* (a timeout, a lost connection); the code and the message are told apart as
\* far as the classifiers do.
Errors == [service : BOOLEAN, code : {"", "flavorInsufficient", "networkUnsupported", "other"},
           message : {"soldOut", "eniNotSupported", "other"}]

\* The message counts only when the response has no code.
IsInsufficientCapacity(e) ==
  e.service /\ (e.code = "flavorInsufficient" \/ (e.code = "" /\ e.message = "soldOut"))

IsUnsupportedNetwork(e) ==
  e.service /\ (e.code = "networkUnsupported" \/ e.message = "eniNotSupported")

\* Takes every error that is no network error for missing capacity.
ClassifyAsCapacity(e) == IF IsUnsupportedNetwork(e) THEN "network" ELSE "insufficient"

Classify(e) ==
  IF IsInsufficientCapacity(e) THEN "insufficient"
  ELSE IF IsUnsupportedNetwork(e) THEN "network" ELSE "failed"

Answered(c, a) ==
  /\ pc[c] = "sent"
  /\ pc' = [pc EXCEPT ![c] = "answered"]
  /\ reply' = [reply EXCEPT ![c] = a]
  /\ UNCHANGED <<claim, todo, current, result, held, unavailable>>

\* The node exists, and the response arrives with or without its uid.
CloudCreates(c) ==
  /\ \E a \in {"created", "createdWithoutUid"} : Answered(c, a)
  /\ created' = [created EXCEPT ![c] = @ \cup {current[c]}]
  /\ UNCHANGED refused

\* The service answers with an error, and has made no node.
CloudRefuses(c) ==
  \E r \in {[class |-> Classify(e), refusal |-> IsInsufficientCapacity(e) \/ IsUnsupportedNetwork(e)] :
             e \in {x \in Errors : x.service}} :
    /\ Answered(c, r.class)
    /\ refused' = IF r.refusal THEN [refused EXCEPT ![c] = @ \cup {current[c]}] ELSE refused
    /\ UNCHANGED created

\* The request or its response is lost: a node may exist or not.
ResponseLost(c) ==
  /\ \E a \in {Classify(e) : e \in {x \in Errors : ~x.service}} : Answered(c, a)
  /\ created' \in {created, [created EXCEPT ![c] = @ \cup {current[c]}]}
  /\ UNCHANGED refused

-----------------------------------------------------------------------------
(* The answer of a CreateNode request *)

NodeCreated(c) ==
  /\ pc[c] = "answered"
  /\ reply[c] = "created"
  /\ Return(c, [kind |-> "launched", offering |-> current[c]])
  /\ UNCHANGED <<claim, todo, current, reply, held, unavailable, created, refused>>

\* Any error that is no refusal, and a response without a uid, end the call.
NodeFailed(c) ==
  /\ pc[c] = "answered"
  /\ reply[c] \in {"createdWithoutUid", "failed"}
  /\ Return(c, Plain("createError"))
  /\ UNCHANGED <<claim, todo, current, reply, held, unavailable, created, refused>>

\* The answer after the last candidate is decided by the last refusal alone
\* (lastUnavailableErr, the reply to that candidate).
ExhaustedKind(err) == IF err = "insufficient" THEN "insufficientCapacity" ELSE "createError"

\* Marks only the offerings that are sold out.
MarkSoldOut(c) == IF reply[c] = "insufficient" THEN unavailable \cup {current[c]} ELSE unavailable

\* MarkUnavailable of the current candidate, for both kinds of refusal.
MarkUnavailable(c) == unavailable \cup {current[c]}

NodeRefused(c) ==
  /\ pc[c] = "answered"
  /\ reply[c] \in {"insufficient", "network"}
  /\ unavailable' = MarkUnavailable(c)
  /\ \/ todo[c] # {} /\ pc' = [pc EXCEPT ![c] = "create"] /\ UNCHANGED result
     \/ todo[c] = {} /\ Return(c, Plain(ExhaustedKind(reply[c])))
  /\ UNCHANGED <<claim, todo, current, reply, held, created, refused>>

\* The deferred ReleaseInflightIPs, on every return path; it does nothing
\* when the call returned before the reservation was made.  The call's local
\* variables are gone.
Finish(c) ==
  /\ pc[c] = "returning"
  /\ SP!Release(c)
  /\ pc' = [pc EXCEPT ![c] = "idle"]
  /\ claim' = [claim EXCEPT ![c] = {}]
  /\ todo' = [todo EXCEPT ![c] = {}]
  /\ current' = [current EXCEPT ![c] = NoOffering]
  /\ reply' = [reply EXCEPT ![c] = "none"]
  /\ UNCHANGED <<result, unavailable, created, refused>>

-----------------------------------------------------------------------------

\* A mark lives UnavailableOfferingTTL; another refusal starts it anew.  A
\* refusal that is still to be handled will make the next mark.
MarkExpires(o) ==
  /\ o \in unavailable
  /\ unavailable' = unavailable \ {o}
  /\ refused' = [c \in Call |-> IF pc[c] = "answered" /\ current[c] = o
                                THEN refused[c] ELSE refused[c] \ {o}]
  /\ UNCHANGED <<local, held, created>>

CallStep(c) ==
  \/ Reject(c) \/ NoCompatibleTypes(c) \/ SelectSubnet(c) \/ FilterCandidates(c)
  \/ CreateNode(c) \/ CloudCreates(c) \/ CloudRefuses(c) \/ ResponseLost(c)
  \/ NodeCreated(c) \/ NodeFailed(c) \/ NodeRefused(c) \/ Finish(c)

Next ==
  \/ \E c \in Call : Begin(c) \/ CallStep(c)
  \/ \E o \in Offering : MarkExpires(o)

Spec == Init /\ [][Next]_vars

\* A started call runs on: the goroutine is scheduled and the SDK's requests
\* time out.  A mark that is not made again expires.  Nothing makes the core
\* start another call.
FairSpec ==
  /\ Spec
  /\ \A c \in Call : WF_vars(CallStep(c))
  /\ \A o \in Offering : WF_vars(MarkExpires(o))

-----------------------------------------------------------------------------
(* Properties *)

\* Create keeps what the core relies on: one node per call at most, success
\* only for that node, and no node behind an answer that makes the core drop
\* the NodeClaim, whatever errors the cloud mixes and whenever a response is
\* lost.  A running call is one that has begun and not finished.
Contract == INSTANCE LaunchContract WITH
  outcome <- [c \in Call |-> IF pc[c] = "idle" THEN result[c] ELSE Plain("running")],
  node <- created

ImplementsContract == Contract!Spec

\* The addresses are reserved for as long as a request for a node may be on its
\* way, and no reservation outlives its call.
ReservationSpansCall ==
  \A c \in Call :
    /\ pc[c] \in {"filter", "create", "sent", "answered"} => held[c].subnet # Absent
    /\ pc[c] \in {"idle", "resolve"} => held[c] = SP!NoReservation

\* A mark is there only because the cloud refused that offering to some call
\* since the last time the mark was absent: a lost response or another failure
\* takes no offering out of scheduling.
OnlyRefusalsMark ==
  \A o \in unavailable : \E c \in Call : o \in refused[c]

\* While an offering stays marked no call is refused it twice, however often
\* the core begins the call again: only requests that were already decided
\* on when the mark was made still reach the cloud.
NoSecondRefusal ==
  \A c \in Call : pc[c] = "sent" => current[c] \notin refused[c]

\* The circumstances in which NodeClaim c can be given a node of offering o: its
\* requirements allow o, the cloud refuses o to no call, and requests for c are
\* answered with a node and its uid or with a refusal.
Obtainable(c, o) ==
  /\ pc[c] # "idle" => o \in claim[c]
  /\ \A d \in Call : current[d] = o => reply[d] \notin {"insufficient", "network"}
  /\ reply[c] \notin {"createdWithoutUid", "failed"}

\* A NodeClaim that the core keeps asking for is launched as soon as one of its
\* offerings stays obtainable: not the refusals of others, tried first, nor marks
\* from when this one was refused, nor a concurrent launch, keep it from its node
\* for good, and every such call comes back to the core.
EventuallyLaunched ==
  \A c \in Call, o \in Offering :
    ([]<>(pc[c] # "idle") /\ <>[]Obtainable(c, o) /\ <>[][~Reject(c)]_vars)
      => []<>(pc[c] = "idle" /\ result[c].kind = "launched")
=============================================================================
