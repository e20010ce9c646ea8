----------------------- MODULE InstanceProviderProofs -----------------------
(***************************************************************************)
(* Theorems about InstanceProvider, for any number of calls, offerings and *)
(* subnets: type correctness, that a reservation spans its call, that only *)
(* a refusal marks an offering, that none is refused to a call twice, that *)
(* candidates are tried one by one in their order, and that Create keeps   *)
(* LaunchContract.                                                         *)
(*                                                                         *)
(* The contract needs to know at each program point whether the call can   *)
(* have provisioned a node: not before a request was answered without a    *)
(* refusal, and then exactly one, of the current candidate.  That is       *)
(* NodeKnown below; it holds because an error that may hide a node is      *)
(* classified as a failure and ends the loop.                              *)
(***************************************************************************)
EXTENDS InstanceProvider, WellFoundedInduction, TLAPS

\* What a call knows of the nodes the cloud made for it.
NodeKnown ==
  \A c \in Call :
    /\ pc[c] \in {"resolve", "filter", "create", "sent"} => created[c] = {}
    /\ pc[c] = "sent" => current[c] \in Offering
    /\ pc[c] = "answered" =>
         /\ current[c] \in Offering
         /\ reply[c] \in Replies
         /\ reply[c] \in {"created", "createdWithoutUid"} => created[c] = {current[c]}
         /\ reply[c] \in {"insufficient", "network"} => created[c] = {} /\ current[c] \in refused[c]
    /\ pc[c] = "returning" =>
         /\ result[c].kind # "none"
         /\ result[c].kind = "launched" => created[c] = {result[c].offering}
         /\ result[c].kind \in {"insufficientCapacity", "nodeClassNotReady"} => created[c] = {}

IInv == TypeOK /\ ReservationSpansCall /\ OnlyRefusalsMark /\ NodeKnown

-----------------------------------------------------------------------------
(* The invariant, one lemma per group of actions *)

LEMMA InitIInv == Init => IInv
BY NoOfferingAssumption, PodsAssumption
DEF Init, IInv, TypeOK, ReservationSpansCall, OnlyRefusalsMark, NodeKnown, Plain, Kinds,
    SP!Init, SP!NoReservation

\* Up to the candidates no node is asked for.
LEMMA ResolveIInv ==
  ASSUME IInv, NEW c \in Call, Begin(c) \/ Reject(c) \/ NoCompatibleTypes(c)
  PROVE  IInv'
<1> USE NoOfferingAssumption, ClaimsAssumption
    DEF IInv, Plain, Kinds, Return
<1>1. CASE Begin(c)
  <2> USE <1>1 DEF Begin
  <2>1. TypeOK' BY DEF TypeOK
  <2>2. ReservationSpansCall' BY DEF TypeOK, ReservationSpansCall
  <2>3. OnlyRefusalsMark' BY DEF OnlyRefusalsMark
  <2>4. NodeKnown' BY DEF TypeOK, NodeKnown
  <2> QED BY <2>1, <2>2, <2>3, <2>4
<1>2. CASE Reject(c)
  <2> USE <1>2 DEF Reject
  <2>1. TypeOK' BY DEF TypeOK
  <2>2. ReservationSpansCall' BY DEF TypeOK, ReservationSpansCall
  <2>3. OnlyRefusalsMark' BY DEF OnlyRefusalsMark
  <2>4. NodeKnown' BY DEF TypeOK, NodeKnown
  <2> QED BY <2>1, <2>2, <2>3, <2>4
<1>3. CASE NoCompatibleTypes(c)
  <2> USE <1>3 DEF NoCompatibleTypes
  <2>1. TypeOK' BY DEF TypeOK
  <2>2. ReservationSpansCall' BY DEF TypeOK, ReservationSpansCall
  <2>3. OnlyRefusalsMark' BY DEF OnlyRefusalsMark
  <2>4. NodeKnown' BY DEF TypeOK, NodeKnown
  <2> QED BY <2>1, <2>2, <2>3, <2>4
<1> QED
  BY <1>1, <1>2, <1>3

LEMMA SelectIInv ==
  ASSUME IInv, NEW c \in Call, SelectSubnet(c) \/ FilterCandidates(c)
  PROVE  IInv'
<1> USE NoOfferingAssumption, PodsAssumption DEF IInv, Plain, Kinds, Return
<1>1. CASE SelectSubnet(c)
  <2> USE <1>1 DEF SelectSubnet, SP!Reserve
  <2>1. PICK r \in SP!Reservation : held' = [held EXCEPT ![c] = r]
    OBVIOUS
  <2>2. r.subnet \in Subnet /\ r \in [subnet : Subnet \cup {Absent}, ips : 0..MaxPods]
    BY DEF SP!Reservation
  <2>3. TypeOK' BY <2>1, <2>2 DEF TypeOK
  <2>4. ReservationSpansCall' BY <2>1, <2>2 DEF TypeOK, ReservationSpansCall
  <2>5. OnlyRefusalsMark' BY DEF OnlyRefusalsMark
  <2>6. NodeKnown' BY DEF TypeOK, NodeKnown
  <2> QED BY <2>3, <2>4, <2>5, <2>6
<1>2. CASE FilterCandidates(c)
  <2> USE <1>2 DEF FilterCandidates
  <2>1. TypeOK' BY DEF TypeOK
  <2>2. ReservationSpansCall' BY DEF TypeOK, ReservationSpansCall
  <2>3. OnlyRefusalsMark' BY DEF OnlyRefusalsMark
  <2>4. NodeKnown' BY DEF TypeOK, NodeKnown
  <2> QED BY <2>1, <2>2, <2>3, <2>4
<1> QED
  BY <1>1, <1>2

\* One request is under way at a time.
LEMMA RequestIInv ==
  ASSUME IInv, NEW c \in Call,
         CreateNode(c) \/ CloudCreates(c) \/ CloudRefuses(c) \/ ResponseLost(c)
  PROVE  IInv'
<1> USE DEF IInv
<1>1. CASE CreateNode(c)
  <2> USE <1>1 DEF CreateNode
  <2>1. TypeOK' BY DEF TypeOK
  <2>2. ReservationSpansCall' BY DEF TypeOK, ReservationSpansCall
  <2>3. OnlyRefusalsMark' BY DEF OnlyRefusalsMark
  <2>4. NodeKnown' BY DEF TypeOK, NodeKnown
  <2> QED BY <2>1, <2>2, <2>3, <2>4
<1>2. CASE CloudCreates(c)
  <2> USE <1>2 DEF CloudCreates, Answered, Replies
  <2>1. TypeOK' BY DEF TypeOK, NodeKnown
  <2>2. ReservationSpansCall' BY DEF TypeOK, ReservationSpansCall
  <2>3. OnlyRefusalsMark' BY DEF OnlyRefusalsMark
  <2>4. NodeKnown' BY DEF TypeOK, NodeKnown
  <2> QED BY <2>1, <2>2, <2>3, <2>4
<1>3. CASE CloudRefuses(c)
  <2>1. PICK e \in Errors :
          /\ Answered(c, Classify(e))
          /\ refused' = IF IsInsufficientCapacity(e) \/ IsUnsupportedNetwork(e)
                        THEN [refused EXCEPT ![c] = @ \cup {current[c]}] ELSE refused
          /\ UNCHANGED created
    <3>1. PICK r \in {[class |-> Classify(e), refusal |-> IsInsufficientCapacity(e) \/ IsUnsupportedNetwork(e)] :
                        e \in {x \in Errors : x.service}} :
            /\ Answered(c, r.class)
            /\ refused' = IF r.refusal THEN [refused EXCEPT ![c] = @ \cup {current[c]}] ELSE refused
            /\ UNCHANGED created
      BY <1>3 DEF CloudRefuses
    <3>2. PICK e \in Errors :
            r = [class |-> Classify(e), refusal |-> IsInsufficientCapacity(e) \/ IsUnsupportedNetwork(e)]
      BY <3>1
    <3>3. r.class = Classify(e) /\ r.refusal = (IsInsufficientCapacity(e) \/ IsUnsupportedNetwork(e))
      BY <3>2
    <3> QED
      BY <3>1, <3>3
  <2>2. /\ Classify(e) \in {"insufficient", "network", "failed"}
        /\ Classify(e) # "failed" => IsInsufficientCapacity(e) \/ IsUnsupportedNetwork(e)
    BY DEF Classify
  <2>3. \A d \in Call : refused[d] \subseteq refused'[d]
    BY <2>1 DEF TypeOK
  <2>4. TypeOK' BY <2>1, <2>2 DEF TypeOK, NodeKnown, Answered, Replies
  <2>5. ReservationSpansCall' BY <2>1 DEF TypeOK, ReservationSpansCall, Answered
  <2>6. OnlyRefusalsMark' BY <2>1, <2>3 DEF OnlyRefusalsMark, Answered
  <2>7. NodeKnown' BY <2>1, <2>2, <2>3 DEF TypeOK, NodeKnown, Answered, Replies
  <2> QED BY <2>4, <2>5, <2>6, <2>7
<1>4. CASE ResponseLost(c)
  <2>1. PICK e \in Errors : ~e.service /\ Answered(c, Classify(e))
    BY <1>4 DEF ResponseLost
  <2>2. Classify(e) = "failed"
    BY <2>1 DEF Classify, IsInsufficientCapacity, IsUnsupportedNetwork
  <2> USE <1>4, <2>1, <2>2 DEF Answered, ResponseLost, Replies
  <2>3. TypeOK' BY SMTT(20) DEF TypeOK, NodeKnown
  <2>4. ReservationSpansCall' BY DEF TypeOK, ReservationSpansCall
  <2>5. OnlyRefusalsMark' BY DEF OnlyRefusalsMark
  <2>6. NodeKnown' BY DEF TypeOK, NodeKnown
  <2> QED BY <2>3, <2>4, <2>5, <2>6
<1> QED
  BY <1>1, <1>2, <1>3, <1>4

LEMMA AnswerIInv ==
  ASSUME IInv, NEW c \in Call, NodeCreated(c) \/ NodeFailed(c) \/ NodeRefused(c)
  PROVE  IInv'
<1> USE NoOfferingAssumption DEF IInv, Plain, Kinds, Return
<1>1. CASE NodeCreated(c)
  <2> USE <1>1 DEF NodeCreated
  <2>1. TypeOK' BY DEF TypeOK
  <2>2. ReservationSpansCall' BY DEF TypeOK, ReservationSpansCall
  <2>3. OnlyRefusalsMark' BY DEF OnlyRefusalsMark
  <2>4. NodeKnown' BY DEF TypeOK, NodeKnown
  <2> QED BY <2>1, <2>2, <2>3, <2>4
<1>2. CASE NodeFailed(c)
  <2> USE <1>2 DEF NodeFailed
  <2>1. TypeOK' BY DEF TypeOK
  <2>2. ReservationSpansCall' BY DEF TypeOK, ReservationSpansCall
  <2>3. OnlyRefusalsMark' BY DEF OnlyRefusalsMark
  <2>4. NodeKnown' BY DEF TypeOK, NodeKnown
  <2> QED BY <2>1, <2>2, <2>3, <2>4
<1>3. CASE NodeRefused(c)
  <2> USE <1>3 DEF NodeRefused, ExhaustedKind, MarkUnavailable
  <2>1. current[c] \in Offering /\ current[c] \in refused[c] /\ created[c] = {}
    BY DEF NodeKnown
  <2>2. TypeOK'
    <3>1. unavailable' \subseteq Offering
      BY <2>1 DEF TypeOK
    <3>2. pc' \in [Call -> {"idle", "resolve", "filter", "create", "sent", "answered", "returning"}]
      BY DEF TypeOK
    <3>3. result' \in [Call -> [kind : Kinds, offering : Offering \cup {NoOffering}]]
      <4>1. Plain(ExhaustedKind(reply[c])) \in [kind : Kinds, offering : Offering \cup {NoOffering}]
        OBVIOUS
      <4>2. result' = result \/ result' = [result EXCEPT ![c] = Plain(ExhaustedKind(reply[c]))]
        BY DEF NodeRefused
      <4> HIDE DEF Plain, ExhaustedKind, Kinds, NodeRefused
      <4> QED
        BY <4>1, <4>2 DEF TypeOK
    <3> QED
      BY <3>1, <3>2, <3>3 DEF TypeOK
  <2>3. ReservationSpansCall' BY DEF TypeOK, ReservationSpansCall
  <2>4. OnlyRefusalsMark' BY <2>1 DEF OnlyRefusalsMark
  <2>5. NodeKnown' BY <2>1 DEF TypeOK, NodeKnown
  <2> QED BY <2>2, <2>3, <2>4, <2>5
<1> QED
  BY <1>1, <1>2, <1>3

LEMMA FinishIInv ==
  ASSUME IInv, NEW c \in Call, Finish(c)
  PROVE  IInv'
<1> USE NoOfferingAssumption, PodsAssumption DEF IInv, Finish, SP!Release, SP!NoReservation
<1>1. TypeOK' BY DEF TypeOK
<1>2. ReservationSpansCall' BY DEF TypeOK, ReservationSpansCall
<1>3. OnlyRefusalsMark' BY DEF OnlyRefusalsMark
<1>4. NodeKnown' BY DEF TypeOK, NodeKnown
<1> QED
  BY <1>1, <1>2, <1>3, <1>4

\* An expiry forgets the refusals of that offering, except the one a call is
\* about to handle.
LEMMA MarkExpiresIInv ==
  ASSUME IInv, NEW o \in Offering, MarkExpires(o)
  PROVE  IInv'
<1> USE DEF IInv, MarkExpires, local
<1>1. TypeOK' BY DEF TypeOK
<1>2. ReservationSpansCall' BY DEF ReservationSpansCall
<1>3. OnlyRefusalsMark'
  <2>1. \A c \in Call, p \in Offering \ {o} : p \in refused[c] => p \in refused'[c]
    BY DEF TypeOK
  <2> QED
    BY <2>1 DEF OnlyRefusalsMark, TypeOK
<1>4. NodeKnown' BY DEF TypeOK, NodeKnown
<1> QED
  BY <1>1, <1>2, <1>3, <1>4

LEMMA NextIInv == IInv /\ [Next]_vars => IInv'
<1> SUFFICES ASSUME IInv, [Next]_vars PROVE IInv'
  OBVIOUS
<1>1. ASSUME NEW c \in Call, Begin(c) \/ CallStep(c) PROVE IInv'
  BY <1>1, ResolveIInv, SelectIInv, RequestIInv, AnswerIInv, FinishIInv DEF CallStep
<1>2. ASSUME NEW o \in Offering, MarkExpires(o) PROVE IInv'
  BY <1>2, MarkExpiresIInv
<1>3. CASE UNCHANGED vars
  BY <1>3 DEF vars, local, IInv, TypeOK, ReservationSpansCall, OnlyRefusalsMark, NodeKnown
<1> QED
  BY <1>1, <1>2, <1>3 DEF Next

THEOREM Invariance == Spec => []IInv
BY InitIInv, NextIInv, PTL DEF Spec
-----------------------------------------------------------------------------
(* No second refusal *)

\* What a call knows of the refusals it met: each is marked, or about to be; the
\* candidates it has left are not among them, nor is one it has sent.
RefusalsKnown ==
  \A c \in Call :
    /\ \A o \in refused[c] :
         \/ o \in unavailable
         \/ pc[c] = "answered" /\ reply[c] \in {"insufficient", "network"} /\ o = current[c]
    /\ pc[c] \in {"create", "sent", "answered"} => todo[c] \cap refused[c] = {}
    /\ pc[c] \in {"sent", "answered"} => current[c] \notin todo[c]
    /\ pc[c] = "sent" => current[c] \notin refused[c]
    /\ (pc[c] = "answered" /\ reply[c] \notin {"insufficient", "network"}) =>
         current[c] \notin refused[c]

LEMMA InitRefusals == Init => RefusalsKnown
BY DEF Init, RefusalsKnown

\* A request that is answered adds to the refusals at most its own candidate,
\* and that only when it was refused.
LEMMA AnswerRefusals ==
  ASSUME IInv, RefusalsKnown, NEW c \in Call, NEW a, Answered(c, a),
         \/ refused' = refused
         \/ /\ a \in {"insufficient", "network"}
            /\ refused' = [refused EXCEPT ![c] = @ \cup {current[c]}]
  PROVE  RefusalsKnown'
BY DEF IInv, TypeOK, RefusalsKnown, Answered

LEMMA NextRefusals == IInv /\ RefusalsKnown /\ [Next]_vars => RefusalsKnown'
<1> SUFFICES ASSUME IInv, RefusalsKnown, [Next]_vars PROVE RefusalsKnown'
  OBVIOUS
<1>1. ASSUME NEW c \in Call,
             Begin(c) \/ Reject(c) \/ NoCompatibleTypes(c) \/ SelectSubnet(c)
               \/ FilterCandidates(c) \/ NodeCreated(c) \/ NodeFailed(c) \/ Finish(c)
      PROVE  RefusalsKnown'
  BY <1>1 DEF IInv, TypeOK, RefusalsKnown, Begin, Reject, NoCompatibleTypes, SelectSubnet,
              FilterCandidates, NodeCreated, NodeFailed, Finish, Return
<1>2. ASSUME NEW c \in Call, CreateNode(c) PROVE RefusalsKnown'
  BY <1>2 DEF IInv, TypeOK, RefusalsKnown, CreateNode
<1>3. ASSUME NEW c \in Call, NodeRefused(c) PROVE RefusalsKnown'
  BY <1>3 DEF IInv, TypeOK, RefusalsKnown, NodeRefused, MarkUnavailable, Return
<1>4. ASSUME NEW c \in Call, CloudCreates(c) \/ ResponseLost(c) PROVE RefusalsKnown'
  BY <1>4, AnswerRefusals DEF CloudCreates, ResponseLost
<1>5. ASSUME NEW c \in Call, CloudRefuses(c) PROVE RefusalsKnown'
  <2>1. PICK r \in {[class |-> Classify(e), refusal |-> IsInsufficientCapacity(e) \/ IsUnsupportedNetwork(e)] :
                      e \in {x \in Errors : x.service}} :
          /\ Answered(c, r.class)
          /\ refused' = IF r.refusal THEN [refused EXCEPT ![c] = @ \cup {current[c]}] ELSE refused
    BY <1>5 DEF CloudRefuses
  <2>2. PICK e \in Errors :
          r = [class |-> Classify(e), refusal |-> IsInsufficientCapacity(e) \/ IsUnsupportedNetwork(e)]
    BY <2>1
  <2>3. r.class = Classify(e) /\ r.refusal = (IsInsufficientCapacity(e) \/ IsUnsupportedNetwork(e))
    BY <2>2
  <2>4. r.refusal => r.class \in {"insufficient", "network"}
    BY <2>3 DEF Classify
  <2> QED
    BY <2>1, <2>4, AnswerRefusals
<1>6. ASSUME NEW o \in Offering, MarkExpires(o) PROVE RefusalsKnown'
  BY <1>6 DEF IInv, TypeOK, RefusalsKnown, MarkExpires, local
<1>7. CASE UNCHANGED vars
  BY <1>7 DEF vars, local, RefusalsKnown
<1> QED
  BY <1>1, <1>2, <1>3, <1>4, <1>5, <1>6, <1>7 DEF Next, CallStep

\* While an offering stays marked no call is refused it twice.
THEOREM RefusedOnce == Spec => []NoSecondRefusal
<1>1. RefusalsKnown => NoSecondRefusal
  BY DEF RefusalsKnown, NoSecondRefusal
<1> QED
  BY <1>1, InitRefusals, NextRefusals, Invariance, PTL DEF Spec

-----------------------------------------------------------------------------
(* The order of the candidates *)

\* The candidate that a call tries next is one of those it has left, and before
\* all others.
IsNext(c, o) == o \in todo[c] /\ \A p \in todo[c] \ {o} : Before(o, p)

LEMMA LeastNumber ==
  ASSUME NEW T \in SUBSET Nat, T # {}
  PROVE  \E x \in T : \A y \in T : x <= y
<1>1. PICK x \in T : \A y \in T : ~ (<<y, x>> \in OpToRel(<, Nat))
  BY WFMin, NatLessThanWellFounded
<1>2. ASSUME NEW y \in T, y < x PROVE FALSE
  <2>1. <<y, x>> \in Nat \X Nat
    OBVIOUS
  <2>2. <<y, x>>[1] < <<y, x>>[2]
    BY <1>2
  <2>3. <<y, x>> \in OpToRel(<, Nat)
    BY <2>1, <2>2 DEF OpToRel
  <2> QED
    BY <1>1, <2>3
<1> QED
  BY <1>2

\* Any candidates have a first one: of the cheapest, those in the first zone, and
\* of these the one whose type has the first name.
LEMMA FirstExists ==
  ASSUME NEW S \in SUBSET Offering, S # {}
  PROVE  \E o \in S : \A p \in S \ {o} : Before(o, p)
<1> USE OrderAssumption
<1>1. \A o \in S : Price[o.type] \in Nat /\ o.zone \in Nat /\ o.type \in Nat
  BY DEF Offering
<1>2. PICK cheap \in S : \A p \in S : Price[cheap.type] <= Price[p.type]
  <2> DEFINE T == {Price[o.type] : o \in S}
  <2>1. T \in SUBSET Nat /\ T # {}
    BY <1>1
  <2>2. PICK x \in T : \A y \in T : x <= y
    <3> HIDE DEF T
    <3> QED
      BY <2>1, LeastNumber
  <2> QED
    BY <2>2
<1>3. PICK near \in {o \in S : Price[o.type] = Price[cheap.type]} :
        \A p \in {o \in S : Price[o.type] = Price[cheap.type]} : near.zone <= p.zone
  <2> DEFINE T == {o.zone : o \in {q \in S : Price[q.type] = Price[cheap.type]}}
  <2>1. T \in SUBSET Nat /\ T # {}
    BY <1>1
  <2>2. PICK x \in T : \A y \in T : x <= y
    <3> HIDE DEF T
    <3> QED
      BY <2>1, LeastNumber
  <2> QED
    BY <2>2
<1>4. PICK first \in {o \in S : Price[o.type] = Price[cheap.type] /\ o.zone = near.zone} :
        \A p \in {o \in S : Price[o.type] = Price[cheap.type] /\ o.zone = near.zone} :
          first.type <= p.type
  <2> DEFINE T == {o.type : o \in {q \in S : Price[q.type] = Price[cheap.type] /\ q.zone = near.zone}}
  <2>1. T \in SUBSET Nat /\ T # {}
    BY <1>1, <1>3
  <2>2. PICK x \in T : \A y \in T : x <= y
    <3> HIDE DEF T
    <3> QED
      BY <2>1, LeastNumber
  <2> QED
    BY <2>2
<1>5. ASSUME NEW p \in S \ {first} PROVE Before(first, p)
  <2>1. CASE Price[p.type] # Price[cheap.type]
    BY <1>1, <1>2, <1>4, <2>1 DEF Before
  <2>2. CASE Price[p.type] = Price[cheap.type] /\ p.zone # near.zone
    BY <1>1, <1>3, <1>4, <2>2 DEF Before
  <2>3. CASE Price[p.type] = Price[cheap.type] /\ p.zone = near.zone
    <3>1. first.type # p.type
      BY <1>4, <2>3 DEF Offering
    <3> QED
      BY <1>1, <1>4, <2>3, <3>1 DEF Before
  <2> QED
    BY <2>1, <2>2, <2>3
<1> QED
  BY <1>5

LEMMA FirstIsUnique ==
  ASSUME NEW S \in SUBSET Offering, NEW o \in S, NEW p \in S,
         \A q \in S \ {o} : Before(o, q), \A q \in S \ {p} : Before(p, q)
  PROVE  o = p
<1> SUFFICES ASSUME o # p PROVE FALSE
  OBVIOUS
<1>1. Before(o, p) /\ Before(p, o)
  OBVIOUS
<1>2. /\ Price[o.type] \in Nat /\ o.zone \in Nat /\ o.type \in Nat
      /\ Price[p.type] \in Nat /\ p.zone \in Nat /\ p.type \in Nat
  BY OrderAssumption DEF Offering
<1> QED
  BY <1>1, <1>2 DEF Before

\* A call that is to try a candidate has one left, and what it has left comes after
\* the one it tried last.
CandidatesInOrder ==
  \A c \in Call :
    /\ pc[c] = "create" => todo[c] # {}
    /\ pc[c] \in {"idle", "resolve", "filter"} => current[c] = NoOffering
    /\ current[c] # NoOffering => \A p \in todo[c] : Before(current[c], p)

LEMMA InitOrder == Init => CandidatesInOrder
BY DEF Init, CandidatesInOrder

LEMMA NextOrder == IInv /\ CandidatesInOrder /\ [Next]_vars => CandidatesInOrder'
<1> SUFFICES ASSUME IInv, CandidatesInOrder, [Next]_vars PROVE CandidatesInOrder'
  OBVIOUS
<1>1. ASSUME NEW c \in Call, Begin(c) \/ Reject(c) \/ NoCompatibleTypes(c) \/ SelectSubnet(c)
      PROVE  CandidatesInOrder'
  BY <1>1 DEF IInv, TypeOK, CandidatesInOrder, Begin, Reject, NoCompatibleTypes, SelectSubnet,
              Return
<1>2. ASSUME NEW c \in Call, FilterCandidates(c) PROVE CandidatesInOrder'
  BY <1>2 DEF IInv, TypeOK, CandidatesInOrder, FilterCandidates, Return
<1>3. ASSUME NEW c \in Call, CreateNode(c) PROVE CandidatesInOrder'
  BY <1>3 DEF IInv, TypeOK, CandidatesInOrder, CreateNode
<1>4. ASSUME NEW c \in Call, CloudCreates(c) \/ CloudRefuses(c) \/ ResponseLost(c)
      PROVE  CandidatesInOrder'
  <2>1. pc' = [pc EXCEPT ![c] = "answered"] /\ UNCHANGED <<todo, current>>
    BY <1>4 DEF CloudCreates, CloudRefuses, ResponseLost, Answered
  <2> QED
    BY <2>1 DEF IInv, TypeOK, CandidatesInOrder
<1>5. ASSUME NEW c \in Call, NodeCreated(c) \/ NodeFailed(c) \/ NodeRefused(c)
      PROVE  CandidatesInOrder'
  BY <1>5 DEF IInv, TypeOK, CandidatesInOrder, NodeCreated, NodeFailed, NodeRefused, Return
<1>6. ASSUME NEW c \in Call, Finish(c) PROVE CandidatesInOrder'
  BY <1>6 DEF IInv, TypeOK, CandidatesInOrder, Finish
<1>7. ASSUME NEW o \in Offering, MarkExpires(o) PROVE CandidatesInOrder'
  BY <1>7 DEF CandidatesInOrder, MarkExpires, local
<1>8. CASE UNCHANGED vars
  BY <1>8 DEF vars, local, CandidatesInOrder
<1> QED
  BY <1>1, <1>2, <1>3, <1>4, <1>5, <1>6, <1>7, <1>8 DEF Next, CallStep

LEMMA OrderInvariance == Spec => [](IInv /\ CandidatesInOrder)
BY InitOrder, NextOrder, Invariance, PTL DEF Spec

\* Before is an order of the candidates (buildCreateCandidates): whatever offerings
\* a call has left, exactly one of them is tried next, so that no call gets stuck
\* choosing and none has a choice.
THEOREM OneIsNext ==
  Spec => [](\A c \in Call : pc[c] = "create" =>
               \E o \in todo[c] : /\ IsNext(c, o)
                                  /\ \A p \in todo[c] : IsNext(c, p) => p = o)
<1> DEFINE Found == \A c \in Call : pc[c] = "create" =>
                      \E o \in todo[c] : /\ IsNext(c, o)
                                         /\ \A p \in todo[c] : IsNext(c, p) => p = o
<1>1. ASSUME IInv, CandidatesInOrder PROVE Found
  <2> SUFFICES ASSUME NEW c \in Call, pc[c] = "create"
               PROVE  \E o \in todo[c] : IsNext(c, o) /\ \A p \in todo[c] : IsNext(c, p) => p = o
    OBVIOUS
  <2>1. todo[c] \in SUBSET Offering /\ todo[c] # {}
    BY <1>1 DEF IInv, TypeOK, CandidatesInOrder
  <2>2. PICK o \in todo[c] : IsNext(c, o)
    BY <2>1, FirstExists DEF IsNext
  <2>3. \A p \in todo[c] : IsNext(c, p) => p = o
    BY <2>1, <2>2, FirstIsUnique DEF IsNext
  <2> QED
    BY <2>2, <2>3
<1> HIDE DEF Found
<1>2. Spec => []Found
  BY <1>1, OrderInvariance, PTL
<1> QED
  BY <1>2 DEF Found

\* A call never goes back: what it asks for after a refusal comes later in the order
\* of prices, zones and names than what it asked for before, marks or not.
CheapestFirst ==
  [][\A c \in Call : (current[c] # NoOffering /\ pc[c] = "create" /\ pc'[c] = "sent") =>
                       Before(current[c], current'[c])]_vars

THEOREM TriedInOrder == Spec => CheapestFirst
<1>1. ASSUME IInv, CandidatesInOrder, [Next]_vars
      PROVE  [\A c \in Call : (current[c] # NoOffering /\ pc[c] = "create" /\ pc'[c] = "sent") =>
                                Before(current[c], current'[c])]_vars
  <2> SUFFICES ASSUME NEW c \in Call, current[c] # NoOffering, pc[c] = "create", pc'[c] = "sent"
               PROVE  Before(current[c], current'[c])
    OBVIOUS
  <2>1. CASE CreateNode(c)
    BY <1>1, <2>1 DEF IInv, TypeOK, CandidatesInOrder, CreateNode
  <2>2. ASSUME NEW d \in Call \ {c}, CreateNode(d) PROVE FALSE
    BY <1>1, <2>2 DEF IInv, TypeOK, CreateNode
  <2>3. ASSUME NEW d \in Call, NEW s, s # "sent", pc' = [pc EXCEPT ![d] = s] PROVE FALSE
    BY <1>1, <2>3 DEF IInv, TypeOK
  <2>4. ASSUME NEW d \in Call,
               \/ Begin(d) \/ Reject(d) \/ NoCompatibleTypes(d) \/ SelectSubnet(d)
               \/ FilterCandidates(d) \/ NodeCreated(d) \/ NodeFailed(d) \/ NodeRefused(d)
               \/ CloudCreates(d) \/ CloudRefuses(d) \/ ResponseLost(d) \/ Finish(d)
        PROVE  FALSE
    <3>1. \E s \in {"resolve", "returning", "filter", "create", "answered", "idle"} :
            pc' = [pc EXCEPT ![d] = s]
      BY <2>4 DEF Begin, Reject, NoCompatibleTypes, SelectSubnet, FilterCandidates, NodeCreated,
                  NodeFailed, NodeRefused, CloudCreates, CloudRefuses, ResponseLost, Finish,
                  Return, Answered
    <3> QED
      BY <2>3, <3>1
  <2>5. ASSUME NEW o \in Offering, MarkExpires(o) PROVE FALSE
    BY <2>5 DEF MarkExpires, local
  <2>6. CASE UNCHANGED vars
    BY <2>6 DEF vars, local
  <2> QED
    BY <1>1, <2>1, <2>2, <2>4, <2>5, <2>6 DEF Next, CallStep
<1> QED
  BY <1>1, OrderInvariance, PTL DEF Spec, CheapestFirst

-----------------------------------------------------------------------------
(* Create keeps its contract *)

outcome == [c \in Call |-> IF pc[c] = "idle" THEN result[c] ELSE Plain("running")]

\* A step of a call that neither starts nor ends it and makes no node.
LEMMA InnerStep ==
  ASSUME IInv, NEW c \in Call, pc[c] # "idle", NEW p \in {"filter", "create", "sent", "answered", "returning"},
         pc' = [pc EXCEPT ![c] = p], \A d \in Call \ {c} : result'[d] = result[d],
         UNCHANGED created
  PROVE  UNCHANGED <<outcome, created>>
BY DEF IInv, TypeOK, outcome

LEMMA InnerSteps ==
  ASSUME IInv, NEW c \in Call,
         \/ Reject(c) \/ NoCompatibleTypes(c) \/ SelectSubnet(c) \/ FilterCandidates(c)
         \/ CreateNode(c) \/ CloudRefuses(c)
         \/ NodeCreated(c) \/ NodeFailed(c) \/ NodeRefused(c)
  PROVE  UNCHANGED <<outcome, created>>
<1>1. /\ pc[c] # "idle"
      /\ \E p \in {"filter", "create", "sent", "answered", "returning"} : pc' = [pc EXCEPT ![c] = p]
      /\ UNCHANGED created
  BY DEF Reject, NoCompatibleTypes, SelectSubnet, FilterCandidates, CreateNode, CloudRefuses,
         NodeCreated, NodeFailed, NodeRefused, Return, Answered
<1>2. result' = result \/ \E r : result' = [result EXCEPT ![c] = r]
  BY DEF Reject, NoCompatibleTypes, SelectSubnet, FilterCandidates, CreateNode, CloudRefuses,
         NodeCreated, NodeFailed, NodeRefused, Return, Answered
<1>3. \A d \in Call \ {c} : result'[d] = result[d]
  BY <1>2 DEF IInv, TypeOK
<1> QED
  BY <1>1, <1>3, InnerStep

LEMMA BeginRefines ==
  ASSUME IInv, NEW c \in Call, Begin(c)
  PROVE  Contract!Begin(c)
BY DEF IInv, TypeOK, Begin, Contract!Begin, Contract!Plain, Plain, Kinds

LEMMA ProvisionRefines ==
  ASSUME IInv, NEW c \in Call, CloudCreates(c) \/ ResponseLost(c)
  PROVE  UNCHANGED <<outcome, created>> \/ Contract!Provision(c, current[c])
<1>1. pc[c] = "sent" /\ pc' = [pc EXCEPT ![c] = "answered"] /\ UNCHANGED result
  BY DEF CloudCreates, ResponseLost, Answered
<1>2. created[c] = {}
  BY <1>1 DEF IInv, NodeKnown
<1>3. UNCHANGED outcome
  BY <1>1 DEF outcome, IInv, TypeOK
<1>4. created' = created \/ created' = [created EXCEPT ![c] = {current[c]}]
  BY <1>2 DEF CloudCreates, ResponseLost
<1>5. outcome[c].kind = "running"
  BY <1>1 DEF outcome, Plain
<1> QED
  BY <1>2, <1>3, <1>4, <1>5 DEF Contract!Provision, outcome

LEMMA FinishRefines ==
  ASSUME IInv, NEW c \in Call, Finish(c)
  PROVE  Contract!Next
<1>1. pc[c] = "returning" /\ pc' = [pc EXCEPT ![c] = "idle"] /\ UNCHANGED <<result, created>>
  BY DEF Finish
<1>2. result[c] \in [kind : Kinds, offering : Offering \cup {NoOffering}] /\ result[c].kind # "none"
  BY <1>1 DEF IInv, TypeOK, NodeKnown
<1>3. result[c] \in Contract!Outcomes
  BY <1>2 DEF Contract!Outcomes, Contract!Kinds, Kinds
<1>4. /\ result[c].kind = "launched" => created[c] = {result[c].offering}
      /\ result[c].kind \in {"insufficientCapacity", "nodeClassNotReady"} => created[c] = {}
  BY <1>1 DEF IInv, NodeKnown
<1>5. outcome' = [outcome EXCEPT ![c] = result[c]] /\ outcome[c].kind = "running"
  BY <1>1 DEF outcome, IInv, TypeOK, Plain
<1>6. PICK r \in Contract!Outcomes : r = result[c]
  BY <1>3
<1>7. Contract!Answer(c, r)
  BY <1>1, <1>2, <1>4, <1>5, <1>6 DEF Contract!Answer, Contract!Kinds, Kinds, outcome
<1> QED
  BY <1>7 DEF Contract!Next

LEMMA StepRefinement ==
  ASSUME IInv, [Next]_vars
  PROVE  [Contract!Next]_<<outcome, created>>
<1>1. ASSUME NEW c \in Call, Begin(c) PROVE Contract!Next
  BY <1>1, BeginRefines DEF Contract!Next
<1>2. ASSUME NEW c \in Call, CloudCreates(c) \/ ResponseLost(c)
      PROVE  [Contract!Next]_<<outcome, created>>
  <2>1. current[c] \in Offering
    BY <1>2 DEF IInv, NodeKnown, CloudCreates, ResponseLost, Answered
  <2> QED
    BY <1>2, <2>1, ProvisionRefines DEF Contract!Next
<1>3. ASSUME NEW c \in Call, Finish(c) PROVE Contract!Next
  BY <1>3, FinishRefines
<1>4. ASSUME NEW o \in Offering, MarkExpires(o) PROVE UNCHANGED <<outcome, created>>
  BY <1>4 DEF MarkExpires, local, outcome
<1>5. CASE UNCHANGED vars
  BY <1>5 DEF vars, local, outcome
<1> QED
  BY <1>1, <1>2, <1>3, <1>4, <1>5, InnerSteps DEF Next, CallStep

LEMMA InitRefinement == Init => Contract!Init
BY DEF Init, Contract!Init, Contract!Plain, Plain

\* At most one node per call, a success names it, and an answer on which the
\* core drops the NodeClaim hides none.
THEOREM Refinement == Spec => ImplementsContract
<1>1. IInv /\ [Next]_vars => [Contract!Next]_<<outcome, created>>
  BY StepRefinement
<1> QED
  BY <1>1, InitRefinement, Invariance, PTL DEF Spec, ImplementsContract, Contract!Spec, outcome

\* Every address reservation is held while a request may be under way and is
\* given back on every return path.
THEOREM Reservations == Spec => []ReservationSpansCall
BY Invariance, PTL DEF IInv

\* No mark without a refusal by the cloud.
THEOREM Marks == Spec => []OnlyRefusalsMark
BY Invariance, PTL DEF IInv

THEOREM TypeCorrect == Spec => []TypeOK
BY Invariance, PTL DEF IInv
=============================================================================
