------------------------ MODULE SubnetProviderProofs ------------------------
(***************************************************************************)
(* Theorems about SubnetProvider and SubnetAccounting, for every set of    *)
(* subnets, keys, calls and requests.                                      *)
(*                                                                         *)
(* TrackedBelowBaseline is not inductive alone: it needs the type of the   *)
(* counts and that a reservation that holds addresses holds them on a      *)
(* subnet.  That the predicted usage is a natural number is a fact about   *)
(* the smallest and largest element of a bounded set.                      *)
(*                                                                         *)
(* The properties of the accounting are inductive only together with       *)
(* this invariant and with what makes their sums meaningful: the counted   *)
(* calls are finitely many, and each holds addresses.  They rest on lemmas *)
(* about the sum over a finite set: one element can be taken out, whatever *)
(* order the fold takes, and nothing outside of the set matters.           *)
(***************************************************************************)
EXTENDS SubnetAccounting, FiniteSetTheorems, WellFoundedInduction, TLAPS

\* A reservation of addresses names the subnet they were taken from.
ReservationHasSubnet == \A c \in Call : held[c].ips # 0 => held[c].subnet \in Subnet

IInv == TypeOK /\ ReservationHasSubnet /\ TrackedBelowBaseline

-----------------------------------------------------------------------------
(* The predicted usage *)

\* Every nonempty set of naturals has a smallest element.
LEMMA NatHasMin ==
  ASSUME NEW T \in SUBSET Nat, T # {}
  PROVE  \E x \in T : \A y \in T : x <= y
<1>1. PICK x \in T : \A y \in T : ~ (<<y, x>> \in OpToRel(<, Nat))
  BY WFMin, NatLessThanWellFounded
<1>2. ASSUME NEW y \in T, y < x PROVE FALSE
  <2>1. <<y, x>> \in Nat \X Nat
    OBVIOUS
  <2>2. <<y, x>>[1] < <<y, x>>[2]
    BY <1>2
  <2>3. <<y, x>> \in OpToRel(<, Nat)
    BY <2>1, <2>2 DEF OpToRel
  <2> QED
    BY <1>1, <2>3
<1>3. \A y \in T : x <= y
  BY <1>2
<1> QED
  BY <1>3

\* Every nonempty set of naturals below a bound has a largest element.
LEMMA BoundedHasMax ==
  ASSUME NEW n \in Nat, NEW T \in SUBSET (0..n), T # {}
  PROVE  \E x \in T : \A y \in T : y <= x
<1> DEFINE D == {n - x : x \in T}
<1>0. \A t \in T : t \in 0..n
  OBVIOUS
<1>1. D \in SUBSET Nat /\ D # {}
  <2>1. \A x \in T : n - x \in Nat
    BY <1>0
  <2>2. D \subseteq Nat
    BY <2>1
  <2>3. PICK x \in T : TRUE
    OBVIOUS
  <2>4. n - x \in D
    BY <2>3
  <2> QED
    BY <2>2, <2>4
<1>2. PICK d \in D : \A e \in D : d <= e
  BY <1>1, NatHasMin
<1>3. PICK x \in T : d = n - x
  BY <1>2
<1>4. ASSUME NEW y \in T PROVE y <= x
  <2>1. d <= n - y
    BY <1>2
  <2>2. y \in 0..n /\ x \in 0..n
    BY <1>0
  <2> QED
    BY <1>3, <2>1, <2>2
<1> QED
  BY <1>4

\* minPods returns a pod count an instance type may have.
LEMMA MinPodsBounded ==
  ASSUME NEW types \in SUBSET InstanceType, NEW z
  PROVE  MinPods(types, z) \in 0..MaxPods
<1> DEFINE pods == {t.pods : t \in {u \in types : z \in u.available}}
<1>1. MaxPods \in Nat
  BY BoundsAssumption
<1>2. pods \subseteq 0..MaxPods
  BY DEF InstanceType
<1>3. CASE pods = {}
  BY <1>1, <1>3 DEF MinPods
<1>4. CASE pods # {}
  <2>1. \E m \in pods : \A n \in pods : m <= n
    <3>1. pods \in SUBSET Nat
      BY <1>1, <1>2
    <3> HIDE DEF pods
    <3> QED
      BY <1>4, <3>1, NatHasMin
  <2>2. MinPods(types, z) = CHOOSE m \in pods : \A n \in pods : m <= n
    BY <1>4 DEF MinPods
  <2> QED
    BY <1>2, <2>1, <2>2
<1> QED
  BY <1>3, <1>4

\* SelectForLaunch reserves a pod count an instance type may have.
LEMMA PredictedIPsBounded ==
  ASSUME NEW types \in SUBSET InstanceType
  PROVE  PredictedIPs(types) \in 0..MaxPods
<1> DEFINE predicted == {0} \cup {MinPods(types, z) : z \in OfferingZones(types)}
<1>1. MaxPods \in Nat
  BY BoundsAssumption
<1>2. predicted \in SUBSET (0..MaxPods) /\ predicted # {}
  BY <1>1, MinPodsBounded
<1>3. \E m \in predicted : \A n \in predicted : n <= m
  BY <1>1, <1>2, BoundedHasMax
<1>4. PredictedIPs(types) = CHOOSE m \in predicted : \A n \in predicted : n <= m
  BY DEF PredictedIPs
<1> QED
  BY <1>2, <1>3, <1>4

-----------------------------------------------------------------------------
(* The invariant *)

LEMMA InitIInv == Init => IInv
BY AbsentAssumption, BoundsAssumption
DEF Init, IInv, TypeOK, ReservationHasSubnet, TrackedBelowBaseline, NoReservation

LEMMA ListRefreshIInv ==
  ASSUME IInv, NEW k \in Key, ListRefresh(k)
  PROVE  IInv'
<1> USE AbsentAssumption, BoundsAssumption DEF IInv, ListRefresh
<1>1. Matching(k) \subseteq Subnet
  BY DEF Matching
<1>2. TypeOK'
  BY <1>1 DEF TypeOK
<1>3. ReservationHasSubnet'
  BY DEF ReservationHasSubnet
<1>4. TrackedBelowBaseline'
  BY DEF TrackedBelowBaseline, TypeOK
<1> QED
  BY <1>2, <1>3, <1>4

LEMMA SelectForLaunchIInv ==
  ASSUME IInv, NEW c \in Call, NEW r \in Requests, SelectForLaunch(c, r)
  PROVE  IInv'
<1> USE AbsentAssumption, BoundsAssumption DEF IInv
<1> DEFINE n == PredictedIPs(r.types)
<1>1. r \in Request
  BY RequestsAssumption
<1>2. n \in Nat
  BY <1>1, PredictedIPsBounded DEF Request
<1>3. PICK i \in DOMAIN r.status :
        /\ inflightIPs' = [inflightIPs EXCEPT ![r.status[i]] = AfterReserve(r.status[i], n)]
        /\ held' = [held EXCEPT ![c] = [subnet |-> r.status[i], ips |-> n]]
        /\ UNCHANGED <<vpc, cache, availableIPs>>
  BY DEF SelectForLaunch
<1> DEFINE s == r.status[i]
<1>4. s \in Subnet
  BY <1>1, <1>3 DEF Request
<1>5. AfterReserve(s, n) \in Int \cup {Absent}
  BY <1>2, <1>4 DEF AfterReserve, Effective, TypeOK
<1>6. TypeOK'
  BY <1>2, <1>3, <1>4, <1>5 DEF TypeOK
<1>7. ReservationHasSubnet'
  BY <1>3, <1>4 DEF ReservationHasSubnet, TypeOK
<1>8. TrackedBelowBaseline'
  <2>1. AfterReserve(s, n) # Absent /\ availableIPs[s] # Absent => AfterReserve(s, n) < availableIPs[s]
    BY <1>2, <1>4 DEF AfterReserve, Effective, TypeOK, TrackedBelowBaseline
  <2> QED
    BY <1>3, <1>4, <2>1 DEF TypeOK, TrackedBelowBaseline
<1> QED
  BY <1>6, <1>7, <1>8

LEMMA ReleaseInflightIPsIInv ==
  ASSUME IInv, NEW c \in Call, ReleaseInflightIPs(c)
  PROVE  IInv'
<1> USE AbsentAssumption DEF IInv, ReleaseInflightIPs
<1> DEFINE s == held[c].subnet
           a == AfterRelease(s, held[c].ips)
<1>1. s \in Subnet /\ held[c].ips \in Nat
  BY DEF ReservationHasSubnet, TypeOK
<1>2. a \in Int \cup {Absent}
  BY <1>1 DEF AfterRelease, TypeOK
<1>3. a # Absent /\ availableIPs[s] # Absent => a < availableIPs[s]
  BY <1>1 DEF AfterRelease, TypeOK
<1>4. TypeOK'
  BY <1>1, <1>2 DEF TypeOK, NoReservation
<1>5. ReservationHasSubnet'
  BY DEF ReservationHasSubnet, TypeOK, NoReservation
<1>6. TrackedBelowBaseline'
  BY <1>1, <1>3 DEF TypeOK, TrackedBelowBaseline
<1> QED
  BY <1>4, <1>5, <1>6

\* Expiry only removes baselines, and the cloud's count is not read.
LEMMA EnvironmentIInv ==
  ASSUME IInv,
         \/ \E k \in Key : CacheExpires(k)
         \/ \E s \in Subnet : AvailableIPsExpire(s) \/ \E n \in 0..MaxIPs : VPCChanges(s, n)
         \/ UNCHANGED vars
  PROVE  IInv'
<1> USE AbsentAssumption, BoundsAssumption
    DEF IInv, TypeOK, ReservationHasSubnet, TrackedBelowBaseline
<1>1. ASSUME NEW k \in Key, CacheExpires(k) PROVE IInv'
  BY <1>1 DEF CacheExpires
<1>2. ASSUME NEW s \in Subnet, AvailableIPsExpire(s) PROVE IInv'
  BY <1>2 DEF AvailableIPsExpire
<1>3. ASSUME NEW s \in Subnet, NEW n \in 0..MaxIPs, VPCChanges(s, n) PROVE IInv'
  BY <1>3 DEF VPCChanges
<1>4. CASE UNCHANGED vars
  BY <1>4 DEF vars
<1> QED
  BY <1>1, <1>2, <1>3, <1>4

LEMMA NextIInv == IInv /\ [Next]_vars => IInv'
BY ListRefreshIInv, SelectForLaunchIInv, ReleaseInflightIPsIInv, EnvironmentIInv DEF Next

THEOREM Invariance == Spec => []IInv
BY InitIInv, NextIInv, PTL DEF Spec

-----------------------------------------------------------------------------

\* Type correctness: in particular the reservation of a call is never
\* negative and a listed count is never the cache's missing value.
THEOREM TypeCorrect == Spec => []TypeOK
BY Invariance, PTL DEF IInv

\* However selections, releases, refreshes and expiries of any number of calls
\* interleave, a tracked count stays below the cached baseline of its subnet,
\* so no finished set of launches leaves an entry that hides the listed count.
THEOREM TrackingBelowBaseline == Spec => []TrackedBelowBaseline
BY Invariance, PTL DEF IInv

-----------------------------------------------------------------------------
(* Refinement *)

LEMMA StepRefinement ==
  ASSUME IInv, [Next]_vars
  PROVE  [Contract!Next]_held
<1>1. ASSUME NEW c \in Call, NEW r \in Requests, SelectForLaunch(c, r)
      PROVE  Contract!Next
  <2>1. r \in Request
    BY RequestsAssumption
  <2>2. PredictedIPs(r.types) \in 0..MaxPods
    BY <2>1, PredictedIPsBounded DEF Request
  <2>3. PICK i \in DOMAIN r.status :
          held' = [held EXCEPT ![c] = [subnet |-> r.status[i], ips |-> PredictedIPs(r.types)]]
    BY <1>1 DEF SelectForLaunch
  <2>4. r.status[i] \in Subnet
    BY <2>1, <2>3 DEF Request
  <2>5. [subnet |-> r.status[i], ips |-> PredictedIPs(r.types)] \in Contract!Reservation
    BY <2>2, <2>4 DEF Contract!Reservation
  <2>6. Contract!Reserve(c)
    BY <1>1, <2>3, <2>5 DEF Contract!Reserve, SelectForLaunch
  <2> QED
    BY <2>6 DEF Contract!Next
<1>2. ASSUME NEW c \in Call, ReleaseInflightIPs(c)
      PROVE  Contract!Next
  <2>1. Contract!Release(c)
    BY <1>2 DEF ReleaseInflightIPs, Contract!Release, NoReservation, Contract!NoReservation
  <2> QED
    BY <2>1 DEF Contract!Next
<1>3. ASSUME NEW k \in Key, ListRefresh(k) \/ CacheExpires(k)
      PROVE  UNCHANGED held
  BY <1>3 DEF ListRefresh, CacheExpires
<1>4. ASSUME NEW s \in Subnet, AvailableIPsExpire(s) \/ \E n \in 0..MaxIPs : VPCChanges(s, n)
      PROVE  UNCHANGED held
  BY <1>4 DEF AvailableIPsExpire, VPCChanges
<1>5. CASE UNCHANGED vars
  BY <1>5 DEF vars
<1> QED
  BY <1>1, <1>2, <1>3, <1>4, <1>5 DEF Next

\* The provider implements the reservation contract for any number of calls,
\* subnets and instance types.
THEOREM Refinement == Spec => ImplementsContract
<1>1. Init => Contract!Init
  BY DEF Init, Contract!Init, NoReservation, Contract!NoReservation
<1> QED
  BY <1>1, Invariance, StepRefinement, PTL DEF Spec, ImplementsContract, Contract!Spec

-----------------------------------------------------------------------------
(* Sums over finite sets of calls *)

\* IPs folds over the elements of a set in the order in which CHOOSE picks them.
\* The prover cannot use an induction theorem with a predicate for an argument;
\* each lemma takes the smallest cardinality of a counterexample instead.
Pick(s) == CHOOSE c \in s : TRUE
Body(h, f, s) == IF s = {} THEN 0 ELSE h[Pick(s)].ips + f[s \ {Pick(s)}]

IsSum(h, S, f) == f = [s \in SUBSET S |-> Body(h, f, s)]

\* The sum is what a function that obeys the recursion says, if there is one.
LEMMA Unfold == ASSUME NEW h, NEW S PROVE IPs(h, S) = (CHOOSE f : IsSum(h, S, f))[S]
BY DEF IPs, MapThenSumSet, MapThenFoldSet, IsSum, Body, Pick

\* f obeys the recursion on the sets of at most n elements.
SumUpTo(h, S, n, f) ==
  /\ f = [s \in SUBSET S |-> f[s]]
  /\ \A s \in SUBSET S : Cardinality(s) <= n => f[s] = Body(h, f, s)

LEMMA PickSmaller ==
  ASSUME NEW s, IsFiniteSet(s), s # {}
  PROVE  /\ Pick(s) \in s /\ IsFiniteSet(s \ {Pick(s)})
         /\ Cardinality(s) \in Nat /\ Cardinality(s \ {Pick(s)}) = Cardinality(s) - 1
<1>1. Pick(s) \in s
  BY DEF Pick
<1> QED BY <1>1, FS_RemoveElement, FS_CardinalityType

\* There is one: each bound on the size of the sets is one application further.
LEMMA SumExists ==
  ASSUME NEW h, NEW S, IsFiniteSet(S)
  PROVE  \E f : IsSum(h, S, f)
<1>0. \A s \in SUBSET S : IsFiniteSet(s) /\ Cardinality(s) \in Nat /\ Cardinality(s) <= Cardinality(S)
  BY FS_Subset, FS_CardinalityType
<1> DEFINE Bad == {n \in Nat : ~ \E f : SumUpTo(h, S, n, f)}
<1>1. Bad = {}
  <2> SUFFICES ASSUME Bad # {} PROVE FALSE
    OBVIOUS
  <2>1. PICK n \in Bad : \A m \in Bad : n <= m
    <3>1. Bad \in SUBSET Nat
      OBVIOUS
    <3> HIDE DEF Bad
    <3> QED BY <3>1, NatHasMin
  <2>2. CASE n = 0
    <3> DEFINE f == [s \in SUBSET S |-> 0]
    <3>1. ASSUME NEW s \in SUBSET S, Cardinality(s) <= 0 PROVE f[s] = Body(h, f, s)
      <4>1. s = {}
        BY <1>0, <3>1, FS_EmptySet
      <4> QED BY <4>1 DEF Body
    <3>2. SumUpTo(h, S, 0, f)
      <4>1. f = [s \in SUBSET S |-> f[s]]
        OBVIOUS
      <4> HIDE DEF f
      <4> QED BY <3>1, <4>1 DEF SumUpTo
    <3> HIDE DEF f
    <3> QED BY <2>1, <2>2, <3>2
  <2>3. CASE n # 0
    <3>1. n - 1 \in Nat /\ n - 1 \notin Bad
      BY <2>1, <2>3
    <3>2. PICK f : SumUpTo(h, S, n - 1, f)
      BY <3>1
    <3> DEFINE g == [s \in SUBSET S |-> Body(h, f, s)]
    <3>3. ASSUME NEW s \in SUBSET S, Cardinality(s) <= n PROVE g[s] = Body(h, g, s)
      <4>1. CASE s = {}
        BY <4>1 DEF Body
      <4>2. CASE s # {}
        <5> DEFINE t == s \ {Pick(s)}
        <5>1. t \in SUBSET S /\ Cardinality(t) <= n - 1
          BY <1>0, <3>1, <3>3, <4>2, PickSmaller
        <5>2. f[t] = Body(h, f, t)
          BY <3>2, <5>1 DEF SumUpTo
        <5>3. g[t] = f[t]
          BY <5>1, <5>2
        <5> QED BY <4>2, <5>3 DEF Body
      <4> QED BY <4>1, <4>2
    <3>4. SumUpTo(h, S, n, g)
      <4>1. g = [s \in SUBSET S |-> g[s]]
        OBVIOUS
      <4> HIDE DEF g
      <4> QED BY <3>3, <4>1 DEF SumUpTo
    <3> HIDE DEF g
    <3> QED BY <2>1, <3>4
  <2> QED BY <2>2, <2>3
<1>2. PICK f : SumUpTo(h, S, Cardinality(S), f)
  BY <1>1, FS_CardinalityType
<1>3. IsSum(h, S, f)
  <2>1. \A s \in SUBSET S : f[s] = Body(h, f, s)
    BY <1>0, <1>2 DEF SumUpTo
  <2> QED BY <1>2, <2>1 DEF SumUpTo, IsSum
<1> QED BY <1>3

\* Two functions that obey the recursion agree wherever both are defined.
LEMMA SumUnique ==
  ASSUME NEW h, NEW S, IsFiniteSet(S), NEW T \in SUBSET S, NEW f, NEW g,
         IsSum(h, S, f), IsSum(h, T, g)
  PROVE  f[T] = g[T]
<1> DEFINE Bad == {n \in Nat : \E s \in SUBSET T : Cardinality(s) = n /\ f[s] # g[s]}
<1>0. \A s \in SUBSET T : IsFiniteSet(s) /\ Cardinality(s) \in Nat /\ s \in SUBSET S
  BY FS_Subset, FS_CardinalityType
<1>1. \A s \in SUBSET T : f[s] = Body(h, f, s) /\ g[s] = Body(h, g, s)
  BY DEF IsSum
<1>2. Bad = {}
  <2> SUFFICES ASSUME Bad # {} PROVE FALSE
    OBVIOUS
  <2>1. PICK n \in Bad : \A m \in Bad : n <= m
    <3>1. Bad \in SUBSET Nat
      OBVIOUS
    <3> HIDE DEF Bad
    <3> QED BY <3>1, NatHasMin
  <2>2. PICK s \in SUBSET T : Cardinality(s) = n /\ f[s] # g[s]
    BY <2>1
  <2>3. s # {}
    BY <1>1, <2>2 DEF Body
  <2> DEFINE t == s \ {Pick(s)}
  <2>4. t \in SUBSET T /\ Cardinality(t) \in Nat /\ Cardinality(t) < n
    BY <1>0, <2>2, <2>3, PickSmaller
  <2>5. f[t] = g[t]
    BY <2>1, <2>4
  <2> QED BY <1>1, <2>2, <2>3, <2>5 DEF Body
<1>3. Cardinality(T) \notin Bad
  BY <1>2
<1> QED BY <1>0, <1>3

\* The recursion, freed of the set it was started on.
LEMMA SumEquation ==
  ASSUME NEW h, NEW S, IsFiniteSet(S)
  PROVE  IPs(h, S) = IF S = {} THEN 0 ELSE h[Pick(S)].ips + IPs(h, S \ {Pick(S)})
<1> DEFINE f == CHOOSE x : IsSum(h, S, x)
<1>1. IsSum(h, S, f) /\ IPs(h, S) = f[S]
  BY SumExists, Unfold
<1>2. f[S] = Body(h, f, S)
  <2> HIDE DEF f
  <2> QED BY <1>1 DEF IsSum
<1>3. CASE S = {}
  BY <1>1, <1>2, <1>3 DEF Body
<1>4. CASE S # {}
  <2> DEFINE T == S \ {Pick(S)}
             g == CHOOSE x : IsSum(h, T, x)
  <2>1. T \in SUBSET S /\ IsFiniteSet(T)
    BY FS_RemoveElement
  <2>2. IsSum(h, T, g) /\ IPs(h, T) = g[T]
    BY <2>1, SumExists, Unfold
  <2>3. f[T] = g[T]
    <3> HIDE DEF f, g, T
    <3> QED BY <1>1, <2>1, <2>2, SumUnique
  <2> QED BY <1>1, <1>2, <1>4, <2>2, <2>3 DEF Body
<1> QED BY <1>3, <1>4

LEMMA IPsAreNat ==
  ASSUME NEW h, NEW S, IsFiniteSet(S), \A c \in S : h[c].ips \in Nat
  PROVE  IPs(h, S) \in Nat
<1> DEFINE Bad == {n \in Nat : \E s \in SUBSET S : Cardinality(s) = n /\ IPs(h, s) \notin Nat}
<1>0. \A s \in SUBSET S : IsFiniteSet(s) /\ Cardinality(s) \in Nat
  BY FS_Subset, FS_CardinalityType
<1>1. Bad = {}
  <2> SUFFICES ASSUME Bad # {} PROVE FALSE
    OBVIOUS
  <2>1. PICK n \in Bad : \A m \in Bad : n <= m
    <3>1. Bad \in SUBSET Nat
      OBVIOUS
    <3> HIDE DEF Bad
    <3> QED BY <3>1, NatHasMin
  <2>2. PICK s \in SUBSET S : Cardinality(s) = n /\ IPs(h, s) \notin Nat
    BY <2>1
  <2> DEFINE t == s \ {Pick(s)}
  <2>3. s # {} /\ IPs(h, s) = h[Pick(s)].ips + IPs(h, t)
    <3>1. IPs(h, {}) = 0
      BY SumEquation, FS_EmptySet
    <3> QED BY <1>0, <2>2, <3>1, SumEquation
  <2>4. /\ h[Pick(s)].ips \in Nat
        /\ t \in SUBSET S /\ Cardinality(t) \in Nat /\ Cardinality(t) < n
    BY <1>0, <2>2, <2>3, PickSmaller
  <2>5. IPs(h, t) \in Nat
    BY <2>1, <2>4
  <2> QED BY <2>2, <2>3, <2>4, <2>5
<1>2. Cardinality(S) \notin Bad
  BY <1>1
<1> QED BY <1>0, <1>2

\* Whatever element is taken out first: the sum does not depend on the order.
LEMMA IPsRemove ==
  ASSUME NEW h, NEW S, IsFiniteSet(S), \A c \in S : h[c].ips \in Nat, NEW d \in S
  PROVE  IPs(h, S) = h[d].ips + IPs(h, S \ {d})
<1> DEFINE Wrong(s, c) == IPs(h, s) # h[c].ips + IPs(h, s \ {c})
           Bad == {n \in Nat : \E s \in SUBSET S : Cardinality(s) = n /\ \E c \in s : Wrong(s, c)}
<1>0. \A s \in SUBSET S : /\ IsFiniteSet(s) /\ Cardinality(s) \in Nat
                          /\ IPs(h, s) \in Nat
  BY FS_Subset, FS_CardinalityType, IPsAreNat
<1>1. Bad = {}
  <2> SUFFICES ASSUME Bad # {} PROVE FALSE
    OBVIOUS
  <2>1. PICK n \in Bad : \A m \in Bad : n <= m
    <3>1. Bad \in SUBSET Nat
      OBVIOUS
    <3> HIDE DEF Bad
    <3> QED BY <3>1, NatHasMin
  <2>2. PICK s \in SUBSET S : Cardinality(s) = n /\ \E c \in s : Wrong(s, c)
    BY <2>1
  <2>c. PICK c \in s : Wrong(s, c)
    BY <2>2
  <2> DEFINE x == Pick(s)
             t == s \ {x}
  <2>3. x \in s /\ IPs(h, s) = h[x].ips + IPs(h, t)
    BY <1>0, <2>2, SumEquation, PickSmaller
  <2>4. x # c
    BY <2>c, <2>3
  <2>5. ASSUME NEW e \in s PROVE /\ s \ {e} \in SUBSET S
                                 /\ \A y \in s \ {e} : ~ Wrong(s \ {e}, y)
    <3>1. s \ {e} \in SUBSET S /\ Cardinality(s \ {e}) \in Nat /\ Cardinality(s \ {e}) < n
      BY <1>0, <2>2, FS_RemoveElement
    <3>2. n \in Nat
      BY <2>1
    <3>3. Cardinality(s \ {e}) \notin Bad
      <4> HIDE DEF Bad
      <4> QED BY <2>1, <3>1, <3>2
    <3> QED BY <3>1, <3>3
  <2> DEFINE u == s \ {x, c}
  <2>6. IPs(h, t) = h[c].ips + IPs(h, u)
    <3>1. ~ Wrong(t, c)
      BY <2>3, <2>4, <2>5
    <3>2. t \ {c} = u
      OBVIOUS
    <3> QED BY <3>1, <3>2
  <2>7. IPs(h, s \ {c}) = h[x].ips + IPs(h, u)
    <3>1. ~ Wrong(s \ {c}, x)
      BY <2>3, <2>4, <2>5
    <3>2. (s \ {c}) \ {x} = u
      OBVIOUS
    <3> QED BY <3>1, <3>2
  <2>8. h[c].ips \in Nat /\ h[x].ips \in Nat /\ u \in SUBSET S
    BY <2>3
  <2>9. IPs(h, u) \in Nat
    BY <1>0, <2>8
  <2>10. IPs(h, s) = h[c].ips + IPs(h, s \ {c})
    <3> HIDE DEF x, t, u
    <3> QED BY <2>3, <2>6, <2>7, <2>8, <2>9
  <2> QED BY <2>c, <2>10
<1>2. Cardinality(S) \notin Bad
  BY <1>1
<1> QED BY <1>0, <1>2

\* The sum over a set depends on nothing outside of it.
LEMMA IPsLocal ==
  ASSUME NEW g, NEW h, NEW S, IsFiniteSet(S), \A c \in S : g[c] = h[c]
  PROVE  IPs(g, S) = IPs(h, S)
<1> DEFINE Bad == {n \in Nat : \E s \in SUBSET S : Cardinality(s) = n /\ IPs(g, s) # IPs(h, s)}
<1>0. \A s \in SUBSET S : IsFiniteSet(s) /\ Cardinality(s) \in Nat
  BY FS_Subset, FS_CardinalityType
<1>1. Bad = {}
  <2> SUFFICES ASSUME Bad # {} PROVE FALSE
    OBVIOUS
  <2>1. PICK n \in Bad : \A m \in Bad : n <= m
    <3>1. Bad \in SUBSET Nat
      OBVIOUS
    <3> HIDE DEF Bad
    <3> QED BY <3>1, NatHasMin
  <2>2. PICK s \in SUBSET S : Cardinality(s) = n /\ IPs(g, s) # IPs(h, s)
    BY <2>1
  <2> DEFINE t == s \ {Pick(s)}
  <2>3. /\ s # {} /\ IPs(g, s) = g[Pick(s)].ips + IPs(g, t)
        /\ IPs(h, s) = h[Pick(s)].ips + IPs(h, t)
    BY <1>0, <2>2, SumEquation
  <2>4. /\ Pick(s) \in S
        /\ t \in SUBSET S /\ Cardinality(t) \in Nat /\ Cardinality(t) < n
    BY <1>0, <2>2, <2>3, PickSmaller
  <2>5. IPs(g, t) = IPs(h, t)
    BY <2>1, <2>4
  <2> QED BY <2>2, <2>3, <2>4, <2>5
<1>2. Cardinality(S) \notin Bad
  BY <1>1
<1> QED BY <1>0, <1>2

-----------------------------------------------------------------------------
(* The accounting of the reservations *)

AccountOK(s) ==
  availableIPs[s] # Absent =>
    /\ Effective(s) >= availableIPs[s] - ReservedOn(s)
    /\ s \notin disturbed => Effective(s) = availableIPs[s] - ReservedOn(s)

HInv ==
  /\ IInv
  /\ counted \subseteq Call /\ IsFiniteSet(counted)
  /\ \A c \in counted : held[c].ips # 0
  /\ disturbed \subseteq Subnet
  /\ \A s \in Subnet : AccountOK(s)

LEMMA OutstandingIsFinite ==
  ASSUME HInv, NEW s
  PROVE  /\ IsFiniteSet(Outstanding(s)) /\ Outstanding(s) \subseteq Call
         /\ \A c \in Outstanding(s) : held[c].ips \in Nat
         /\ ReservedOn(s) \in Nat
<1>1. Outstanding(s) \in SUBSET counted
  BY DEF Outstanding
<1>2. IsFiniteSet(Outstanding(s)) /\ Outstanding(s) \subseteq Call
  BY <1>1, FS_Subset DEF HInv
<1>3. \A c \in Outstanding(s) : held[c].ips \in Nat
  BY <1>2 DEF HInv, IInv, TypeOK
<1> QED BY <1>2, <1>3, IPsAreNat DEF ReservedOn

\* A step that changes neither the counts of a subnet nor what is reserved on it
\* leaves its account in order.
LEMMA Untouched ==
  ASSUME HInv, NEW s \in Subnet,
         availableIPs'[s] = availableIPs[s], inflightIPs'[s] = inflightIPs[s],
         Outstanding(s)' = Outstanding(s),
         \A c \in Outstanding(s) : held'[c] = held[c],
         s \notin disturbed' => s \notin disturbed
  PROVE  AccountOK(s)'
<1>1. ReservedOn(s)' = ReservedOn(s)
  BY OutstandingIsFinite, IPsLocal DEF ReservedOn
<1>2. Effective(s)' = Effective(s)
  BY DEF Effective
<1>3. AccountOK(s)
  BY DEF HInv
<1> QED BY <1>1, <1>2, <1>3 DEF AccountOK

LEMMA InitHInv == HInit => HInv
BY InitIInv, FS_EmptySet DEF HInit, Init, HInv, AccountOK

LEMMA ListRefreshHInv ==
  ASSUME HInv, NEW k \in Key, HListRefresh(k)
  PROVE  HInv'
<1> USE DEF HListRefresh, ListRefresh
<1>1. IInv'
  BY ListRefreshIInv DEF HInv
<1>2. /\ counted' \subseteq Call /\ IsFiniteSet(counted')
      /\ \A c \in counted' : held'[c].ips # 0
      /\ disturbed' \subseteq Subnet
  <2>1. counted' \in SUBSET counted
    OBVIOUS
  <2>2. IsFiniteSet(counted')
    BY <2>1, FS_Subset DEF HInv
  <2> QED BY <2>1, <2>2 DEF HInv
<1>3. ASSUME NEW s \in Subnet, s \in Matching(k) PROVE AccountOK(s)'
  <2>1. Outstanding(s)' = {}
    BY <1>3 DEF Outstanding
  <2>2. ReservedOn(s)' = 0
    BY <2>1, SumEquation, FS_EmptySet DEF ReservedOn
  <2>3. inflightIPs'[s] = Absent /\ availableIPs'[s] = vpc[s] /\ vpc[s] \in Nat
    BY <1>3, BoundsAssumption DEF HInv, IInv, TypeOK
  <2> QED BY <2>2, <2>3 DEF AccountOK, Effective
<1>4. ASSUME NEW s \in Subnet, s \notin Matching(k) PROVE AccountOK(s)'
  <2>1. Outstanding(s)' = Outstanding(s)
    BY <1>4 DEF Outstanding
  <2>2. availableIPs'[s] = availableIPs[s] /\ inflightIPs'[s] = inflightIPs[s]
    BY <1>4
  <2>3. s \notin disturbed' => s \notin disturbed
    BY <1>4
  <2> QED BY <2>1, <2>2, <2>3, Untouched
<1> QED BY <1>1, <1>2, <1>3, <1>4 DEF HInv

\* A reservation of n addresses takes n off the count the next call sees.
LEMMA SelectForLaunchHInv ==
  ASSUME HInv, NEW c \in Call, NEW r \in Requests, HSelectForLaunch(c, r)
  PROVE  HInv'
<1> DEFINE n == PredictedIPs(r.types)
<1>0. SelectForLaunch(c, r) /\ disturbed' = disturbed
  BY DEF HSelectForLaunch
<1>1. IInv'
  BY <1>0, SelectForLaunchIInv DEF HInv
<1>2. r \in Request
  BY RequestsAssumption
<1>3. n \in Nat
  BY <1>2, PredictedIPsBounded, BoundsAssumption DEF Request
<1>4. PICK i \in DOMAIN r.status :
        /\ inflightIPs' = [inflightIPs EXCEPT ![r.status[i]] = AfterReserve(r.status[i], n)]
        /\ held' = [held EXCEPT ![c] = [subnet |-> r.status[i], ips |-> n]]
        /\ UNCHANGED <<vpc, cache, availableIPs>>
  BY <1>0 DEF SelectForLaunch
<1> DEFINE t == r.status[i]
<1>5. t \in Subnet
  BY <1>2, <1>4 DEF Request
<1>6. c \notin counted /\ held'[c] = [subnet |-> t, ips |-> n]
      /\ \A d \in counted : d # c /\ held'[d] = held[d]
  BY <1>0, <1>4 DEF SelectForLaunch, HInv, IInv, TypeOK
<1>7. counted' = IF n > 0 THEN counted \cup {c} ELSE counted
  BY <1>6 DEF HSelectForLaunch
<1>8. /\ counted' \subseteq Call /\ IsFiniteSet(counted')
      /\ \A d \in counted' : held'[d].ips # 0
      /\ disturbed' \subseteq Subnet
  <2>1. IsFiniteSet(counted')
    BY <1>7, FS_AddElement DEF HInv
  <2>2. \A d \in counted' : held'[d].ips # 0
    BY <1>3, <1>6, <1>7 DEF HInv
  <2> QED BY <1>0, <1>7, <2>1, <2>2 DEF HInv
<1>9. ASSUME NEW s \in Subnet, s # t \/ n = 0 PROVE AccountOK(s)'
  <2>1. Outstanding(s)' = Outstanding(s)
    BY <1>3, <1>6, <1>7, <1>9 DEF Outstanding
  <2>2. inflightIPs'[s] = inflightIPs[s] /\ availableIPs'[s] = availableIPs[s]
    BY <1>4, <1>5, <1>9 DEF AfterReserve, HInv, IInv, TypeOK
  <2>3. \A d \in Outstanding(s) : held'[d] = held[d]
    BY <1>6 DEF Outstanding
  <2> QED BY <1>0, <2>1, <2>2, <2>3, Untouched
<1>10. CASE n # 0
  <2> DEFINE Out == Outstanding(t)
  <2>1. Outstanding(t)' = Out \cup {c} /\ c \notin Out
    BY <1>3, <1>6, <1>7, <1>10 DEF Outstanding
  <2>2. IsFiniteSet(Out) /\ (\A d \in Out : held[d].ips \in Nat /\ held'[d] = held[d])
        /\ ReservedOn(t) \in Nat
    BY <1>6, OutstandingIsFinite DEF Outstanding
  <2>3. ReservedOn(t)' = n + ReservedOn(t)
    <3>1. IsFiniteSet(Out \cup {c}) /\ (Out \cup {c}) \ {c} = Out
      BY <2>1, <2>2, FS_AddElement
    <3>2. \A d \in Out \cup {c} : held'[d].ips \in Nat
      BY <1>3, <1>6, <2>2
    <3>3. IPs(held', Out \cup {c}) = held'[c].ips + IPs(held', Out)
      BY <3>1, <3>2, IPsRemove
    <3>4. IPs(held', Out) = IPs(held, Out)
      BY <2>2, IPsLocal
    <3> QED BY <1>6, <2>1, <3>3, <3>4 DEF ReservedOn
  <2>4. availableIPs[t] # Absent => Effective(t) \in Int /\ availableIPs[t] \in Nat
    BY <1>5 DEF Effective, HInv, IInv, TypeOK
  <2>5. availableIPs[t] # Absent => Effective(t)' = Effective(t) - n
    <3>1. inflightIPs'[t] = Effective(t) - n
      BY <1>4, <1>5, <1>10 DEF AfterReserve, HInv, IInv, TypeOK
    <3>2. availableIPs[t] # Absent => Effective(t) - n # Absent
      BY <1>3, <2>4, AbsentAssumption
    <3> QED BY <3>1, <3>2 DEF Effective
  <2>6. AccountOK(t)
    BY <1>5 DEF HInv
  <2>7. AccountOK(t)'
    BY <1>0, <1>3, <1>4, <2>2, <2>3, <2>4, <2>5, <2>6 DEF AccountOK
  <2> QED BY <1>1, <1>8, <1>9, <2>7 DEF HInv
<1> QED BY <1>1, <1>8, <1>9, <1>10 DEF HInv

\* A release gives back what its reservation took, and a count that reaches the
\* listed one does so because nothing else is reserved.
LEMMA ReleaseInflightIPsHInv ==
  ASSUME HInv, NEW c \in Call, HReleaseInflightIPs(c)
  PROVE  HInv'
<1> DEFINE n == held[c].ips
<1>p. PICK t \in Subnet : t = held[c].subnet
  BY DEF HReleaseInflightIPs, ReleaseInflightIPs, HInv, IInv, ReservationHasSubnet
<1>0. ReleaseInflightIPs(c) /\ counted' = counted \ {c}
      /\ disturbed' = IF c \in counted THEN disturbed ELSE disturbed \cup {t}
  BY <1>p DEF HReleaseInflightIPs
<1>1. IInv'
  BY <1>0, ReleaseInflightIPsIInv DEF HInv
<1>2. t \in Subnet /\ n \in Nat /\ n # 0
  BY <1>p, <1>0 DEF ReleaseInflightIPs, HInv, IInv, ReservationHasSubnet, TypeOK
<1>3. \A d \in counted' : held'[d] = held[d]
  BY <1>0 DEF ReleaseInflightIPs, HInv, IInv, TypeOK
<1>4. /\ counted' \subseteq Call /\ IsFiniteSet(counted')
      /\ \A d \in counted' : held'[d].ips # 0
      /\ disturbed' \subseteq Subnet
  <2>1. IsFiniteSet(counted')
    BY <1>0, FS_RemoveElement DEF HInv
  <2> QED BY <1>0, <1>2, <1>3, <2>1 DEF HInv
<1>5. availableIPs' = availableIPs
  BY <1>0 DEF ReleaseInflightIPs
<1>6. ASSUME NEW s \in Subnet, s # t PROVE AccountOK(s)'
  <2>1. Outstanding(s)' = Outstanding(s)
    BY <1>p, <1>0, <1>3, <1>6 DEF Outstanding
  <2>2. inflightIPs'[s] = inflightIPs[s]
    BY <1>p, <1>0, <1>6 DEF ReleaseInflightIPs, HInv, IInv, TypeOK
  <2>3. \A d \in Outstanding(s) : held'[d] = held[d]
    BY <1>p, <1>0, <1>3, <1>6 DEF Outstanding
  <2> QED BY <1>0, <1>5, <2>1, <2>2, <2>3, Untouched
<1>7. AccountOK(t)'
  <2> SUFFICES ASSUME availableIPs[t] # Absent PROVE AccountOK(t)'
    BY <1>5 DEF AccountOK
  <2> DEFINE b == availableIPs[t]
             x == inflightIPs[t]
  <2>1. b \in Nat /\ (x = Absent \/ x \in Int) /\ b # Absent
    BY <1>2 DEF HInv, IInv, TypeOK
  <2>2. inflightIPs'[t] = AfterRelease(t, n)
    BY <1>p, <1>0, <1>2 DEF ReleaseInflightIPs, HInv, IInv, TypeOK
  <2>3. Effective(t)' = IF x = Absent \/ x + n >= b THEN b ELSE x + n
    BY <1>2, <1>5, <2>1, <2>2, AbsentAssumption DEF Effective, AfterRelease
  <2>4. /\ IsFiniteSet(Outstanding(t)) /\ ReservedOn(t) \in Nat
        /\ \A d \in Outstanding(t) : held[d].ips \in Nat
    BY OutstandingIsFinite
  <2>5. Outstanding(t)' = Outstanding(t) \ {c}
    BY <1>0, <1>3 DEF Outstanding
  <2>6. ReservedOn(t)' = IPs(held, Outstanding(t) \ {c})
    <3>1. IsFiniteSet(Outstanding(t) \ {c})
      BY <2>4, FS_RemoveElement
    <3>2. \A d \in Outstanding(t) \ {c} : held'[d] = held[d]
      BY <1>0, <1>3 DEF Outstanding
    <3>3. IPs(held', Outstanding(t) \ {c}) = IPs(held, Outstanding(t) \ {c})
      BY <3>1, <3>2, IPsLocal
    <3> QED BY <2>5, <3>3 DEF ReservedOn
  <2>7. AccountOK(t) /\ Effective(t) = IF x = Absent THEN b ELSE x
    BY <1>2, <2>1 DEF HInv, Effective
  <2>8. CASE c \in counted
    <3>1. c \in Outstanding(t)
      BY <1>p, <2>8 DEF Outstanding
    <3>2. ReservedOn(t) = n + ReservedOn(t)' /\ ReservedOn(t)' \in Nat
      <4>1. IPs(held, Outstanding(t)) = held[c].ips + IPs(held, Outstanding(t) \ {c})
        BY <2>4, <3>1, IPsRemove
      <4>2. IPs(held, Outstanding(t) \ {c}) \in Nat
        BY <2>4, FS_RemoveElement, IPsAreNat
      <4> QED BY <2>6, <4>1, <4>2 DEF ReservedOn
    <3>3. disturbed' = disturbed
      BY <1>0, <2>8
    <3>4. b >= b - ReservedOn(t)' /\ (x # Absent => x + n >= b - ReservedOn(t)')
      BY <1>2, <2>1, <2>4, <2>7, <3>2 DEF AccountOK
    <3>5. t \notin disturbed =>
            /\ x # Absent
            /\ x + n = b - ReservedOn(t)'
      <4> SUFFICES ASSUME t \notin disturbed
                   PROVE  x # Absent /\ x + n = b - ReservedOn(t)'
        OBVIOUS
      <4>1. (IF x = Absent THEN b ELSE x) = b - ReservedOn(t)
        BY <2>1, <2>7 DEF AccountOK
      <4>2. n \in Nat \ {0}
        BY <1>2
      <4>3. ReservedOn(t) \in Nat \ {0}
        BY <3>2, <4>2
      <4>4. x # Absent
        BY <2>1, <4>1, <4>3
      <4> QED BY <2>1, <3>2, <4>1, <4>2, <4>4
    <3> QED BY <1>2, <1>5, <2>1, <2>3, <3>2, <3>3, <3>4, <3>5 DEF AccountOK
  <2>9. CASE c \notin counted
    <3>1. ReservedOn(t)' = ReservedOn(t)
      <4>1. Outstanding(t) \ {c} = Outstanding(t)
        BY <2>9 DEF Outstanding
      <4> QED BY <2>6, <4>1 DEF ReservedOn
    <3>2. t \in disturbed'
      BY <1>0, <2>9
    <3>3. Effective(t)' >= b - ReservedOn(t)
      BY <1>2, <2>1, <2>3, <2>4, <2>7 DEF AccountOK
    <3> QED BY <1>5, <3>1, <3>2, <3>3 DEF AccountOK
  <2> QED BY <2>8, <2>9
<1> QED BY <1>1, <1>4, <1>6, <1>7 DEF HInv

LEMMA EnvironmentHInv ==
  ASSUME HInv, UNCHANGED history,
         \/ \E k \in Key : CacheExpires(k)
         \/ \E s \in Subnet : AvailableIPsExpire(s) \/ \E n \in 0..MaxIPs : VPCChanges(s, n)
         \/ UNCHANGED vars
  PROVE  HInv'
<1>1. IInv'
  BY EnvironmentIInv DEF HInv
<1>2. held' = held /\ inflightIPs' = inflightIPs /\ counted' = counted /\ disturbed' = disturbed
  BY DEF CacheExpires, AvailableIPsExpire, VPCChanges, vars, history
<1>3. ASSUME NEW s \in Subnet PROVE availableIPs'[s] \in {availableIPs[s], Absent}
  BY DEF CacheExpires, AvailableIPsExpire, VPCChanges, vars, HInv, IInv, TypeOK
<1>4. ASSUME NEW s \in Subnet PROVE AccountOK(s)'
  <2>1. CASE availableIPs'[s] = availableIPs[s]
    <3>1. Outstanding(s)' = Outstanding(s)
      BY <1>2 DEF Outstanding
    <3> QED BY <1>2, <2>1, <3>1, Untouched
  <2>2. CASE availableIPs'[s] = Absent
    BY <2>2 DEF AccountOK
  <2> QED BY <1>3, <2>1, <2>2
<1> QED BY <1>1, <1>2, <1>4 DEF HInv

LEMMA NextHInv == HInv /\ [HNext]_<<vars, history>> => HInv'
BY ListRefreshHInv, SelectForLaunchHInv, ReleaseInflightIPsHInv, EnvironmentHInv DEF HNext

LEMMA HInvariance == HSpec => []HInv
BY InitHInv, NextHInv, PTL DEF HSpec

-----------------------------------------------------------------------------
(* Theorems about the accounting *)

\* However many launches reserve and release around refreshes and expiries,
\* every release gives back all its reservation took: a subnet never looks
\* fuller than its listed count less the reservations made since and still running.
THEOREM NoLeak == HSpec => []NothingLeaks
<1>1. HInv => NothingLeaks
  BY DEF HInv, AccountOK, NothingLeaks
<1> QED BY <1>1, HInvariance, PTL

\* On a subnet where no release has crossed a refresh, SelectForLaunch decides
\* on the exact count, for any number of calls.
THEOREM ExactCounts == HSpec => []ExactUnlessDisturbed
<1>1. HInv => ExactUnlessDisturbed
  BY DEF HInv, AccountOK, ExactUnlessDisturbed
<1> QED BY <1>1, HInvariance, PTL

\* The release of a reservation that no refresh has dropped takes it, and nothing
\* else, out of what is reserved.
LEMMA ReleaseAccount ==
  ASSUME HInv, NEW c \in counted, NEW s \in Subnet, s = held[c].subnet, HReleaseInflightIPs(c)
  PROVE  /\ ReservedOn(s) = held[c].ips + ReservedOn(s)'
         /\ held[c].ips \in Nat /\ ReservedOn(s)' \in Nat
<1>1. /\ held' = [held EXCEPT ![c] = NoReservation] /\ counted' = counted \ {c}
      /\ c \in Call /\ c \in Outstanding(s)
  BY DEF HReleaseInflightIPs, ReleaseInflightIPs, HInv, Outstanding
<1>2. \A d \in Outstanding(s) \ {c} : held'[d] = held[d]
  BY <1>1 DEF Outstanding, HInv, IInv, TypeOK
<1>3. Outstanding(s)' = Outstanding(s) \ {c}
  BY <1>1 DEF Outstanding, HInv, IInv, TypeOK
<1>4. IsFiniteSet(Outstanding(s)) /\ \A d \in Outstanding(s) : held[d].ips \in Nat
  BY OutstandingIsFinite
<1>5. IsFiniteSet(Outstanding(s) \ {c})
  BY <1>4, FS_RemoveElement
<1>6. IPs(held', Outstanding(s) \ {c}) = IPs(held, Outstanding(s) \ {c})
  BY <1>2, <1>5, IPsLocal
<1>7. IPs(held, Outstanding(s)) = held[c].ips + IPs(held, Outstanding(s) \ {c})
  BY <1>1, <1>4, IPsRemove
<1>8. IPs(held, Outstanding(s) \ {c}) \in Nat
  BY <1>4, <1>5, IPsAreNat
<1> QED BY <1>1, <1>3, <1>4, <1>6, <1>7, <1>8 DEF ReservedOn

\* Where no release has crossed a refresh, the comment at ReleaseInflightIPs is right: a
\* release raises the count that SelectForLaunch sees by exactly what its own call reserved.
THEOREM OwnRelease == HSpec => UndisturbedReleaseGivesBackItsOwn
<1>1. ASSUME HInv, HInv', NEW c \in Call, NEW s \in Subnet, Releases(c, s), s \notin disturbed'
      PROVE  GivesBackItsOwn(c, s)
  <2>1. /\ s = held[c].subnet /\ availableIPs[s] # Absent
        /\ HReleaseInflightIPs(c) /\ availableIPs' = availableIPs
    BY <1>1 DEF Releases, HReleaseInflightIPs, ReleaseInflightIPs
  <2>2. c \in counted /\ s \notin disturbed
    BY <1>1, <2>1 DEF HReleaseInflightIPs
  <2>3. /\ ReservedOn(s) = held[c].ips + ReservedOn(s)'
        /\ held[c].ips \in Nat /\ ReservedOn(s)' \in Nat
    BY <1>1, <2>1, <2>2, ReleaseAccount
  <2>4. Effective(s) = availableIPs[s] - ReservedOn(s)
    BY <1>1, <2>1, <2>2 DEF HInv, AccountOK
  <2>5. Effective(s)' = availableIPs[s] - ReservedOn(s)'
    BY <1>1, <2>1 DEF HInv, AccountOK
  <2>6. availableIPs[s] \in Nat
    BY <1>1, <2>1 DEF HInv, IInv, TypeOK
  <2> QED BY <2>2, <2>3, <2>4, <2>5, <2>6 DEF GivesBackItsOwn
<1>2. HInv /\ HInv' =>
        [\A c \in Call, s \in Subnet :
           Releases(c, s) /\ s \notin disturbed' => GivesBackItsOwn(c, s)]_<<vars, history>>
  BY <1>1
<1> QED BY <1>2, HInvariance, PTL DEF UndisturbedReleaseGivesBackItsOwn
=============================================================================
