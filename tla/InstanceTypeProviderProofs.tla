--------------------- MODULE InstanceTypeProviderProofs ---------------------
(***************************************************************************)
(* The cached instance types are what would be resolved now, nothing sold  *)
(* out is offered and no listed flavor is lost, for any flavors, zones,    *)
(* NodeClass settings and page size.                                       *)
(*                                                                         *)
(* A refresh leaves the cache alone only if both of the monitor's values   *)
(* are those it stores; the invariant says that a remembered value is the  *)
(* stored one, so nothing the cache was resolved from has changed then.    *)
(* A fetch is followed by its marker: whatever was listed throughout and   *)
(* lies up to the marker has been fetched.                                 *)
(***************************************************************************)
EXTENDS InstanceTypeProvider, TLAPS

\* The monitor remembers nothing but what is stored.
MonitorIsCurrent == seenInfo \in {Absent, info} /\ seenOfferings \in {Absent, offerings}

CacheIsCurrent == \A k \in Config : cache[k] # Absent => cache[k] = Resolved(k)

OfferedIsOpen == \A f \in DOMAIN info : \A z \in offerings[f] : Open(StatusIn(info[f], z))

\* What the fetch has still to find lies behind its marker.
FetchedSoFar ==
  /\ step # "idle" => throughout \subseteq DOMAIN catalog
  /\ step = "flavors" => \A f \in throughout : f <= marker => f \in DOMAIN fetched
  /\ step \in {"zones", "store"} => throughout \subseteq DOMAIN fetched

IInv == TypeOK /\ MonitorIsCurrent /\ CacheIsCurrent /\ OfferedIsOpen /\ FetchedSoFar

-----------------------------------------------------------------------------

\* A function on some of the flavors is a map, and a map is such a function.
LEMMA MapIntro ==
  ASSUME NEW S, NEW F \in SUBSET Flavor, NEW m \in [F -> S] PROVE m \in Maps(S)
BY DEF Maps

LEMMA MapElim ==
  ASSUME NEW S, NEW m \in Maps(S)
  PROVE  DOMAIN m \subseteq Flavor /\ m \in [DOMAIN m -> S]
BY DEF Maps

\* The offerings computed for fetched flavors are a map on them, and open.
LEMMA OfferingsOpen ==
  ASSUME NEW flavors \in Maps(Entries), NEW listed \in SUBSET Zone
  PROVE  /\ AllOfferings(flavors, listed) \in Maps(SUBSET Zone)
         /\ DOMAIN AllOfferings(flavors, listed) = DOMAIN flavors
         /\ \A f \in DOMAIN flavors : \A z \in AllOfferings(flavors, listed)[f] :
              Open(StatusIn(flavors[f], z))
<1>1. DOMAIN flavors \subseteq Flavor
  BY MapElim
<1>2. AllOfferings(flavors, listed) \in [DOMAIN flavors -> SUBSET Zone]
  BY DEF AllOfferings, OfferingZones, Universe
<1>3. AllOfferings(flavors, listed) \in Maps(SUBSET Zone)
  BY <1>1, <1>2, MapIntro
<1> QED BY <1>2, <1>3 DEF AllOfferings, OfferingZones

\* The initial states satisfy the invariant.
LEMMA InitInv == Init => IInv
<1> SUFFICES ASSUME Init PROVE IInv
  OBVIOUS
<1>1. \A S : Nothing \in Maps(S)
  BY DEF Nothing, Maps
<1>2. DOMAIN Nothing = {}
  BY DEF Nothing
<1> QED
  BY <1>1, <1>2 DEF Init, IInv, TypeOK, MonitorIsCurrent, CacheIsCurrent, OfferedIsOpen,
     FetchedSoFar

\* Every step preserves the invariant.
LEMMA StepInv == IInv /\ [Next]_vars => IInv'
<1> SUFFICES ASSUME IInv, [Next]_vars PROVE IInv'
  OBVIOUS
<1>a. \A S : Nothing \in Maps(S)
  BY DEF Nothing, Maps
<1>b. DOMAIN Nothing = {}
  BY DEF Nothing
<1>c. TypeOK
  BY DEF IInv
<1>r. UNCHANGED <<info, offerings>> => \A k \in Config : Resolved(k)' = Resolved(k)
  BY DEF Resolved, Resolve
<1>s. UNCHANGED <<info, offerings, cache>> => CacheIsCurrent'
  BY <1>r DEF IInv, CacheIsCurrent
<1>o. UNCHANGED <<info, offerings>> => OfferedIsOpen'
  BY DEF IInv, OfferedIsOpen
<1>m. UNCHANGED stored => MonitorIsCurrent'
  BY DEF IInv, MonitorIsCurrent, stored
<1>1. CASE Start
  BY <1>1, <1>a, <1>b, <1>s, <1>o, <1>m, FlavorAssumption, MapElim
     DEF Start, IInv, TypeOK, FetchedSoFar, cloud, stored
<1>2. CASE NextPage
  <2>1. PICK P \in SUBSET After(marker) :
          /\ IsPage(P)
          /\ fetched' = [f \in DOMAIN fetched \cup P |-> IF f \in P THEN catalog[f] ELSE fetched[f]]
          /\ \/ IsLastPage(P) /\ step' = "zones" /\ UNCHANGED marker
             \/ /\ ~IsLastPage(P) /\ UNCHANGED step
                /\ \E f \in P : IsMarker(P, f) /\ marker' = f
    BY <1>2 DEF NextPage
  <2>2. step = "flavors" /\ UNCHANGED <<cloud, zones, throughout, stored, cache, unavailable>>
    BY <1>2 DEF NextPage
  <2>3. P \subseteq DOMAIN catalog /\ DOMAIN catalog \subseteq Flavor /\ Flavor \subseteq Nat
    BY <1>c, MapElim, FlavorAssumption DEF After, TypeOK
  <2>4. fetched' \in Maps(Entries)
    <3>1. DOMAIN fetched \cup P \in SUBSET Flavor
      BY <1>c, <2>3, MapElim DEF TypeOK
    <3>2. fetched' \in [DOMAIN fetched \cup P -> Entries]
      BY <1>c, <2>1, <2>3, MapElim DEF TypeOK
    <3> QED BY <3>1, <3>2, MapIntro
  <2>5. DOMAIN fetched' = DOMAIN fetched \cup P
    BY <2>1
  <2>6. FetchedSoFar'
    <3>1. throughout \subseteq DOMAIN catalog
      BY <2>2 DEF IInv, FetchedSoFar
    <3>2. \A f \in throughout : f <= marker => f \in DOMAIN fetched
      BY <2>2 DEF IInv, FetchedSoFar
    <3>3. \A f \in throughout : f \in Nat /\ (f <= marker \/ f \in After(marker))
      <4>1. marker \in Nat
        BY <1>c DEF TypeOK
      <4>2. \A f \in throughout : f \in DOMAIN catalog /\ f \in Nat
        BY <2>3, <3>1
      <4>3. \A f \in Nat : f <= marker \/ f > marker
        BY <4>1
      <4> QED BY <4>2, <4>3 DEF After
    <3>4. CASE IsLastPage(P) /\ step' = "zones" /\ UNCHANGED marker
      <4>1. P = After(marker)
        BY <2>1, <3>4, PageAssumption DEF IsPage, IsLastPage
      <4> QED BY <2>2, <2>5, <3>1, <3>2, <3>3, <3>4, <4>1 DEF FetchedSoFar, cloud
    <3>5. CASE ~IsLastPage(P) /\ UNCHANGED step /\ \E f \in P : IsMarker(P, f) /\ marker' = f
      <4>1. PICK m \in P : IsMarker(P, m) /\ marker' = m
        BY <3>5
      <4>2. \A f \in throughout : f <= m /\ f \in After(marker) => f \in P
        <5>1. \A f \in After(marker) \ P : m < f
          BY <2>1, <4>1 DEF IsPage
        <5>2. \A f \in throughout : f \in Nat
          BY <3>3
        <5>3. m \in Nat
          BY <2>3, <4>1
        <5>4. \A f \in Nat : ~(m < f /\ f <= m)
          BY <5>3
        <5> QED BY <5>1, <5>2, <5>4
      <4>3. \A f \in throughout : f <= marker' => f \in DOMAIN fetched'
        BY <2>5, <3>2, <3>3, <4>1, <4>2
      <4> QED BY <2>2, <3>1, <3>5, <4>3 DEF FetchedSoFar, cloud
    <3> QED BY <2>1, <3>4, <3>5
  <2>7. marker' \in Nat /\ step' \in {"idle", "flavors", "zones", "store"}
    BY <1>c, <2>1, <2>2, <2>3 DEF TypeOK
  <2> QED BY <1>c, <1>s, <1>o, <1>m, <2>2, <2>4, <2>6, <2>7 DEF IInv, TypeOK, cloud, stored
<1>3. CASE FetchZones
  BY <1>3, <1>c, <1>s, <1>o, <1>m, ZoneListsAssumption
     DEF FetchZones, IInv, TypeOK, FetchedSoFar, cloud, stored
<1>4. CASE RefreshFails
  BY <1>4, <1>a, <1>c, <1>s, <1>o, <1>m DEF RefreshFails, IInv, TypeOK, FetchedSoFar, cloud, stored
<1>5. CASE Store
  <2> DEFINE new == AllOfferings(fetched, zones)
  <2>1. /\ new \in Maps(SUBSET Zone) /\ DOMAIN new = DOMAIN fetched
        /\ \A f \in DOMAIN fetched : \A z \in new[f] : Open(StatusIn(fetched[f], z))
    BY <1>c, OfferingsOpen DEF TypeOK
  <2>2. /\ info' = fetched /\ seenInfo' = fetched /\ offerings' = new /\ seenOfferings' = new
        /\ cache' = Flushed(fetched, new)
        /\ step' = "idle" /\ marker' = 0 /\ fetched' = Nothing /\ zones' = {} /\ throughout' = {}
        /\ UNCHANGED <<cloud, unavailable>>
    BY <1>5 DEF Store
  <2> HIDE DEF new
  <2>3. CASE seenInfo # fetched \/ seenOfferings # new
    <3>1. cache' = [k \in Config |-> Absent]
      BY <2>2, <2>3 DEF Flushed
    <3> QED
      BY <1>a, <1>c, <2>1, <2>2, <3>1
         DEF IInv, TypeOK, MonitorIsCurrent, CacheIsCurrent, OfferedIsOpen, FetchedSoFar, cloud
  <2>4. CASE seenInfo = fetched /\ seenOfferings = new
    <3>1. cache' = cache
      BY <2>2, <2>4 DEF Flushed
    <3>2. info = fetched /\ offerings = new
      BY <1>c, <2>1, <2>4, AbsentAssumption DEF IInv, TypeOK, MonitorIsCurrent
    <3>3. CacheIsCurrent'
      BY <1>s, <2>2, <3>1, <3>2
    <3> QED
      BY <1>a, <1>c, <2>1, <2>2, <3>1, <3>3
         DEF IInv, TypeOK, MonitorIsCurrent, OfferedIsOpen, FetchedSoFar, cloud
  <2> QED BY <2>3, <2>4
<1>6. ASSUME NEW k \in Config, ListMiss(k) PROVE IInv'
  <2>1. Resolved(k) \subseteq InstanceType
    <3>1. DOMAIN info \subseteq Flavor /\ info \in [DOMAIN info -> Entries]
          /\ offerings \in [DOMAIN info -> SUBSET Zone]
      BY <1>c, MapElim DEF TypeOK
    <3> QED BY <3>1 DEF Resolved, Resolve, InstanceType
  <2>2. CacheIsCurrent'
    BY <1>6, <1>c, <1>r DEF ListMiss, IInv, CacheIsCurrent, TypeOK, stored
  <2> QED BY <1>6, <1>c, <1>o, <1>m, <2>1, <2>2
             DEF ListMiss, IInv, TypeOK, FetchedSoFar, cloud, fetch, stored
<1>7. ASSUME NEW k \in Config, CacheExpires(k) PROVE IInv'
  <2>1. CacheIsCurrent'
    BY <1>7, <1>c, <1>r DEF CacheExpires, IInv, CacheIsCurrent, TypeOK, stored
  <2> QED BY <1>7, <1>c, <1>o, <1>m, <2>1
             DEF CacheExpires, IInv, TypeOK, FetchedSoFar, cloud, fetch, stored
<1>8. CASE MonitorForgets
  BY <1>8, <1>c, <1>s, <1>o
     DEF MonitorForgets, IInv, TypeOK, MonitorIsCurrent, FetchedSoFar, cloud, fetch
<1>9. ASSUME NEW f \in Flavor, FlavorChanges(f) PROVE IInv'
  <2>1. PICK F \in {DOMAIN catalog \cup {f}, DOMAIN catalog \ {f}}, e \in Entries :
          catalog' = [g \in F |-> IF g = f THEN e ELSE catalog[g]]
    BY <1>9 DEF FlavorChanges
  <2>2. F \in SUBSET Flavor
    BY <1>c, MapElim DEF TypeOK
  <2>3. catalog' \in [F -> Entries]
    BY <1>c, <2>1, MapElim DEF TypeOK
  <2>4. catalog' \in Maps(Entries)
    BY <2>2, <2>3, MapIntro
  <2> QED BY <1>9, <1>c, <1>s, <1>o, <1>m, <2>4
             DEF FlavorChanges, IInv, TypeOK, FetchedSoFar, stored
<1>10. ASSUME NEW o \in Tried, MarkChanges(o) PROVE IInv'
  BY <1>10, <1>c, <1>s, <1>o, <1>m DEF MarkChanges, IInv, TypeOK, FetchedSoFar, cloud, fetch, stored
<1>11. CASE ZonesChange
  BY <1>11, <1>c, <1>s, <1>o, <1>m DEF ZonesChange, IInv, TypeOK, FetchedSoFar, fetch, stored
<1>12. CASE UNCHANGED vars
  BY <1>12, <1>c, <1>s, <1>o, <1>m DEF vars, IInv, TypeOK, FetchedSoFar, cloud, fetch, stored
<1> QED
  BY <1>1, <1>2, <1>3, <1>4, <1>5, <1>6, <1>7, <1>8, <1>9, <1>10, <1>11, <1>12 DEF Next

\* The invariant holds of every reachable state of the instance type provider.
THEOREM Invariance == Spec => []IInv
BY InitInv, StepInv, PTL DEF Spec

\* The provider's state is always of its type.
THEOREM TypeCorrect == Spec => []TypeOK
<1>1. IInv => TypeOK
  BY DEF IInv
<1> QED BY <1>1, Invariance, PTL

\* An offering of a listed type is an offering of the stored flavor.
LEMMA ListIsFresh ==
  IInv => \A k \in Config :
    List(k) = {[type |-> Resolve(f, k), offerings |-> Offer(f, offerings[f])] : f \in DOMAIN info}
<1> SUFFICES ASSUME IInv, NEW k \in Config
             PROVE  List(k) = {[type |-> Resolve(f, k), offerings |-> Offer(f, offerings[f])] :
                                 f \in DOMAIN info}
  OBVIOUS
<1>1. (IF DOMAIN info = {} THEN {} ELSE IF cache[k] # Absent THEN cache[k] ELSE Resolved(k))
        = Resolved(k)
  BY DEF IInv, CacheIsCurrent, Resolved
<1>2. \A f \in DOMAIN info : AvailableZones(Resolve(f, k)) = offerings[f]
  BY DEF IInv, TypeOK, AvailableZones, Resolve
<1>3. List(k) = {[type |-> it, offerings |-> Offer(it.flavor, AvailableZones(it))] :
                   it \in Resolved(k)}
  BY <1>1 DEF List
<1>4. \A f \in DOMAIN info :
        Offer(Resolve(f, k).flavor, AvailableZones(Resolve(f, k))) = Offer(f, offerings[f])
  BY <1>2 DEF Resolve
<1> QED BY <1>3, <1>4 DEF Resolved

\* List answers the same with and without its cache (instancetype.go: the
\* flushes of updateInstanceTypesLocked and updateInstanceTypeOfferingsLocked).
THEOREM CacheTransparent == Spec => []CacheIsTransparent
<1>1. IInv => CacheIsTransparent
  BY ListIsFresh DEF CacheIsTransparent
<1> QED BY <1>1, Invariance, PTL

\* Nothing sold out is offered (resolveOfferingZones and createOfferings).
THEOREM SoldOutHidden == Spec => []SoldOutIsNotOffered
<1>1. IInv => SoldOutIsNotOffered
  <2> SUFFICES ASSUME IInv, NEW k \in Config, NEW t \in List(k), NEW o \in t.offerings
               PROVE  Open(StatusIn(info[t.type.flavor], o.zone))
    BY DEF SoldOutIsNotOffered
  <2>1. PICK f \in DOMAIN info :
          t = [type |-> Resolve(f, k), offerings |-> Offer(f, offerings[f])]
    BY ListIsFresh
  <2>2. t.type.flavor = f /\ o.zone \in offerings[f]
    <3>1. t.type = Resolve(f, k) /\ t.offerings = Offer(f, offerings[f])
      BY <2>1
    <3>2. \A x \in Offer(f, offerings[f]) : x.zone \in offerings[f]
      <4> SUFFICES ASSUME NEW x \in Offer(f, offerings[f]) PROVE x.zone \in offerings[f]
        OBVIOUS
      <4>1. PICK z \in offerings[f] : x = [zone |-> z, available |-> <<f, z>> \notin unavailable]
        BY Zenon DEF Offer
      <4>2. \A b : [zone |-> z, available |-> b].zone = z
        OBVIOUS
      <4> QED BY <4>1, <4>2, Zenon
    <3>3. o \in Offer(f, offerings[f])
      BY <3>1
    <3>4. o.zone \in offerings[f]
      BY <3>2, <3>3
    <3>5. t.type.flavor = f
      BY <3>1 DEF Resolve
    <3> QED BY <3>4, <3>5
  <2> QED BY <2>2 DEF IInv, OfferedIsOpen
<1> QED BY <1>1, Invariance, PTL

\* No flavor listed throughout a fetch is lost between its pages
\* (fetchInstanceTypes).
THEOREM FetchComplete == Spec => []FetchIsComplete
<1>1. IInv => FetchIsComplete
  BY DEF IInv, FetchedSoFar, FetchIsComplete
<1> QED BY <1>1, Invariance, PTL
=============================================================================
