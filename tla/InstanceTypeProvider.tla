------------------------ MODULE InstanceTypeProvider ------------------------
(***************************************************************************)
(* The instance type provider                                              *)
(* (src/pkg/providers/instancetype/instancetype.go): a refresh, run at     *)
(* startup and then by one controller, fetches the flavors of the cloud    *)
(* page by page and the availability zones, and swaps both in under the    *)
(* provider's lock; List, called by every launch and every scheduling      *)
(* round, resolves the flavors for a NodeClass through a cache that        *)
(* expires, and adds what is offered where at that moment.                 *)
(*                                                                         *)
(* Fetching holds no lock that List takes, so the cloud, the List calls,   *)
(* the marks of refused offerings and the expiries interleave with its     *)
(* pages.  List holds the read lock throughout and is one action.          *)
(*                                                                         *)
(* Simplifications: flavors are numbered in the order of the cloud's       *)
(* pages, a number standing for name and id; a resolved instance type is   *)
(* the flavor with its zones and the NodeClass settings it was resolved    *)
(* for (the arithmetic of types.go is a function of these); prices, which  *)
(* are read at the same moment as the marks, and the discovered memory     *)
(* capacities, which the program never records, are left out.              *)
(***************************************************************************)
EXTENDS Naturals, FiniteSets

CONSTANTS
  Flavor,     \* flavors the cloud may list
  Zone,       \* availability zones
  Entries,    \* what the cloud may say of a flavor
  ZoneLists,  \* availability zones the cloud may list
  Tried,      \* offerings that launches try
  Config,     \* NodeClass settings that make up a cache key
  PageSize,   \* listFlavorsPageSize
  Absent

\* The operation status of a flavor, and the zones where it is another.
Status == {"normal", "promotion", "obt", "abandon", "sellout", "obt_sellout"}
NoOverride == "none"
Entry == [status : Status, az : [Zone -> Status \cup {NoOverride}]]

ASSUME FlavorAssumption == Flavor \subseteq Nat \ {0}
ASSUME EntriesAssumption == Entries \subseteq Entry
ASSUME ZoneListsAssumption == ZoneLists \subseteq SUBSET Zone
ASSUME TriedAssumption == Tried \subseteq Flavor \X Zone
ASSUME PageAssumption == PageSize \in Nat \ {0}

\* Functions on some of the flavors: Go maps keyed by instance type.
Maps(S) == UNION {[F -> S] : F \in SUBSET Flavor}

ASSUME AbsentAssumption == Absent \notin Maps(Entries) /\ Absent \notin Maps(SUBSET Zone)

VARIABLES
  catalog,      \* the cloud's flavors
  azs,          \* the cloud's availability zones
  step,         \* where the refresh is
  marker,       \* the flavor its next page starts after, 0 for none
  fetched,      \* the flavors of the pages so far
  zones,        \* the availability zones it fetched
  throughout,   \* history: the flavors listed ever since the fetch began
  info,         \* instanceTypesInfo
  offerings,    \* instanceTypesOfferings
  seenInfo,     \* the ChangeMonitor's memory of "instance-types"
  seenOfferings,\* and of "instance-type-offering"
  cache,        \* instanceTypesCache
  unavailable   \* the offering availability cache

cloud == <<catalog, azs>>
fetch == <<step, marker, fetched, zones, throughout>>
stored == <<info, offerings, seenInfo, seenOfferings>>
vars == <<cloud, fetch, stored, cache, unavailable>>

Nothing == [f \in {} |-> Absent]

InstanceType == [flavor : Flavor, entry : Entries, zones : SUBSET Zone, config : Config]

TypeOK ==
  /\ catalog \in Maps(Entries) /\ azs \in ZoneLists
  /\ step \in {"idle", "flavors", "zones", "store"}
  /\ marker \in Nat
  /\ fetched \in Maps(Entries) /\ zones \subseteq Zone
  /\ throughout \subseteq Flavor
  /\ info \in Maps(Entries)
  /\ offerings \in Maps(SUBSET Zone) /\ DOMAIN offerings = DOMAIN info
  /\ cache \in [Config -> (SUBSET InstanceType) \cup {Absent}]
  /\ unavailable \subseteq Tried

Init ==
  /\ catalog \in Maps(Entries) /\ azs \in ZoneLists
  /\ step = "idle" /\ marker = 0 /\ fetched = Nothing /\ zones = {} /\ throughout = {}
  /\ info = Nothing /\ offerings = Nothing
  /\ seenInfo = Absent /\ seenOfferings = Absent
  /\ cache = [k \in Config |-> Absent]
  /\ unavailable = {}

-----------------------------------------------------------------------------
(* Refresh: fetchInstanceTypes *)

Start ==
  /\ step = "idle"
  /\ step' = "flavors" /\ marker' = 0 /\ fetched' = Nothing
  /\ throughout' = DOMAIN catalog
  /\ UNCHANGED <<cloud, zones, stored, cache, unavailable>>

After(m) == {f \in DOMAIN catalog : f > m}

\* The cloud answers with a page: the flavors that come first after the marker,
\* PageSize of them unless there are fewer.
IsPage(P) ==
  /\ \A f \in P, g \in After(marker) \ P : f < g
  /\ Cardinality(P) <= PageSize
  /\ Cardinality(P) = PageSize \/ P = After(marker)

\* A fetch that takes a full page for the last one.
FirstPageIsLast(P) == Cardinality(P) <= PageSize

IsLastPage(P) == Cardinality(P) < PageSize

\* The marker is the id of the last flavor of the page.
IsMarker(P, f) == \A g \in P : g <= f

NextPage ==
  /\ step = "flavors"
  /\ \E P \in SUBSET After(marker) :
       /\ IsPage(P)
       /\ fetched' = [f \in DOMAIN fetched \cup P |-> IF f \in P THEN catalog[f] ELSE fetched[f]]
       /\ \/ IsLastPage(P) /\ step' = "zones" /\ UNCHANGED marker
          \/ /\ ~IsLastPage(P) /\ UNCHANGED step
             /\ \E f \in P : IsMarker(P, f) /\ marker' = f
  /\ UNCHANGED <<cloud, zones, throughout, stored, cache, unavailable>>

FetchZones ==
  /\ step = "zones"
  /\ step' = "store" /\ zones' = azs
  /\ UNCHANGED <<cloud, marker, fetched, throughout, stored, cache, unavailable>>

\* A call fails: nothing is stored, and the controller starts over after a delay.
RefreshFails ==
  /\ step \in {"flavors", "zones"}
  /\ step' = "idle" /\ marker' = 0 /\ fetched' = Nothing /\ throughout' = {}
  /\ UNCHANGED <<cloud, zones, stored, cache, unavailable>>

-----------------------------------------------------------------------------
(* Refresh: the update under the lock *)

\* A status nobody knows is open, too.
Open(status) == status \notin {"abandon", "sellout", "obt_sellout"}

\* resolveOfferingZones: a zone's own status wins over the flavor's.
StatusIn(entry, z) == IF entry.az[z] # NoOverride THEN entry.az[z] ELSE entry.status

OfferingZones(entry, universe) == {z \in universe : Open(StatusIn(entry, z))}

\* The listed zones, and those the flavors mention.
Universe(flavors, listed) ==
  listed \cup {z \in Zone : \E f \in DOMAIN flavors : flavors[f].az[z] # NoOverride}

\* Leaves out the flavors that mention no zone.
OfferingsOfMentioned(flavors, listed) ==
  [f \in {g \in DOMAIN flavors : \E z \in Zone : flavors[g].az[z] # NoOverride} |->
     OfferingZones(flavors[f], Universe(flavors, listed))]

AllOfferings(flavors, listed) ==
  [f \in DOMAIN flavors |-> OfferingZones(flavors[f], Universe(flavors, listed))]

\* A provider that trusts its flavors to tell everything about a change.
FlushedForFlavors(flavors, newOfferings) ==
  IF seenInfo # flavors THEN [k \in Config |-> Absent] ELSE cache

\* The cache is flushed when either differs from what the monitor remembers.
Flushed(flavors, newOfferings) ==
  IF seenInfo # flavors \/ seenOfferings # newOfferings THEN [k \in Config |-> Absent] ELSE cache

\* updateInstanceTypesLocked, then updateInstanceTypeOfferingsLocked.
Store ==
  /\ step = "store"
  /\ LET newOfferings == AllOfferings(fetched, zones)
     IN  /\ cache' = Flushed(fetched, newOfferings)
         /\ info' = fetched /\ seenInfo' = fetched
         /\ offerings' = newOfferings /\ seenOfferings' = newOfferings
  /\ step' = "idle" /\ marker' = 0 /\ fetched' = Nothing /\ zones' = {} /\ throughout' = {}
  /\ UNCHANGED <<cloud, unavailable>>

-----------------------------------------------------------------------------
(* List *)

Resolve(f, k) == [flavor |-> f, entry |-> info[f], zones |-> offerings[f], config |-> k]

Resolved(k) == {Resolve(f, k) : f \in DOMAIN info}

\* List fills the cache on a miss; without flavors it fails before it looks.
ListMiss(k) ==
  /\ DOMAIN info # {}
  /\ cache[k] = Absent
  /\ cache' = [cache EXCEPT ![k] = Resolved(k)]
  /\ UNCHANGED <<cloud, fetch, stored, unavailable>>

\* A type without zones of its own is offered wherever any is.
AvailableOrAllZones(it) ==
  IF it.zones # {} THEN it.zones ELSE UNION {offerings[f] : f \in DOMAIN offerings}

\* createOfferings: a type resolved without zones has no zone requirement, and
\* the stored zones decide; all zones, only if none are stored for its name.
AvailableZones(it) ==
  IF it.zones # {} THEN it.zones
  ELSE IF it.flavor \in DOMAIN offerings THEN offerings[it.flavor]
  ELSE UNION {offerings[f] : f \in DOMAIN offerings}

Offer(f, Z) == {[zone |-> z, available |-> <<f, z>> \notin unavailable] : z \in Z}

\* What List answers now.
List(k) ==
  {[type |-> it, offerings |-> Offer(it.flavor, AvailableZones(it))] :
     it \in IF DOMAIN info = {} THEN {} ELSE IF cache[k] # Absent THEN cache[k] ELSE Resolved(k)}

-----------------------------------------------------------------------------
(* Expiries, launches and the cloud *)

CacheExpires(k) ==
  /\ cache[k] # Absent
  /\ cache' = [cache EXCEPT ![k] = Absent]
  /\ UNCHANGED <<cloud, fetch, stored, unavailable>>

\* The monitor forgets a value a day after it last saw it change.
MonitorForgets ==
  /\ \/ seenInfo # Absent /\ seenInfo' = Absent /\ UNCHANGED seenOfferings
     \/ seenOfferings # Absent /\ seenOfferings' = Absent /\ UNCHANGED seenInfo
  /\ UNCHANGED <<cloud, fetch, info, offerings, cache, unavailable>>

\* A launch is refused an offering, or a mark ends.
MarkChanges(o) ==
  /\ unavailable' \in {unavailable \cup {o}, unavailable \ {o}}
  /\ UNCHANGED <<cloud, fetch, stored, cache>>

\* The cloud lists, changes or withdraws a flavor.
FlavorChanges(f) ==
  /\ \E F \in {DOMAIN catalog \cup {f}, DOMAIN catalog \ {f}}, e \in Entries :
       catalog' = [g \in F |-> IF g = f THEN e ELSE catalog[g]]
  /\ throughout' = throughout \cap DOMAIN catalog'
  /\ UNCHANGED <<azs, step, marker, fetched, zones, stored, cache, unavailable>>

ZonesChange ==
  /\ azs' \in ZoneLists
  /\ UNCHANGED <<catalog, fetch, stored, cache, unavailable>>

Next ==
  \/ Start \/ NextPage \/ FetchZones \/ RefreshFails \/ Store
  \/ \E k \in Config : ListMiss(k) \/ CacheExpires(k)
  \/ MonitorForgets
  \/ \E f \in Flavor : FlavorChanges(f)
  \/ \E o \in Tried : MarkChanges(o)
  \/ ZonesChange

Spec == Init /\ [][Next]_vars

\* The controller refreshes again and again, and a call that is made again and
\* again succeeds.
Fairness ==
  /\ WF_vars(Start) /\ WF_vars(Store)
  /\ \A m \in Flavor \cup {0} : SF_vars(NextPage /\ marker = m)
  /\ SF_vars(FetchZones)

FairSpec == Spec /\ Fairness

-----------------------------------------------------------------------------
(* Properties *)

\* What List answers never depends on whether it finds its answer cached: the
\* cache holds what would be resolved now, although refreshes replace what it
\* was resolved from, and marks are looked up outside of it ("None of the
\* cached instance type info is valid when the instance type info changes").
CacheIsTransparent ==
  \A k \in Config :
    List(k) = {[type |-> Resolve(f, k), offerings |-> Offer(f, offerings[f])] : f \in DOMAIN info}

\* No launch and no scheduling round is offered a flavor in a zone where the
\* stored flavor is sold out or abandoned, by the flavor's own status or the
\* zone's, be the flavor sold out everywhere or only there.
SoldOutIsNotOffered ==
  \A k \in Config : \A t \in List(k) : \A o \in t.offerings :
    Open(StatusIn(info[t.type.flavor], o.zone))

\* A fetch loses no flavor: one that the cloud listed from the first page's
\* request on is among what is stored, whatever came and went between pages.
FetchIsComplete == step \in {"zones", "store"} => throughout \subseteq DOMAIN fetched

\* Once the cloud stops changing, List comes to answer what it lists, for good.
CatalogReachesList ==
  <>[][FALSE]_cloud =>
    <>[](\A k \in Config :
           List(k) = {[type |-> [flavor |-> f, entry |-> catalog[f],
                                 zones |-> AllOfferings(catalog, azs)[f], config |-> k],
                       offerings |-> Offer(f, AllOfferings(catalog, azs)[f])] : f \in DOMAIN catalog})
=============================================================================
