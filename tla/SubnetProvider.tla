--------------------------- MODULE SubnetProvider ---------------------------
(***************************************************************************)
(* The subnet provider (src/pkg/providers/subnet/subnet.go).               *)
(*                                                                         *)
(* One DefaultProvider is shared by every reconciling goroutine.  It keeps *)
(* two TTL caches (the subnets a NodeClass selects, and the number of free *)
(* IP addresses the VPC reported per subnet) and inflightIPs, a map from a *)
(* subnet to the number of addresses left once the reservations of the     *)
(* running node creations are deducted.  Every method holds the provider's *)
(* mutex, so each is one atomic action; what is interesting is how the     *)
(* methods of different goroutines and the cache expiries interleave.      *)
(*                                                                         *)
(* Simplifications: capacity types are left out (createOfferings makes     *)
(* only on-demand offerings); a subnet keeps its name; one ListSubnets     *)
(* page holds every subnet (the code asks for 500 and never for a second   *)
(* page); the order of Status.Subnets is an input.  A List that hits its   *)
(* cache, that has no selector term or whose API call fails changes no     *)
(* provider state, and neither does a SelectForLaunch without subnets:     *)
(* these calls are stuttering steps.                                       *)
(***************************************************************************)
EXTENDS Integers, Sequences, FiniteSetsExt

CONSTANTS
  Subnet,      \* ids of the VPC's subnets
  SubnetName,  \* SubnetName[s]: the name of subnet s
  Key,         \* cache keys: one per UID and generation of a NodeClass
  Terms,       \* Terms[k]: the SubnetSelectorTerms of that NodeClass generation
  Call,        \* goroutines that create a node
  Requests,    \* arguments a SelectForLaunch call may be made with
  Zone,        \* availability zones
  MaxIPs,      \* bound: largest number of free addresses of a subnet
  MaxPods,     \* bound: largest pod capacity of an instance type
  Absent       \* no entry in a map or a cache, or an empty selector field

\* An instance type as SelectForLaunch sees it: its pod capacity, the zones of
\* its offerings, and the zones whose offering is available.
InstanceType == [pods : 0..MaxPods, zones : SUBSET Zone, available : SUBSET Zone]

Request == [status : Seq(Subnet), types : SUBSET InstanceType]

ASSUME AbsentAssumption == Absent \notin Subnet /\ Absent \notin Int
ASSUME BoundsAssumption == MaxIPs \in Nat /\ MaxPods \in Nat
ASSUME RequestsAssumption == Requests \subseteq Request

VARIABLES
  vpc,           \* the cloud's own count of free addresses per subnet
  cache,         \* per key: the listed subnets, or Absent
  availableIPs,  \* availableIPAddressCache: the count last listed, or Absent
  inflightIPs,   \* count left after the running reservations, or Absent
  held           \* per call: the subnet.Subnet SelectForLaunch returned to it

vars == <<vpc, cache, availableIPs, inflightIPs, held>>

NoReservation == [subnet |-> Absent, ips |-> 0]

TypeOK ==
  /\ vpc \in [Subnet -> 0..MaxIPs]
  /\ cache \in [Key -> (SUBSET Subnet) \cup {Absent}]
  /\ availableIPs \in [Subnet -> Nat \cup {Absent}]
  /\ inflightIPs \in [Subnet -> Int \cup {Absent}]
  /\ held \in [Call -> [subnet : Subnet \cup {Absent}, ips : Nat]]

Init ==
  /\ vpc \in [Subnet -> 0..MaxIPs]
  /\ cache = [k \in Key |-> Absent]
  /\ availableIPs = [s \in Subnet |-> Absent]
  /\ inflightIPs = [s \in Subnet |-> Absent]
  /\ held = [c \in Call |-> NoReservation]

-----------------------------------------------------------------------------
(* List *)

\* id and name of a term are both required when both are set; an empty term
\* matches nothing.
MatchesTerm(s, term) ==
  /\ term.id # Absent \/ term.name # Absent
  /\ term.id \in {Absent, s}
  /\ term.name \in {Absent, SubnetName[s]}

Matching(k) == {s \in Subnet : \E term \in Terms[k] : MatchesTerm(s, term)}

\* A refresh that leaves the reservations made before it in the map.
ListRefreshKeepsTracking(k) ==
  /\ Terms[k] # {}
  /\ cache[k] = Absent
  /\ cache' = [cache EXCEPT ![k] = Matching(k)]
  /\ availableIPs' = [s \in Subnet |-> IF s \in Matching(k) THEN vpc[s] ELSE availableIPs[s]]
  /\ UNCHANGED <<vpc, inflightIPs, held>>

\* A refresh that keeps one address back for the gateway.
ListRefreshLessGateway(k) ==
  /\ Terms[k] # {}
  /\ cache[k] = Absent
  /\ cache' = [cache EXCEPT ![k] = Matching(k)]
  /\ availableIPs' = [s \in Subnet |-> IF s \in Matching(k) THEN vpc[s] - 1 ELSE availableIPs[s]]
  /\ inflightIPs' = [s \in Subnet |-> IF s \in Matching(k) THEN Absent ELSE inflightIPs[s]]
  /\ UNCHANGED <<vpc, held>>

\* List on a cache miss: the counts of every matching subnet are overwritten
\* and what was tracked in flight for it is dropped.
ListRefresh(k) ==
  /\ Terms[k] # {}
  /\ cache[k] = Absent
  /\ cache' = [cache EXCEPT ![k] = Matching(k)]
  /\ availableIPs' = [s \in Subnet |-> IF s \in Matching(k) THEN vpc[s] ELSE availableIPs[s]]
  /\ inflightIPs' = [s \in Subnet |-> IF s \in Matching(k) THEN Absent ELSE inflightIPs[s]]
  /\ UNCHANGED <<vpc, held>>

-----------------------------------------------------------------------------
(* SelectForLaunch *)

\* The addresses SelectForLaunch believes subnet s has: the tracked count
\* wins over the listed one, and a count that expired reads as zero.
Effective(s) ==
  IF inflightIPs[s] # Absent THEN inflightIPs[s]
  ELSE IF availableIPs[s] # Absent THEN availableIPs[s] ELSE 0

\* The scan keeps the first subnet whose count no other subnet exceeds.
IsSelected(status, i) ==
  \A j \in DOMAIN status :
    \/ Effective(status[j]) < Effective(status[i])
    \/ Effective(status[j]) = Effective(status[i]) /\ i <= j

\* The smallest pod capacity among the types with an available offering in z.
MinPods(types, z) ==
  LET pods == {t.pods : t \in {u \in types : z \in u.available}}
  IN  IF pods = {} THEN 0 ELSE CHOOSE m \in pods : \A n \in pods : m <= n

OfferingZones(types) == UNION {t.zones : t \in types}

\* A prediction that adds the zones up.
PredictedOverAllZones(types) ==
  MapThenSumSet(LAMBDA z : MinPods(types, z), OfferingZones(types))

\* The largest of these over the zones of the offerings, 0 without zones.
PredictedIPs(types) ==
  LET predicted == {0} \cup {MinPods(types, z) : z \in OfferingZones(types)}
  IN  CHOOSE m \in predicted : \A n \in predicted : n <= m

\* A reservation that forgets the ones already deducted.
ReservedFromBaseline(s, n) ==
  IF n = 0 THEN inflightIPs[s]
  ELSE (IF availableIPs[s] # Absent THEN availableIPs[s] ELSE 0) - n

\* The tracked count of s once n more addresses are reserved.
AfterReserve(s, n) == IF n = 0 THEN inflightIPs[s] ELSE Effective(s) - n

SelectForLaunch(c, r) ==
  /\ held[c].ips = 0
  /\ \E i \in DOMAIN r.status :
       LET s == r.status[i]
           n == PredictedIPs(r.types)
       IN  /\ IsSelected(r.status, i)
           /\ inflightIPs' = [inflightIPs EXCEPT ![s] = AfterReserve(s, n)]
           /\ held' = [held EXCEPT ![c] = [subnet |-> s, ips |-> n]]
  /\ UNCHANGED <<vpc, cache, availableIPs>>

-----------------------------------------------------------------------------
(* ReleaseInflightIPs *)

\* A release that gives back one address of the reservation.
ReleasedPartially(s, n) ==
  LET updated == inflightIPs[s] + 1
  IN  IF inflightIPs[s] = Absent THEN Absent
      ELSE IF availableIPs[s] # Absent /\ updated >= availableIPs[s] THEN Absent
      ELSE updated

\* The tracked count of s once n addresses are given back: no entry stays no
\* entry, and one that reaches the cached baseline is removed.
AfterRelease(s, n) ==
  LET updated == inflightIPs[s] + n
  IN  IF inflightIPs[s] = Absent THEN Absent
      ELSE IF availableIPs[s] # Absent /\ updated >= availableIPs[s] THEN Absent
      ELSE updated

\* Create defers this call, so it runs once per successful SelectForLaunch; the
\* reservation is zeroed, which makes a second call a no-op.
ReleaseInflightIPs(c) ==
  /\ held[c].ips # 0
  /\ inflightIPs' = [inflightIPs EXCEPT ![held[c].subnet] =
                       AfterRelease(held[c].subnet, held[c].ips)]
  /\ held' = [held EXCEPT ![c] = NoReservation]
  /\ UNCHANGED <<vpc, cache, availableIPs>>

-----------------------------------------------------------------------------
(* The caches' janitors and the cloud *)

CacheExpires(k) ==
  /\ cache[k] # Absent
  /\ cache' = [cache EXCEPT ![k] = Absent]
  /\ UNCHANGED <<vpc, availableIPs, inflightIPs, held>>

\* A count lives five minutes and the listing stored with it one, so a count
\* expires only when no listing that holds its subnet is cached any more.
AvailableIPsExpire(s) ==
  /\ availableIPs[s] # Absent
  /\ \A k \in Key : cache[k] # Absent => s \notin cache[k]
  /\ availableIPs' = [availableIPs EXCEPT ![s] = Absent]
  /\ UNCHANGED <<vpc, cache, inflightIPs, held>>

\* Nodes, pods and other users of the VPC take and return addresses.
VPCChanges(s, n) ==
  /\ vpc' = [vpc EXCEPT ![s] = n]
  /\ UNCHANGED <<cache, availableIPs, inflightIPs, held>>

Next ==
  \/ \E k \in Key : ListRefresh(k) \/ CacheExpires(k)
  \/ \E c \in Call, r \in Requests : SelectForLaunch(c, r)
  \/ \E c \in Call : ReleaseInflightIPs(c)
  \/ \E s \in Subnet : AvailableIPsExpire(s) \/ \E n \in 0..MaxIPs : VPCChanges(s, n)

Spec == Init /\ [][Next]_vars

\* The NodeClass controller asks for the list every minute, a cache entry
\* lives one minute, and Create releases on every return path.
Fairness ==
  /\ \A k \in Key : WF_vars(ListRefresh(k)) /\ WF_vars(CacheExpires(k))
  /\ \A c \in Call : WF_vars(ReleaseInflightIPs(c))

-----------------------------------------------------------------------------
(* Properties *)

\* A tracked count is always below the baseline it was deducted from: an entry
\* that reached the baseline would hide the listed count until the next
\* refresh (the delete in ReleaseInflightIPs and in List).
TrackedBelowBaseline ==
  \A s \in Subnet :
    inflightIPs[s] # Absent /\ availableIPs[s] # Absent => inflightIPs[s] < availableIPs[s]

\* To the goroutine that launches a node the provider is a SubnetContract: one
\* reservation at a time, of a subnet and of at most one instance type's pods,
\* which only its own release takes away.
Contract == INSTANCE SubnetContract

ImplementsContract == Contract!Spec
=============================================================================
