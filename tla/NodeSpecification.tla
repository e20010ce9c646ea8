------------------------- MODULE NodeSpecification -------------------------
(***************************************************************************)
(* From a CCENodeClass to a node.  Four parts of the program read the same *)
(* specification and have to agree on what it means:                       *)
(*                                                                         *)
(*  - the resolver promises the scheduler what a node will offer           *)
(*    (src/pkg/providers/instancetype/types.go), and caches the promise    *)
(*    under a key made of the settings it depends on;                      *)
(*  - the validation decides whether a node may be asked for               *)
(*    (src/pkg/apis/v1alpha1/ccenodeclass.go and                           *)
(*    src/pkg/providers/instance/instance.go);                             *)
(*  - the instance provider translates it into a CreateNode request        *)
(*    (instance.go), filling in defaults;                                  *)
(*  - the hash of its normal form (ccenodeclass.go) says later whether a   *)
(*    node still is what the specification asks for.                       *)
(*                                                                         *)
(* Simplifications: one node at a time, made from one specification and    *)
(* compared with later ones; while it is there, calls on behalf of others  *)
(* are left out.  Taints are in UnregisteredTaint, subnets and the races   *)
(* around annotations in NodeClassLifecycle and NodeClassHash.  A hash is  *)
(* what it is computed from.  Throughput is treated everywhere as IOPS is  *)
(* and left out.  A maximum width of integers, and the units of            *)
(* quantities, are parameters.                                             *)
(***************************************************************************)
EXTENDS Capacity, Sequences, Functions

CONSTANTS
  Unset,          \* an absent pointer, map entry or an empty string
  Family, Group, SSHKey, Password, VolumeType,
  SSD,            \* the volume type of volumes that name none
  Specs,          \* specifications a CCENodeClass may be stored with
  Flavor,
  CPU, Memory,    \* Memory[f] in MiB, CPU[f] in millicores
  NICs,           \* NICs[f]: network interfaces, 0 where the flavor does not say
  Fraction,       \* smallest parts of a quantity in one base unit of its resource
  Base,           \* Base[r]: base units in the unit CreateNode takes r in
  MaxCreateNodeInt

Resource == {"cpu", "memory", "ephemeral-storage", "pid"}

RuntimeType == {"docker", "containerd"}

ASSUME UnitAssumption ==
  /\ Fraction \in Nat \ {0} /\ Base \in [Resource -> Nat \ {0}] /\ MaxCreateNodeInt \in Nat

ASSUME FlavorAssumption ==
  CPU \in [Flavor -> Nat] /\ Memory \in [Flavor -> Nat] /\ NICs \in [Flavor -> Nat]

-----------------------------------------------------------------------------
(* Specifications *)

Optional(S) == S \cup {Unset}

Volume == [size : Int, type : Optional(VolumeType), iops : Optional(Int)]

\* A quantity in smallest parts, and how it is written: as an integer (a whole
\* number of base units), in another form, or in one that cannot be parsed.
Amount == [form : {"integer", "suffixed", "malformed"}, value : Int]

ASSUME UnsetAssumption ==
  /\ Unset \notin Int \cup Family \cup Group \cup SSHKey \cup Password \cup VolumeType \cup RuntimeType
  /\ Unset \notin Volume
  /\ SSD \in VolumeType

Credentials == [username : Optional({"root"}), password : Optional(Password)]

IsReservation(m) == \A r \in DOMAIN m : m[r] \in Amount

\* An absent kubelet configuration is an empty one: only the hash tells them
\* apart, and here it does not.
ASSUME SpecsAssumption ==
  \A s \in Specs :
    /\ s.ims \in Optional(Family) /\ s.group \in Optional(Group)
    /\ s.runtime \in Optional(RuntimeType)
    /\ s.sshKey \in Optional(SSHKey) /\ s.userPassword \in Optional(Credentials)
    /\ s.root \in Volume /\ s.k8s \in Optional(Volume) /\ s.users \in Seq(Volume)
    /\ s.maxPods \in Optional(Int) /\ IsReservation(s.kube) /\ IsReservation(s.system)

Default(value, default) == IF value = Unset THEN default ELSE value

-----------------------------------------------------------------------------
(* The request (nodeSpecForCandidate) *)

ToCCEVolume(device) ==
  [size |-> IF device.size <= 0 THEN 40 ELSE device.size,
   type |-> Default(device.type, SSD), iops |-> device.iops]

\* The volume of the container runtime and kubelet, of 100 GiB and the root
\* volume's type unless the specification names one.
ManagedVolume(s) ==
  IF s.k8s = Unset THEN [size |-> 100, type |-> ToCCEVolume(s.root).type, iops |-> Unset]
  ELSE ToCCEVolume(s.k8s)

DataVolumes(s) == <<ManagedVolume(s)>> \o [i \in DOMAIN s.users |-> ToCCEVolume(s.users[i])]

\* resolveStorage: the labels by which the cloud finds the managed volume.
\* VolumeType and size always count, IOPS when the managed volume has them.
Matches(selector, volume) ==
  /\ volume.size = selector.size /\ volume.type = selector.type
  /\ selector.iops # Unset => volume.iops = selector.iops

Login(user, password, sshKey) == [user |-> user, password |-> password, sshKey |-> sshKey]

ResolveLogin(s) ==
  IF s.sshKey # Unset THEN Login(Unset, Unset, s.sshKey)
  ELSE IF s.userPassword = Unset \/ s.userPassword.password = Unset
  THEN Login(Unset, Unset, Unset)
  ELSE Login(Default(s.userPassword.username, "root"), s.userPassword.password, Unset)

\* MilliValue and Value round up to base units.
BaseValue(amount) == CeilDiv(amount.value, Fraction)

Converted(r, amount) == BaseValue(amount) \div Base[r]

\* A comparison with the rounded value only.
ExactInBaseUnits(r, amount) == BaseValue(amount) % Base[r] = 0

\* The value sent is the value written.
Exact(r, amount) ==
  /\ BaseValue(amount) % Base[r] = 0
  /\ Converted(r, amount) * Base[r] * Fraction = amount.value

\* parseReservedValues; process IDs are parsed as integers.
Reserved(m) == [r \in Resource |-> IF r \in DOMAIN m THEN Converted(r, m[r]) ELSE Unset]

Request(s) ==
  [os |-> s.ims, group |-> s.group, login |-> ResolveLogin(s), runtime |-> s.runtime,
   root |-> ToCCEVolume(s.root), data |-> DataVolumes(s), selector |-> ManagedVolume(s),
   maxPods |-> s.maxPods, kube |-> Reserved(s.kube), system |-> Reserved(s.system)]

-----------------------------------------------------------------------------
(* Validation *)

\* A check that only looks at a password that is there.
ValidPassword(s) == s.userPassword # Unset => s.userPassword.password # Unset

ValidLogin(s) ==
  /\ (s.userPassword = Unset) # (s.sshKey = Unset)
  /\ s.userPassword # Unset => s.userPassword.password # Unset

ValidForCreateNode(s) ==
  /\ ValidLogin(s)
  /\ s.root.size >= 40
  /\ s.k8s # Unset => s.k8s.size >= 20
  /\ \A i \in DOMAIN s.users : s.users[i].size >= 10

ValidReservation(m) ==
  \A r \in DOMAIN m :
    /\ r \in Resource
    /\ m[r].form # "malformed"
    /\ r = "pid" => m[r].form = "integer"
    /\ Exact(r, m[r])
    /\ Converted(r, m[r]) \in 0..MaxCreateNodeInt

ValidKubelet(s) ==
  /\ s.maxPods # Unset => s.maxPods \in 16..256
  /\ ValidReservation(s.kube) /\ ValidReservation(s.system)

\* The checks of CloudProvider.Create, before it lists instance types.
Accepted(s) == s.ims # Unset /\ ValidForCreateNode(s) /\ ValidKubelet(s)

-----------------------------------------------------------------------------
(* The promise (Resolve) *)

NormalizedRuntimeType(runtime) == Default(runtime, "containerd")

PerPodMemoryMiB(runtime) == IF runtime = "docker" THEN 20 ELSE 5

\* What CCE reserves on a node of flavor f, in smallest parts.
KubeReservedDefault(f, runtime) ==
  [r \in Resource |->
     IF r = "cpu" THEN KubeReservedCPU(CPU[f]) * Base[r] * Fraction
     ELSE IF r = "memory"
     THEN KubeReservedMemoryMiB(Memory[f], PerPodMemoryMiB(runtime)) * Base[r] * Fraction
     ELSE Unset]

SystemReservedDefault(f) ==
  [r \in Resource |-> IF r = "memory" THEN SystemReservedMemoryMiB(Memory[f]) * Base[r] * Fraction
                      ELSE Unset]

\* The reservations of the NodeClass replace the defaults.
Assigned(default, m) == [r \in Resource |-> IF r \in DOMAIN m THEN m[r].value ELSE default[r]]

StoragePromised(s) ==
  EphemeralStorage(IF s.k8s # Unset /\ s.k8s.size > 0 THEN s.k8s.size ELSE 100)

Resolve(s, f) ==
  [pods |-> Default(s.maxPods, DefaultMaxPods(Memory[f], NICs[f])),
   storage |-> StoragePromised(s),
   kube |-> Assigned(KubeReservedDefault(f, NormalizedRuntimeType(s.runtime)), s.kube),
   system |-> Assigned(SystemReservedDefault(f), s.system)]

-----------------------------------------------------------------------------
(* Keys and hashes *)

\* The hash of a slice that is taken for a set adds its members up by exclusive
\* or: what is there twice leaves no trace.
SetHash(seq) ==
  {v \in Range(seq) : Cardinality({i \in DOMAIN seq : seq[i] = v}) % 2 = 1}

CacheKey(s) ==
  [maxPods |-> s.maxPods, kube |-> s.kube, system |-> s.system,
   runtime |-> NormalizedRuntimeType(s.runtime),
   root |-> s.root, k8s |-> s.k8s, users |-> SetHash(s.users)]

NormalizeBlockDevice(device) ==
  [size |-> IF device.size <= 0 THEN 40 ELSE device.size,
   type |-> Default(device.type, SSD), iops |-> Default(device.iops, 0)]

NormalizedLogin(s) ==
  IF s.sshKey # Unset THEN Login(Unset, Unset, s.sshKey)
  ELSE IF s.userPassword = Unset THEN Login(Unset, Unset, Unset)
  ELSE Login(Default(s.userPassword.username, "root"), s.userPassword.password, Unset)

NormalizedUsers(s) == [i \in DOMAIN s.users |-> NormalizeBlockDevice(s.users[i])]

\* A hash that forgets the volume of the runtime and kubelet.
HashWithoutK8S(s) ==
  [group |-> s.group, maxPods |-> s.maxPods, kube |-> s.kube, system |-> s.system,
   ims |-> s.ims, runtime |-> NormalizedRuntimeType(s.runtime), login |-> NormalizedLogin(s),
   root |-> NormalizeBlockDevice(s.root), users |-> SetHash(NormalizedUsers(s))]

Hash(s) ==
  [group |-> s.group, maxPods |-> s.maxPods, kube |-> s.kube, system |-> s.system,
   ims |-> s.ims, runtime |-> NormalizedRuntimeType(s.runtime), login |-> NormalizedLogin(s),
   root |-> NormalizeBlockDevice(s.root),
   k8s |-> IF s.k8s = Unset THEN Unset ELSE NormalizeBlockDevice(s.k8s),
   users |-> SetHash(NormalizedUsers(s))]

-----------------------------------------------------------------------------
(* The node *)

VARIABLES
  spec,    \* the stored specification
  cached,  \* the cached instance types: their key and one type for each flavor
  node     \* the node: its flavor, the type promised, the request, its hash annotation

vars == <<spec, cached, node>>

NoTypes == [key |-> Unset, types |-> Unset]
NoNode == [flavor |-> Unset, type |-> Unset, request |-> Unset, hash |-> Unset, built |-> Unset]

\* A request that CreateNode takes: an operating system, one way to log in, and
\* numbers in their ranges.
WellFormed(request) ==
  /\ request.os \in Family
  /\ (request.login.password = Unset) # (request.login.sshKey = Unset)
  /\ request.maxPods \in Optional(16..256)
  /\ \A r \in Resource :
       {request.kube[r], request.system[r]} \subseteq Optional(0..MaxCreateNodeInt)
  /\ request.root.size >= 40
  /\ \A v \in Range(request.data) : v.size >= 10 /\ v.type \in VolumeType

TypeOK ==
  /\ spec \in Specs
  /\ cached = NoTypes \/ \E s \in Specs : cached.key = CacheKey(s)
  /\ \/ node = NoNode
     \/ node.flavor \in Flavor /\ node.built \in Specs /\ WellFormed(node.request)

Init ==
  /\ spec \in Specs
  /\ cached = NoTypes
  /\ node = NoNode

EditSpec ==
  /\ \E s \in Specs \ {spec} : spec' = s
  /\ UNCHANGED <<cached, node>>

\* List: the types cached under the key, or else those resolved now.  One entry
\* is kept: that others are still there makes no difference.
List ==
  IF cached # NoTypes /\ cached.key = CacheKey(spec) THEN cached.types
  ELSE [f \in Flavor |-> Resolve(spec, f)]

\* The scheduler asks for the types before anything is checked.  A reservation that
\* cannot be parsed is a panic in Resolve, and nothing is stored.
GetInstanceTypes ==
  /\ node = NoNode
  /\ \A m \in {spec.kube, spec.system} : \A r \in DOMAIN m : m[r].form # "malformed"
  /\ cached' = [key |-> CacheKey(spec), types |-> List]
  /\ UNCHANGED <<spec, node>>

\* CloudProvider.Create, of a candidate of flavor f: the NodeClaim gets the hash
\* of the specification, and the capacity of the listed type.
Create(f) ==
  /\ node = NoNode
  /\ Accepted(spec)
  /\ cached' = [key |-> CacheKey(spec), types |-> List]
  /\ node' = [flavor |-> f, type |-> List[f], request |-> Request(spec), hash |-> Hash(spec),
              built |-> spec]
  /\ UNCHANGED spec

\* The entry's time to live ends, or a refresh flushes the cache.
TypesExpire ==
  /\ cached # NoTypes
  /\ cached' = NoTypes
  /\ UNCHANGED <<spec, node>>

NodeTerminated ==
  /\ node # NoNode
  /\ node' = NoNode
  /\ UNCHANGED <<spec, cached>>

Next ==
  \/ EditSpec \/ GetInstanceTypes \/ TypesExpire \/ NodeTerminated
  \/ \E f \in Flavor : Create(f)

Spec == Init /\ [][Next]_vars

-----------------------------------------------------------------------------
(* What the cloud makes of a request *)

Delivered(default, asked, r) ==
  IF asked[r] = Unset THEN default[r] ELSE asked[r] * Base[r] * Fraction

\* IOPS of zero are no IOPS, and the order of volumes does not matter.
EffectiveVolume(v) == [size |-> v.size, type |-> v.type, iops |-> Default(v.iops, 0)]

Effective(request) ==
  [os |-> request.os, group |-> request.group, login |-> request.login,
   runtime |-> NormalizedRuntimeType(request.runtime), root |-> EffectiveVolume(request.root),
   data |-> {EffectiveVolume(v) : v \in Range(request.data)},
   selector |-> EffectiveVolume(request.selector), maxPods |-> request.maxPods,
   kube |-> request.kube, system |-> request.system]

-----------------------------------------------------------------------------
(* Properties *)

\* A node offers exactly what the scheduler was promised of it, although promise
\* and request are computed in different places from different forms of the
\* specification, and the promise may come from a cache: its pods; what is
\* reserved on it, to the last fraction of the quantity written; and the storage
\* of whichever volume the storage selector takes.
PromiseKept ==
  node # NoNode =>
    LET request == node.request
        runtime == NormalizedRuntimeType(request.runtime)
        attached == Range(request.data)
    IN  /\ node.type.pods
             = Default(request.maxPods, DefaultMaxPods(Memory[node.flavor], NICs[node.flavor]))
        /\ \A r \in Resource :
             /\ node.type.kube[r] = Delivered(KubeReservedDefault(node.flavor, runtime), request.kube, r)
             /\ node.type.system[r] = Delivered(SystemReservedDefault(node.flavor), request.system, r)
        /\ \E v \in attached : Matches(request.selector, v)
        /\ \A v \in attached :
             Matches(request.selector, v) => node.type.storage = EphemeralStorage(v.size)

\* No two of the user volumes are alike.
Distinct(s) ==
  \A i, j \in DOMAIN s.users :
    NormalizeBlockDevice(s.users[i]) = NormalizeBlockDevice(s.users[j]) => i = j

\* No edit that changes what a node would be goes unnoticed: a node whose hash
\* is that of the stored specification is the node that Create would ask for
\* now, but for subnets, flavor and taints.  Two user volumes that are alike
\* cancel out in the hash, and such specifications are excepted.
DriftIsComplete ==
  (node # NoNode /\ Distinct(node.built) /\ Distinct(spec) /\ Accepted(spec)
     /\ node.hash = Hash(spec)) =>
    Effective(node.request) = Effective(Request(spec))
=============================================================================
