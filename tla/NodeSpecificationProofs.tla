---------------------- MODULE NodeSpecificationProofs ----------------------
(***************************************************************************)
(* For every set of specifications, flavors and units: a node is what the  *)
(* scheduler was promised, and as long as its hash is that of the stored   *)
(* specification it is what Create would ask for now.                      *)
(*                                                                         *)
(* The inductive invariant says that a node carries the request, the hash  *)
(* and the promise of one accepted specification, and the cache the types  *)
(* of one under its key.  What remains is about the translations alone:    *)
(* that equal keys have equal types, that a reservation that is accepted   *)
(* is sent exactly, and that the normal form the hash is made of fills in  *)
(* the same defaults as the request.                                       *)
(*                                                                         *)
(* Then what the numbers of a promise are, for every flavor and volume:    *)
(* theorems about Capacity.                                                *)
(*                                                                         *)
(* Then the other half of drift, the annotations the hashes travel in:     *)
(* theorems about NodeClassHash, for every set of NodeClaims, every build  *)
(* before and any number of edits.                                         *)
(***************************************************************************)
EXTENDS NodeSpecification, NodeClassHash, FiniteSetTheorems, TLAPS

IInv ==
  /\ spec \in Specs
  /\ cached # NoTypes =>
       \E s \in Specs : /\ cached.key = CacheKey(s)
                        /\ cached.types = [f \in Flavor |-> Resolve(s, f)]
  /\ node # NoNode =>
       /\ node.flavor \in Flavor /\ node.built \in Specs /\ Accepted(node.built)
       /\ node.request = Request(node.built)
       /\ node.hash = Hash(node.built)
       /\ node.type = Resolve(node.built, node.flavor)

-----------------------------------------------------------------------------
(* The cache key *)

\* Instance types depend on nothing but what their cache key is made of.
LEMMA KeyIsComplete ==
  ASSUME NEW a \in Specs, NEW b \in Specs, CacheKey(a) = CacheKey(b), NEW f \in Flavor
  PROVE  Resolve(a, f) = Resolve(b, f)
<1>1. /\ a.maxPods = b.maxPods /\ a.kube = b.kube /\ a.system = b.system /\ a.k8s = b.k8s
      /\ NormalizedRuntimeType(a.runtime) = NormalizedRuntimeType(b.runtime)
  BY DEF CacheKey
<1>2. StoragePromised(a) = StoragePromised(b)
  BY <1>1 DEF StoragePromised
<1> QED BY <1>1, <1>2 DEF Resolve

\* What List answers is what is resolved for the stored specification.
LEMMA ListResolves ==
  ASSUME IInv PROVE List = [f \in Flavor |-> Resolve(spec, f)]
<1>1. CASE cached # NoTypes /\ cached.key = CacheKey(spec)
  <2>1. PICK s \in Specs : /\ cached.key = CacheKey(s)
                           /\ cached.types = [f \in Flavor |-> Resolve(s, f)]
    BY <1>1 DEF IInv
  <2>2. ASSUME NEW f \in Flavor PROVE Resolve(s, f) = Resolve(spec, f)
    <3>1. spec \in Specs /\ CacheKey(s) = CacheKey(spec)
      BY <1>1, <2>1 DEF IInv
    <3> QED BY <3>1, KeyIsComplete
  <2>3. [f \in Flavor |-> Resolve(s, f)] = [f \in Flavor |-> Resolve(spec, f)]
    BY <2>2
  <2> QED BY <1>1, <2>1, <2>3 DEF List
<1>2. CASE ~(cached # NoTypes /\ cached.key = CacheKey(spec))
  BY <1>2 DEF List
<1> QED BY <1>1, <1>2

LEMMA Initial == Init => IInv
BY DEF Init, IInv

LEMMA Step == IInv /\ [Next]_vars => IInv'
<1> SUFFICES ASSUME IInv, [Next]_vars PROVE IInv'
  OBVIOUS
<1>1. CASE EditSpec
  BY <1>1 DEF IInv, EditSpec
<1>2. CASE TypesExpire
  BY <1>2 DEF IInv, TypesExpire
<1>3. CASE NodeTerminated
  BY <1>3 DEF IInv, NodeTerminated
<1>4. ASSUME NEW f \in Flavor, Create(f) PROVE IInv'
  <2>1. List = [g \in Flavor |-> Resolve(spec, g)]
    BY ListResolves
  <2>2. spec' = spec /\ spec \in Specs /\ Accepted(spec)
    BY <1>4 DEF Create, IInv
  <2>3. cached'.key = CacheKey(spec) /\ cached'.types = [g \in Flavor |-> Resolve(spec, g)]
    BY <1>4, <2>1 DEF Create
  <2>4. /\ node'.flavor = f /\ node'.built = spec /\ node'.request = Request(spec)
        /\ node'.hash = Hash(spec) /\ node'.type = Resolve(spec, f)
    BY <1>4, <2>1 DEF Create
  <2> QED BY <2>2, <2>3, <2>4 DEF IInv
<1>5. CASE GetInstanceTypes
  <2>1. List = [g \in Flavor |-> Resolve(spec, g)]
    BY ListResolves
  <2>2. cached'.key = CacheKey(spec) /\ cached'.types = [g \in Flavor |-> Resolve(spec, g)]
    BY <1>5, <2>1 DEF GetInstanceTypes
  <2> QED BY <1>5, <2>2 DEF GetInstanceTypes, IInv
<1>6. CASE UNCHANGED vars
  BY <1>6 DEF IInv, vars
<1> QED BY <1>1, <1>2, <1>3, <1>4, <1>5, <1>6 DEF Next
-----------------------------------------------------------------------------
(* The request *)

LEMMA SpecIsTyped ==
  ASSUME NEW s \in Specs
  PROVE  /\ s.root \in Volume
         /\ s.k8s # Unset => s.k8s \in Volume
         /\ s.users \in Seq(Volume) /\ IsReservation(s.kube) /\ IsReservation(s.system)
         /\ s.ims \in Optional(Family) /\ s.maxPods \in Optional(Int)
         /\ s.runtime \in Optional(RuntimeType)
         /\ s.sshKey \in Optional(SSHKey) /\ s.userPassword \in Optional(Credentials)
BY SpecsAssumption DEF Optional

\* Ceilings of quantities are natural numbers.
LEMMA CeilDivType ==
  ASSUME NEW a \in Int, NEW b \in Nat \ {0} PROVE CeilDiv(a, b) \in Nat
BY DEF CeilDiv

\* An accepted reservation is sent as the value that was written.
LEMMA SentExactly ==
  ASSUME NEW m, IsReservation(m), ValidReservation(m), NEW r \in DOMAIN m
  PROVE  /\ r \in Resource
         /\ Reserved(m)[r] \in 0..MaxCreateNodeInt
         /\ Reserved(m)[r] * Base[r] * Fraction = m[r].value
BY UnitAssumption DEF IsReservation, ValidReservation, Exact, Reserved

\* What is reserved on the node is what the type says, default or not.
LEMMA ReservationKept ==
  ASSUME NEW m, IsReservation(m), ValidReservation(m), NEW default, NEW r \in Resource
  PROVE  Assigned(default, m)[r] = Delivered(default, Reserved(m), r)
<1>1. CASE r \in DOMAIN m
  <2>1. /\ Reserved(m)[r] \in 0..MaxCreateNodeInt
        /\ Reserved(m)[r] * Base[r] * Fraction = m[r].value
    BY <1>1, SentExactly
  <2>2. Reserved(m)[r] # Unset
    BY <2>1, UnsetAssumption, UnitAssumption
  <2> QED BY <1>1, <2>1, <2>2 DEF Assigned, Delivered
<1>2. CASE r \notin DOMAIN m
  BY <1>2 DEF Assigned, Delivered, Reserved
<1> QED BY <1>1, <1>2

LEMMA AttachedVolumes ==
  ASSUME NEW s \in Specs
  PROVE  Range(DataVolumes(s))
           = {ManagedVolume(s)} \cup {ToCCEVolume(s.users[i]) : i \in DOMAIN s.users}
<1> DEFINE user == [i \in DOMAIN s.users |-> ToCCEVolume(s.users[i])]
<1>1. s.users \in Seq(Volume) /\ DOMAIN s.users = 1..Len(s.users) /\ Len(s.users) \in Nat
  BY SpecIsTyped
<1>2. user \in Seq(Range(user)) /\ Len(user) = Len(s.users) /\ DOMAIN user = DOMAIN s.users
  BY <1>1 DEF Range
<1>3. DataVolumes(s) = <<ManagedVolume(s)>> \o user
  BY DEF DataVolumes
<1>4. /\ DOMAIN DataVolumes(s) = 1..(Len(s.users) + 1)
      /\ \A i \in 1..(Len(s.users) + 1) :
           DataVolumes(s)[i] = IF i = 1 THEN ManagedVolume(s) ELSE user[i - 1]
  BY <1>1, <1>2, <1>3
<1>5. ASSUME NEW v \in Range(DataVolumes(s))
      PROVE  v \in {ManagedVolume(s)} \cup {ToCCEVolume(s.users[i]) : i \in DOMAIN s.users}
  <2>1. PICK i \in 1..(Len(s.users) + 1) : v = DataVolumes(s)[i]
    BY <1>4, <1>5 DEF Range
  <2>2. CASE i = 1
    BY <1>4, <2>1, <2>2
  <2>3. CASE i # 1
    <3>1. i - 1 \in DOMAIN s.users
      BY <1>1, <2>1, <2>3
    <3> QED BY <1>4, <2>1, <2>3, <3>1
  <2> QED BY <2>2, <2>3
<1>6. ManagedVolume(s) \in Range(DataVolumes(s))
  <2>1. 1 \in 1..(Len(s.users) + 1)
    BY <1>1
  <2>2. 1 \in DOMAIN DataVolumes(s) /\ DataVolumes(s)[1] = ManagedVolume(s)
    BY <1>4, <2>1
  <2> QED BY <2>2 DEF Range
<1>7. ASSUME NEW i \in DOMAIN s.users PROVE ToCCEVolume(s.users[i]) \in Range(DataVolumes(s))
  <2>1. i + 1 \in 1..(Len(s.users) + 1) /\ DataVolumes(s)[i + 1] = user[i]
    BY <1>1, <1>4
  <2> QED BY <1>4, <2>1 DEF Range
<1> QED BY <1>5, <1>6, <1>7

\* The size that is promised is that of the managed volume.
LEMMA StorageKept ==
  ASSUME NEW s \in Specs, ValidForCreateNode(s)
  PROVE  StoragePromised(s) = EphemeralStorage(ManagedVolume(s).size)
<1>1. CASE s.k8s = Unset
  BY <1>1 DEF StoragePromised, ManagedVolume
<1>2. CASE s.k8s # Unset
  <2>1. s.k8s.size \in Int /\ s.k8s.size >= 20
    <3>1. s.k8s \in Volume
      BY <1>2, SpecIsTyped
    <3>2. s.k8s.size >= 20
      BY <1>2 DEF ValidForCreateNode
    <3> QED BY <3>1, <3>2 DEF Volume
  <2>2. ManagedVolume(s).size = s.k8s.size
    BY <1>2, <2>1 DEF ManagedVolume, ToCCEVolume
  <2>3. StoragePromised(s) = EphemeralStorage(s.k8s.size)
    BY <1>2, <2>1 DEF StoragePromised
  <2> QED BY <2>2, <2>3
<1> QED BY <1>1, <1>2

LEMMA RequestKept ==
  ASSUME IInv PROVE PromiseKept
<1> SUFFICES ASSUME node # NoNode PROVE PromiseKept
  BY DEF PromiseKept
<1> DEFINE s == node.built
           f == node.flavor
           q == Request(s)
<1>1. /\ s \in Specs /\ f \in Flavor /\ Accepted(s)
      /\ node.request = q /\ node.type = Resolve(s, f)
  BY DEF IInv
<1>2. /\ IsReservation(s.kube) /\ IsReservation(s.system)
      /\ ValidReservation(s.kube) /\ ValidReservation(s.system) /\ ValidForCreateNode(s)
  BY <1>1, SpecIsTyped DEF Accepted, ValidKubelet
<1>3. /\ q.maxPods = s.maxPods /\ q.kube = Reserved(s.kube) /\ q.system = Reserved(s.system)
      /\ q.runtime = s.runtime /\ q.data = DataVolumes(s) /\ q.selector = ManagedVolume(s)
  BY DEF Request
<1>4. /\ Resolve(s, f).pods = Default(s.maxPods, DefaultMaxPods(Memory[f], NICs[f]))
      /\ Resolve(s, f).kube
           = Assigned(KubeReservedDefault(f, NormalizedRuntimeType(s.runtime)), s.kube)
      /\ Resolve(s, f).system = Assigned(SystemReservedDefault(f), s.system)
      /\ Resolve(s, f).storage = StoragePromised(s)
  BY DEF Resolve
<1>5. ASSUME NEW r \in Resource
      PROVE  /\ Resolve(s, f).kube[r]
                  = Delivered(KubeReservedDefault(f, NormalizedRuntimeType(q.runtime)), q.kube, r)
             /\ Resolve(s, f).system[r] = Delivered(SystemReservedDefault(f), q.system, r)
  BY <1>2, <1>3, <1>4, ReservationKept
<1>6. \E v \in Range(q.data) : Matches(q.selector, v)
  <2>1. ManagedVolume(s) \in Range(q.data)
    BY <1>1, <1>3, AttachedVolumes
  <2> QED BY <1>3, <2>1 DEF Matches
<1>7. ASSUME NEW v \in Range(q.data), Matches(q.selector, v)
      PROVE  Resolve(s, f).storage = EphemeralStorage(v.size)
  <2>1. v.size = ManagedVolume(s).size
    BY <1>3, <1>7 DEF Matches
  <2> QED BY <1>1, <1>2, <1>4, <2>1, StorageKept
<1> QED BY <1>1, <1>3, <1>4, <1>5, <1>6, <1>7 DEF PromiseKept

-----------------------------------------------------------------------------
(* The hash *)

\* The request and the normal form of the hash fill in the same defaults.
LEMMA SameVolume ==
  ASSUME NEW d PROVE EffectiveVolume(ToCCEVolume(d)) = NormalizeBlockDevice(d)
BY DEF EffectiveVolume, ToCCEVolume, NormalizeBlockDevice

LEMMA SameLogin ==
  ASSUME NEW s, ValidLogin(s) PROVE ResolveLogin(s) = NormalizedLogin(s)
BY DEF ValidLogin, ResolveLogin, NormalizedLogin, Login

LEMMA NormalVolumeIsVolume ==
  ASSUME NEW d \in Volume
  PROVE  NormalizeBlockDevice(d) \in Volume /\ NormalizeBlockDevice(d) # Unset
<1>1. d.size \in Int /\ d.type \in Optional(VolumeType) /\ d.iops \in Optional(Int)
  BY DEF Volume
<1>2. (IF d.size <= 0 THEN 40 ELSE d.size) \in Int
  BY <1>1
<1>3. Default(d.type, SSD) \in Optional(VolumeType)
  BY <1>1, UnsetAssumption DEF Default, Optional
<1>4. Default(d.iops, 0) \in Optional(Int)
  BY <1>1 DEF Default, Optional
<1>5. NormalizeBlockDevice(d) \in Volume
  BY <1>2, <1>3, <1>4 DEF NormalizeBlockDevice, Volume
<1> QED BY <1>5, UnsetAssumption

\* Where no two members are alike, nothing cancels out.
LEMMA NothingCancels ==
  ASSUME NEW s \in Specs, Distinct(s)
  PROVE  SetHash(NormalizedUsers(s)) = Range(NormalizedUsers(s))
<1> DEFINE q == NormalizedUsers(s)
<1>1. DOMAIN q = DOMAIN s.users /\ \A i \in DOMAIN q : q[i] = NormalizeBlockDevice(s.users[i])
  BY DEF NormalizedUsers
<1>2. ASSUME NEW v \in Range(q) PROVE Cardinality({i \in DOMAIN q : q[i] = v}) = 1
  <2>1. PICK i \in DOMAIN q : q[i] = v
    BY <1>2 DEF Range
  <2>2. \A j \in DOMAIN q : q[j] = v => j = i
    BY <1>1, <2>1 DEF Distinct
  <2>3. {j \in DOMAIN q : q[j] = v} = {i}
    BY <2>1, <2>2
  <2> QED BY <2>3, FS_Singleton
<1>3. \A v \in Range(q) : Cardinality({i \in DOMAIN q : q[i] = v}) % 2 = 1
  BY <1>2
<1> QED BY <1>3 DEF SetHash

\* The data volumes, in effect, are the managed one and those of the hash.
LEMMA EffectiveData ==
  ASSUME NEW s \in Specs
  PROVE  {EffectiveVolume(v) : v \in Range(DataVolumes(s))}
           = {EffectiveVolume(ManagedVolume(s))} \cup Range(NormalizedUsers(s))
<1>1. Range(DataVolumes(s))
        = {ManagedVolume(s)} \cup {ToCCEVolume(s.users[i]) : i \in DOMAIN s.users}
  BY AttachedVolumes
<1>2. Range(NormalizedUsers(s)) = {NormalizeBlockDevice(s.users[i]) : i \in DOMAIN s.users}
  BY DEF NormalizedUsers, Range
<1>3. \A i \in DOMAIN s.users :
        EffectiveVolume(ToCCEVolume(s.users[i])) = NormalizeBlockDevice(s.users[i])
  BY SameVolume
<1> QED BY <1>1, <1>2, <1>3

LEMMA EffectiveRequest ==
  ASSUME NEW s
  PROVE  Effective(Request(s))
           = [os |-> s.ims, group |-> s.group, login |-> ResolveLogin(s),
              runtime |-> NormalizedRuntimeType(s.runtime),
              root |-> NormalizeBlockDevice(s.root),
              data |-> {EffectiveVolume(v) : v \in Range(DataVolumes(s))},
              selector |-> EffectiveVolume(ManagedVolume(s)), maxPods |-> s.maxPods,
              kube |-> Reserved(s.kube), system |-> Reserved(s.system)]
BY SameVolume DEF Effective, Request

\* The managed volume, in effect, follows from the normal forms of the root
\* volume and of the volume that replaces it.
LEMMA SameManagedVolume ==
  ASSUME NEW a \in Specs, NEW b \in Specs, Hash(a) = Hash(b)
  PROVE  EffectiveVolume(ManagedVolume(a)) = EffectiveVolume(ManagedVolume(b))
<1>1. /\ NormalizeBlockDevice(a.root) = NormalizeBlockDevice(b.root)
      /\ (IF a.k8s = Unset THEN Unset ELSE NormalizeBlockDevice(a.k8s))
           = (IF b.k8s = Unset THEN Unset ELSE NormalizeBlockDevice(b.k8s))
  BY DEF Hash
<1>2. CASE a.k8s = Unset
  <2>1. b.k8s = Unset
    BY <1>1, <1>2, SpecIsTyped, NormalVolumeIsVolume
  <2>2. ToCCEVolume(a.root).type = ToCCEVolume(b.root).type
    <3>1. \A d : ToCCEVolume(d).type = NormalizeBlockDevice(d).type
      BY DEF ToCCEVolume, NormalizeBlockDevice
    <3> QED BY <1>1, <3>1
  <2> QED BY <1>2, <2>1, <2>2 DEF ManagedVolume
<1>3. CASE a.k8s # Unset
  <2>1. b.k8s # Unset /\ NormalizeBlockDevice(a.k8s) = NormalizeBlockDevice(b.k8s)
    BY <1>1, <1>3, SpecIsTyped, NormalVolumeIsVolume
  <2>2. ManagedVolume(a) = ToCCEVolume(a.k8s) /\ ManagedVolume(b) = ToCCEVolume(b.k8s)
    BY <1>3, <2>1 DEF ManagedVolume
  <2> QED BY <2>1, <2>2, SameVolume
<1> QED BY <1>2, <1>3

\* Equal hashes of specifications that Create accepts are equal requests.
LEMMA HashIsComplete ==
  ASSUME NEW a \in Specs, NEW b \in Specs, Accepted(a), Accepted(b),
         Distinct(a), Distinct(b), Hash(a) = Hash(b)
  PROVE  Effective(Request(a)) = Effective(Request(b))
<1>1. /\ a.ims = b.ims /\ a.group = b.group /\ a.maxPods = b.maxPods
      /\ a.kube = b.kube /\ a.system = b.system
      /\ NormalizedRuntimeType(a.runtime) = NormalizedRuntimeType(b.runtime)
      /\ NormalizeBlockDevice(a.root) = NormalizeBlockDevice(b.root)
  BY DEF Hash
<1>2. ResolveLogin(a) = ResolveLogin(b)
  <2>1. NormalizedLogin(a) = NormalizedLogin(b)
    BY DEF Hash
  <2>2. ValidLogin(a) /\ ValidLogin(b)
    BY DEF Accepted, ValidForCreateNode
  <2> QED BY <2>1, <2>2, SameLogin
<1>3. EffectiveVolume(ManagedVolume(a)) = EffectiveVolume(ManagedVolume(b))
  BY SameManagedVolume
<1>4. {EffectiveVolume(v) : v \in Range(DataVolumes(a))}
        = {EffectiveVolume(v) : v \in Range(DataVolumes(b))}
  <2>1. SetHash(NormalizedUsers(a)) = SetHash(NormalizedUsers(b))
    BY DEF Hash
  <2>2. Range(NormalizedUsers(a)) = Range(NormalizedUsers(b))
    BY <2>1, NothingCancels
  <2> QED BY <1>3, <2>2, EffectiveData
<1> QED BY <1>1, <1>2, <1>3, <1>4, EffectiveRequest

LEMMA DriftNoticed == ASSUME IInv PROVE DriftIsComplete
BY HashIsComplete DEF IInv, DriftIsComplete

-----------------------------------------------------------------------------
(* Well-formed requests *)

LEMMA LoginIsUnique ==
  ASSUME NEW s, ValidLogin(s)
  PROVE  (ResolveLogin(s).password = Unset) # (ResolveLogin(s).sshKey = Unset)
<1>1. CASE s.sshKey # Unset
  BY <1>1 DEF ResolveLogin, Login
<1>2. CASE s.sshKey = Unset
  <2>1. s.userPassword # Unset /\ s.userPassword.password # Unset
    BY <1>2 DEF ValidLogin
  <2> QED BY <1>2, <2>1 DEF ResolveLogin, Login
<1> QED BY <1>1, <1>2

LEMMA ReservedIsTyped ==
  ASSUME NEW m, IsReservation(m), ValidReservation(m), NEW r \in Resource
  PROVE  Reserved(m)[r] \in Optional(0..MaxCreateNodeInt)
<1>1. CASE r \in DOMAIN m
  BY <1>1, SentExactly DEF Optional
<1>2. CASE r \notin DOMAIN m
  BY <1>2 DEF Reserved, Optional
<1> QED BY <1>1, <1>2

LEMMA DataIsTyped ==
  ASSUME NEW s \in Specs, ValidForCreateNode(s), NEW v \in Range(DataVolumes(s))
  PROVE  v.size >= 10 /\ v.type \in VolumeType
<1>1. \A d \in Volume : ToCCEVolume(d).type \in VolumeType
  BY UnsetAssumption DEF Volume, Optional, ToCCEVolume, Default
<1>2. \A d \in Volume : d.size >= 10 => ToCCEVolume(d).size >= 10
  BY DEF Volume, ToCCEVolume
<1>3. CASE v = ManagedVolume(s)
  <2>1. CASE s.k8s = Unset
    BY <1>1, <1>3, <2>1, SpecIsTyped DEF ManagedVolume
  <2>2. CASE s.k8s # Unset
    <3>1. s.k8s \in Volume
      BY <2>2, SpecIsTyped
    <3>2. s.k8s.size >= 20
      BY <2>2 DEF ValidForCreateNode
    <3>3. s.k8s.size >= 10
      BY <3>1, <3>2 DEF Volume
    <3> QED BY <1>1, <1>2, <1>3, <2>2, <3>1, <3>3 DEF ManagedVolume
  <2> QED BY <2>1, <2>2
<1>4. CASE v \in {ToCCEVolume(s.users[i]) : i \in DOMAIN s.users}
  <2>1. PICK i \in DOMAIN s.users : v = ToCCEVolume(s.users[i])
    BY <1>4
  <2>2. s.users[i] \in Volume
    BY <2>1, SpecIsTyped
  <2>3. s.users[i].size >= 10
    BY <2>1 DEF ValidForCreateNode
  <2> QED BY <1>1, <1>2, <2>1, <2>2, <2>3
<1> QED BY <1>3, <1>4, AttachedVolumes

LEMMA RequestIsWellFormed ==
  ASSUME NEW s \in Specs, Accepted(s) PROVE WellFormed(Request(s))
<1> DEFINE q == Request(s)
<1>1. /\ ValidForCreateNode(s) /\ ValidLogin(s)
      /\ ValidReservation(s.kube) /\ ValidReservation(s.system)
      /\ IsReservation(s.kube) /\ IsReservation(s.system)
  BY SpecIsTyped DEF Accepted, ValidKubelet, ValidForCreateNode
<1>2. /\ q.os = s.ims /\ q.login = ResolveLogin(s) /\ q.maxPods = s.maxPods
      /\ q.kube = Reserved(s.kube) /\ q.system = Reserved(s.system)
      /\ q.root = ToCCEVolume(s.root) /\ q.data = DataVolumes(s)
  BY DEF Request
<1>3. s.ims \in Family
  BY SpecIsTyped DEF Accepted, Optional
<1>4. (q.login.password = Unset) # (q.login.sshKey = Unset)
  BY <1>1, <1>2, LoginIsUnique
<1>5. s.maxPods \in Optional(16..256)
  BY DEF Accepted, ValidKubelet, Optional
<1>6. ASSUME NEW r \in Resource
      PROVE  {q.kube[r], q.system[r]} \subseteq Optional(0..MaxCreateNodeInt)
  BY <1>1, <1>2, ReservedIsTyped
<1>7. q.root.size >= 40
  <2>1. s.root \in Volume
    BY SpecIsTyped
  <2>2. s.root.size >= 40
    BY <1>1 DEF ValidForCreateNode
  <2> QED BY <1>2, <2>1, <2>2 DEF Volume, ToCCEVolume
<1>8. \A v \in Range(q.data) : v.size >= 10 /\ v.type \in VolumeType
  BY <1>1, <1>2, DataIsTyped
<1> QED BY <1>2, <1>3, <1>4, <1>5, <1>6, <1>7, <1>8 DEF WellFormed

LEMMA Typed == ASSUME IInv PROVE TypeOK
<1>1. node # NoNode => node.flavor \in Flavor /\ node.built \in Specs /\ WellFormed(node.request)
  BY RequestIsWellFormed DEF IInv
<1>2. cached # NoTypes => \E s \in Specs : cached.key = CacheKey(s)
  BY DEF IInv
<1> QED BY <1>1, <1>2 DEF TypeOK, IInv

-----------------------------------------------------------------------------
(* The theorems *)

LEMMA Invariance == Spec => []IInv
BY Initial, Step, PTL DEF Spec

\* Every request for a node is one that CreateNode can take: an operating
\* system, one way to log in, and numbers in their ranges.
THEOREM TypeCorrect == Spec => []TypeOK
BY Invariance, Typed, PTL

\* A node offers exactly what the scheduler was promised of it, from the cache
\* or not (PromiseKept).
THEOREM PromisesAreKept == Spec => []PromiseKept
BY Invariance, RequestKept, PTL

\* A node whose hash is that of the stored specification is the node that
\* Create would ask for now (DriftIsComplete).
THEOREM DriftIsNoticed == Spec => []DriftIsComplete
BY Invariance, DriftNoticed, PTL

-----------------------------------------------------------------------------
(* What a volume leaves to pods: Capacity                                  *)
(*                                                                         *)
(* Powers is a loop, written as a recursive function: that there is such a *)
(* function has to be shown before anything can be said of its values.  It *)
(* goes up, and stops at the number of groups, so the argument goes down   *)
(* from there: a function that satisfies the equation from n + 1 upward    *)
(* has a value at n.  Induction being out of reach, it is an argument      *)
(* about a least distance (Downward).                                      *)

\* A set of numbers that is not empty has a least one.
LEMMA LeastNumber ==
  ASSUME NEW T \in SUBSET Nat, T # {}
  PROVE  \E x \in T : \A y \in T : x <= y
<1>1. PICK x \in T : \A y \in T : ~ (<<y, x>> \in OpToRel(<, Nat))
  BY WFMin, NatLessThanWellFounded
<1>2. ASSUME NEW y \in T, y < x PROVE FALSE
  <2>1. <<y, x>> \in Nat \X Nat
    OBVIOUS
  <2>2. <<y, x>>[1] < <<y, x>>[2]
    BY <1>2
  <2>3. <<y, x>> \in OpToRel(<, Nat)
    BY <2>1, <2>2 DEF OpToRel
  <2> QED
    BY <1>1, <2>3
<1>3. \A y \in T : x <= y
  BY <1>2
<1> QED
  BY <1>3

Positives == Nat \ {0}

\* One turn of the loop, with what the turns after it count.
Turn(f, base, groups, x) ==
  IF x >= groups THEN 0
  ELSE IF x > (groups - 1) \div base THEN 1
  ELSE 1 + f[x * base]

Counts(f, base, groups) == f = [x \in Positives |-> Turn(f, base, groups, x)]

LEMMA Unfolded ==
  ASSUME NEW base, NEW groups
  PROVE  Powers(base, groups) = (CHOOSE f : Counts(f, base, groups))[base]
BY DEF Powers, Counts, Turn, Positives

LEMMA TimesGrows ==
  ASSUME NEW x \in Positives, NEW b \in Nat, b >= 2
  PROVE  x * b \in Positives /\ x * b > x
<1>1. x * b >= x * 2
  BY DEF Positives
<1> QED BY <1>1 DEF Positives

\* The equation holds from n upward; Above and its like are sets, so that the
\* induction on n can be an argument about a least number.
Above(n) == {x \in Positives : x >= n}

CountsAbove(base, groups, n) ==
  \E f : f = [x \in Above(n) |-> Turn(f, base, groups, x)]

LEMMA CountsEnd ==
  ASSUME NEW base, NEW groups \in Nat, NEW n \in Nat, n >= groups
  PROVE  CountsAbove(base, groups, n)
<1>1. [x \in Above(n) |-> 0] =
        [x \in Above(n) |-> Turn([y \in Above(n) |-> 0], base, groups, x)]
  BY DEF Turn, Above, Positives
<1> QED BY <1>1 DEF CountsAbove

LEMMA CountsDown ==
  ASSUME NEW base \in Nat, base >= 2, NEW groups \in Nat, NEW n \in Positives,
         CountsAbove(base, groups, n + 1)
  PROVE  CountsAbove(base, groups, n)
<1>1. PICK f : f = [x \in Above(n + 1) |-> Turn(f, base, groups, x)]
  BY DEF CountsAbove
<1> DEFINE g == [x \in Above(n) |-> IF x = n THEN Turn(f, base, groups, n) ELSE f[x]]
<1>2. ASSUME NEW x \in Above(n) PROVE g[x * base] = f[x * base]
  <2>1. x \in Positives /\ x \in Nat /\ x >= n /\ n \in Nat
    BY DEF Above, Positives
  <2>2. x * base \in Positives /\ x * base \in Nat /\ x * base > x
    BY <2>1, TimesGrows DEF Positives
  <2>3. x * base \in Above(n) /\ x * base # n
    BY <2>1, <2>2 DEF Above
  <2> QED BY <2>3
<1>3. ASSUME NEW x \in Above(n) PROVE g[x] = Turn(g, base, groups, x)
  <2>1. Turn(g, base, groups, x) = Turn(f, base, groups, x)
    BY <1>2 DEF Turn
  <2>2. CASE x = n
    BY <2>1, <2>2
  <2>3. CASE x # n
    <3>1. x \in Above(n + 1)
      BY <2>3 DEF Above, Positives
    <3>2. f[x] = Turn(f, base, groups, x)
      BY <1>1, <3>1
    <3> QED BY <2>1, <2>3, <3>2
  <2> QED BY <2>2, <2>3
<1>4. g = [x \in Above(n) |-> Turn(g, base, groups, x)]
  BY <1>3
<1> QED BY <1>4 DEF CountsAbove

\* Downward induction, on a set.
LEMMA Downward ==
  ASSUME NEW m \in Positives, NEW T \in SUBSET (1..m), m \in T,
         \A k \in 1..m : k + 1 \in T => k \in T
  PROVE  T = 1..m
<1> DEFINE Distances == {m - k : k \in (1..m) \ T}
<1>1. Distances = {}
  <2> SUFFICES ASSUME Distances # {} PROVE FALSE
    OBVIOUS
  <2>1. Distances \in SUBSET Nat
    BY DEF Positives
  <2>2. PICK d \in Distances : \A e \in Distances : d <= e
    <3> HIDE DEF Distances
    <3> QED BY <2>1, LeastNumber
  <2>3. PICK k \in (1..m) \ T : d = m - k
    OBVIOUS
  <2>4. k # m /\ k + 1 \in (1..m) /\ k + 1 \notin T
    BY <2>3 DEF Positives
  <2>5. m - (k + 1) \in Distances
    BY <2>4
  <2>6. m - k <= m - (k + 1)
    BY <2>2, <2>3, <2>5, Zenon
  <2> QED BY <2>3, <2>6 DEF Positives
<1>2. \A k \in (1..m) \ T : m - k \in Distances
  OBVIOUS
<1> HIDE DEF Distances
<1> QED BY <1>1, <1>2

LEMMA CountsExist ==
  ASSUME NEW base \in Nat, base >= 2, NEW groups \in Nat
  PROVE  \E f : Counts(f, base, groups)
<1>1. CountsAbove(base, groups, 1)
  <2>1. CASE groups = 0
    BY <2>1, CountsEnd
  <2>2. CASE groups # 0
    <3> DEFINE T == {n \in 1..groups : CountsAbove(base, groups, n)}
    <3>1. groups \in Positives /\ groups \in T /\ 1 \in 1..groups
      BY <2>2, CountsEnd DEF Positives
    <3>2. \A n \in 1..groups : n + 1 \in T => n \in T
      BY CountsDown DEF Positives
    <3>3. T = 1..groups
      <4> HIDE DEF T
      <4> T \subseteq 1..groups
        BY DEF T
      <4> QED BY <3>1, <3>2, Downward
    <3> QED BY <3>1, <3>3
  <2> QED BY <2>1, <2>2
<1>2. Above(1) = Positives
  BY DEF Above, Positives
<1> QED BY <1>1, <1>2 DEF Counts, CountsAbove

\* The count of a loop that starts at x satisfies the equation it is defined by.
Count(base, groups) == CHOOSE f : Counts(f, base, groups)

LEMMA CountEquation ==
  ASSUME NEW base \in Nat, base >= 2, NEW groups \in Nat, NEW x \in Positives
  PROVE  Count(base, groups)[x] = Turn(Count(base, groups), base, groups, x)
<1>1. Counts(Count(base, groups), base, groups)
  BY CountsExist DEF Count
<1> QED BY <1>1 DEF Counts

\* Without the guard that keeps the next power representable the loop would count the same.
LEMMA GuardIsExact ==
  ASSUME NEW base \in Nat, base >= 2, NEW groups \in Nat \ {0}, NEW x \in Positives,
         x > (groups - 1) \div base
  PROVE  x * base >= groups
<1> DEFINE q == (groups - 1) \div base
<1>1. q \in Int /\ groups - 1 < base * (q + 1)
  OBVIOUS
<1>2. x \in Int /\ x >= q + 1
  BY <1>1 DEF Positives
<1> HIDE DEF q
<1>3. base * x >= base * (q + 1)
  BY <1>1, <1>2
<1>4. base * x = x * base /\ base * x \in Int
  BY <1>2
<1> QED BY <1>1, <1>3, <1>4

LEMMA CountUnguarded ==
  ASSUME NEW base \in Nat, base >= 2, NEW groups \in Nat, NEW x \in Positives
  PROVE  Count(base, groups)[x] = IF x >= groups THEN 0 ELSE 1 + Count(base, groups)[x * base]
<1>1. Count(base, groups)[x] = Turn(Count(base, groups), base, groups, x)
  BY CountEquation
<1>2. CASE x < groups /\ x > (groups - 1) \div base
  <2>1. x * base \in Positives /\ x * base >= groups
    BY <1>2, GuardIsExact, TimesGrows DEF Positives
  <2>2. Count(base, groups)[x * base] = 0
    BY <2>1, CountEquation DEF Turn
  <2>3. Count(base, groups)[x] = 1 /\ ~(x >= groups)
    BY <1>1, <1>2 DEF Turn, Positives
  <2> QED BY <2>2, <2>3
<1>3. CASE ~(x < groups /\ x > (groups - 1) \div base)
  BY <1>1, <1>3 DEF Turn, Positives
<1> QED BY <1>2, <1>3

\* The loop over the groups with a backup of the superblock (sparseSuperGroupCopies)
\* counts exactly the powers of its base that are groups of the file system:
\* of any powers that reach the number of groups, those below it are the first
\* Powers(base, groups).
THEOREM PowersCounted ==
  ASSUME NEW base \in Nat, base >= 2, NEW groups \in Nat, NEW m \in Positives,
         NEW power \in [1..m -> Positives], power[1] = base, power[m] >= groups,
         \A k \in 1..m : k # m => power[k + 1] = power[k] * base
  PROVE  /\ Powers(base, groups) \in 0..(m - 1)
         /\ \A k \in 1..m : k <= Powers(base, groups) <=> power[k] < groups
<1> DEFINE count == Count(base, groups)
           Right(k) == /\ count[power[k]] \in 0..(m - k)
                       /\ \A j \in k..m : j < k + count[power[k]] <=> power[j] < groups
           T == {k \in 1..m : Right(k)}
<1>0. \A k \in 1..m : power[k] \in Nat /\ power[k] \in Positives
  BY DEF Positives
<1>1. \A k \in 1..m : /\ power[k] >= groups => count[power[k]] = 0
                      /\ (power[k] < groups /\ k # m) => count[power[k]] = 1 + count[power[k + 1]]
  BY <1>0, CountUnguarded
<1> HIDE DEF count
<1>2. m \in T
  <2>1. m \in 1..m /\ count[power[m]] = 0 /\ ~(power[m] < groups)
    BY <1>0, <1>1 DEF Positives
  <2> QED BY <2>1 DEF Positives
<1>3. ASSUME NEW k \in 1..m, k + 1 \in T PROVE k \in T
  <2>0. k + 1 \in 1..m /\ Right(k + 1)
    BY <1>3
  <2>1. k # m /\ k + 1 \in 1..m /\ Right(k + 1) /\ k \in Nat /\ m \in Nat
    <3> HIDE DEF Right
    <3> QED BY <2>0 DEF Positives
  <2>2. /\ power[k] \in Nat /\ power[k + 1] \in Nat
        /\ power[k + 1] = power[k] * base /\ power[k + 1] > power[k]
    <3>1. power[k] \in Positives /\ power[k] \in Nat /\ power[k + 1] \in Nat
      BY <1>0, <2>0
    <3>2. power[k + 1] = power[k] * base
      BY <2>1
    <3> QED BY <3>1, <3>2, TimesGrows
  <2>3. CASE power[k] >= groups
    <3>1. power[k + 1] >= groups
      <4> HIDE DEF Right
      <4> QED BY <2>2, <2>3
    <3>2. count[power[k]] = 0 /\ count[power[k + 1]] = 0
      BY <1>1, <2>1, <2>3, <3>1
    <3>3. \A j \in (k + 1)..m : ~(power[j] < groups)
      BY <2>1, <3>2
    <3>4. ASSUME NEW j \in k..m PROVE ~(power[j] < groups)
      <4>1. CASE j = k
        BY <1>0, <2>3, <4>1
      <4>2. CASE j # k
        <5>1. j \in (k + 1)..m
          BY <2>1, <4>2
        <5> QED BY <3>3, <5>1
      <4> QED BY <4>1, <4>2
    <3> QED BY <2>1, <3>2, <3>4
  <2>4. CASE power[k] < groups
    <3>1. count[power[k]] = 1 + count[power[k + 1]]
      BY <1>1, <2>1, <2>4
    <3>2. count[power[k]] \in 0..(m - k)
      BY <2>1, <3>1
    <3>3. \A j \in (k + 1)..m : j < k + count[power[k]] <=> power[j] < groups
      BY <2>1, <3>1
    <3>4. k < k + count[power[k]]
      BY <2>1, <3>1
    <3>5. ASSUME NEW j \in k..m PROVE j < k + count[power[k]] <=> power[j] < groups
      <4>1. CASE j = k
        BY <2>4, <3>4, <4>1
      <4>2. CASE j # k
        <5>1. j \in (k + 1)..m
          BY <2>1, <4>2
        <5> QED BY <3>3, <5>1
      <4> QED BY <4>1, <4>2
    <3> QED BY <3>2, <3>5
  <2> QED BY <1>0, <2>3, <2>4
<1>4. 1 \in T
  <2> HIDE DEF T
  <2>1. T \subseteq 1..m /\ 1 \in 1..m
    BY DEF T, Positives
  <2>2. T = 1..m
    BY <1>2, <1>3, <2>1, Downward
  <2> QED BY <2>1, <2>2
<1>5. Powers(base, groups) = count[power[1]]
  BY Unfolded DEF count, Count
<1> QED BY <1>4, <1>5 DEF Positives

\* Three to the 20th, more groups than the largest volume has.
MaxGroups == 3 * 1162261467

Threshold ==
  <<3, 9, 27, 81, 243, 729, 2187, 6561, 19683, 59049, 177147, 531441, 1594323, 4782969, 14348907,
    43046721, 129140163, 387420489, 1162261467, MaxGroups>>

\* The number of powers is logarithmic.
LEMMA FewPowers ==
  ASSUME NEW base \in Nat, base >= 3, NEW groups \in Nat, groups <= MaxGroups
  PROVE  Powers(base, groups) \in 0..20
<1> DEFINE count == Count(base, groups)
           T == {k \in 1..20 : \A x \in Positives : x >= Threshold[k] => count[x] \in 0..20 - k}
<1>1. \A x \in Positives :
        count[x] = IF x >= groups THEN 0 ELSE 1 + count[x * base]
  BY CountUnguarded
<1> HIDE DEF count
<1>2. 20 \in T
  <2>1. Threshold[20] = MaxGroups /\ MaxGroups \in Nat
    BY DEF Threshold, MaxGroups
  <2> QED BY <1>1, <2>1 DEF Positives
<1>3. ASSUME NEW k \in 1..20, k + 1 \in T PROVE k \in T
  <2>1. k \in 1..19
    BY <1>3
  <2>2. Threshold[k + 1] = 3 * Threshold[k] /\ Threshold[k] \in Positives
    BY <2>1 DEF Threshold, Positives, MaxGroups
  <2>3. ASSUME NEW x \in Positives, x >= Threshold[k] PROVE count[x] \in 0..20 - k
    <3>1. x * base \in Positives /\ x * base >= x * 3
      BY TimesGrows DEF Positives
    <3>2. x * base >= Threshold[k + 1]
      BY <2>2, <2>3, <3>1 DEF Positives
    <3>3. count[x * base] \in 0..20 - (k + 1)
      BY <1>3, <3>1, <3>2
    <3> QED BY <1>1, <2>1, <3>3
  <2> QED BY <2>3
<1>4. 1 \in T
  <2> HIDE DEF T
  <2>1. T \subseteq 1..20 /\ 1 \in 1..20 /\ 20 \in Positives
    BY DEF T, Positives
  <2>2. T = 1..20
    BY <1>2, <1>3, <2>1, Downward
  <2> QED BY <2>1, <2>2
<1>5. Powers(base, groups) = count[base]
  BY Unfolded DEF count, Count
<1>6. Threshold[1] = 3 /\ base \in Positives
  BY DEF Threshold, Positives
<1>7. count[base] \in 0..19
  BY <1>4, <1>6
<1> QED BY <1>5, <1>7

LEMMA CeilDivBounds ==
  ASSUME NEW a \in Nat
  PROVE  /\ CeilDiv(a, 32) \in Nat /\ 32 * CeilDiv(a, 32) < a + 32
         /\ CeilDiv(a, 64) \in Nat /\ 64 * CeilDiv(a, 64) < a + 64
         /\ CeilDiv(a, 32768) \in Nat /\ 32768 * CeilDiv(a, 32768) < a + 32768
BY DEF CeilDiv

LEMMA GrowthIsSmall ==
  ASSUME NEW blocks \in Nat, NEW descriptors \in Nat
  PROVE  /\ ReservedGDTBlocks(blocks, descriptors) \in Nat
         /\ 2048 * ReservedGDTBlocks(blocks, descriptors) < blocks + 4096
<1> DEFINE growth == IF blocks < 4194303 THEN CeilDiv(blocks, 32) ELSE 131072
           reserved == CeilDiv(growth, 64) - descriptors
<1>1. growth \in Nat /\ (blocks < 4194303 => 32 * growth < blocks + 32)
  BY CeilDivBounds
<1>2. reserved \in Int /\ 64 * reserved < growth + 64
  <2> HIDE DEF growth
  <2> QED BY <1>1, CeilDivBounds
<1>3. ReservedGDTBlocks(blocks, descriptors) = IF reserved < 0 THEN 0 ELSE AtMost(reserved, 1024)
  BY DEF ReservedGDTBlocks
<1> HIDE DEF growth, reserved
<1> QED BY <1>1, <1>2, <1>3 DEF AtMost

LEMMA JournalIsSmall ==
  ASSUME NEW blocks \in Nat
  PROVE  /\ DefaultJournalBlocks(blocks) \in Nat
         /\ DefaultJournalBlocks(blocks) <= 1024 \/ 8 * DefaultJournalBlocks(blocks) <= blocks
BY DEF DefaultJournalBlocks

LEMMA Times ==
  ASSUME NEW a \in 0..62, NEW b \in Nat PROVE a * b \in Nat /\ a * b <= 62 * b
OBVIOUS

LEMMA OverheadIsSmall ==
  ASSUME NEW blocks \in Nat, blocks >= 25600, NEW copies \in 0..62
  PROVE  OverheadBlocks(blocks, copies) \in Positives /\ 4 * OverheadBlocks(blocks, copies) < blocks
<1> DEFINE groups == CeilDiv(blocks, 32768)
           descriptors == CeilDiv(groups, 64)
           reserved == ReservedGDTBlocks(blocks, descriptors)
           journal == DefaultJournalBlocks(blocks)
<1>1. groups \in Nat /\ 32768 * groups < blocks + 32768
  BY CeilDivBounds
<1>0. groups >= 1
  BY DEF CeilDiv
<1>2. descriptors \in Nat /\ 64 * descriptors < groups + 64
  BY <1>1, CeilDivBounds
<1>3. reserved \in Nat /\ 2048 * reserved < blocks + 4096
  BY <1>2, GrowthIsSmall
<1>4. journal \in Nat /\ (journal <= 1024 \/ 8 * journal <= blocks)
  BY JournalIsSmall
<1>5. OverheadBlocks(blocks, copies)
        = groups * (2 + 512) + copies * (1 + descriptors + reserved) + journal
  BY DEF OverheadBlocks, BlocksPerGroup
<1> HIDE DEF groups, descriptors, reserved, journal
<1>6. /\ copies * (1 + descriptors + reserved) \in Nat
      /\ copies * (1 + descriptors + reserved) <= 62 * (1 + descriptors + reserved)
  BY <1>2, <1>3, Times
<1> QED BY <1>0, <1>1, <1>2, <1>3, <1>4, <1>5, <1>6 DEF Positives

\* In bytes, ten times the size of a larger volume leaves 64 bits (kubernetesLVSize).
MaxVolumeGiB == 858993459

\* Of every volume, up to the size at which the code's integers overflow, ext4 keeps
\* something and less than a quarter: what is promised to pods (ephemeralStorage)
\* is positive, and less than a tenth of the volume.
THEOREM EphemeralStorageFits ==
  ASSUME NEW size \in Nat, 1 <= size, size <= MaxVolumeGiB
  PROVE  LET volume == KubernetesLVExtents(size) * BlocksPerExtent
         IN  /\ EphemeralStorage(size) \in Nat \ {0}
             /\ 4 * EphemeralStorage(size) > 3 * volume
             /\ EphemeralStorage(size) < volume
             /\ 10 * volume < size * ExtentsPerGiB * BlocksPerExtent
<1>0. size <= 858993459
  BY DEF MaxVolumeGiB
<1> DEFINE extents == KubernetesLVExtents(size)
           blocks == extents * BlocksPerExtent
           groups == CeilDiv(blocks, BlocksPerGroup)
           copies == SparseSuperGroupCopies(groups)
<1>1. extents \in Nat /\ extents >= 25 /\ 10 * extents < size * 256
  <2>1. extents = ((size * 256 - 1) * 10) \div 100
    BY <1>0 DEF KubernetesLVExtents, ExtentsPerGiB
  <2> HIDE DEF extents
  <2>2. /\ extents \in Nat /\ 100 * extents <= (size * 256 - 1) * 10
        /\ (size * 256 - 1) * 10 < 100 * extents + 100
    BY <1>0, <2>1
  <2> QED BY <1>0, <2>2
<1>2. blocks = extents * 1024 /\ blocks \in Nat /\ blocks >= 25600
  <2> HIDE DEF extents
  <2> QED BY <1>1 DEF BlocksPerExtent
<1>3. groups \in Nat /\ groups <= MaxGroups
  <2>1. groups \in Nat /\ 32768 * groups < blocks + 32768
    <3> HIDE DEF extents, blocks
    <3> QED BY <1>2, CeilDivBounds DEF BlocksPerGroup
  <2> HIDE DEF extents, blocks, groups
  <2> QED BY <1>0, <1>1, <1>2, <2>1 DEF MaxGroups
<1>4. copies \in 0..62
  <2> HIDE DEF groups
  <2>1. /\ Powers(3, groups) \in 0..20 /\ Powers(5, groups) \in 0..20
        /\ Powers(7, groups) \in 0..20
    BY <1>3, FewPowers
  <2> QED BY <1>3, <2>1 DEF SparseSuperGroupCopies
<1>5. EphemeralStorage(size) = blocks - OverheadBlocks(blocks, copies)
  BY <1>2 DEF EphemeralStorage, FilesystemBlocks
<1> HIDE DEF copies, groups, blocks, extents
<1>6. OverheadBlocks(blocks, copies) \in Positives /\ 4 * OverheadBlocks(blocks, copies) < blocks
  BY <1>2, <1>4, OverheadIsSmall
<1>7. /\ 4 * EphemeralStorage(size) > 3 * blocks /\ EphemeralStorage(size) < blocks
      /\ EphemeralStorage(size) \in Nat \ {0}
  BY <1>2, <1>5, <1>6 DEF Positives
<1>8. 10 * blocks < size * ExtentsPerGiB * BlocksPerExtent
  BY <1>0, <1>1, <1>2 DEF ExtentsPerGiB, BlocksPerExtent
<1> QED BY <1>7, <1>8 DEF blocks, extents

\* The storage promised is there, on whichever volume is made kubelet's.
StoragePresent ==
  node # NoNode =>
    \A v \in Range(node.request.data) :
      (Matches(node.request.selector, v) /\ v.size <= MaxVolumeGiB) =>
        /\ node.type.storage \in Nat \ {0}
        /\ 10 * node.type.storage < v.size * ExtentsPerGiB * BlocksPerExtent

LEMMA PromiseIsPresent ==
  ASSUME IInv PROVE StoragePresent
<1> SUFFICES ASSUME node # NoNode, NEW v \in Range(node.request.data),
                    Matches(node.request.selector, v), v.size <= MaxVolumeGiB
             PROVE  /\ node.type.storage \in Nat \ {0}
                    /\ 10 * node.type.storage < v.size * ExtentsPerGiB * BlocksPerExtent
  BY DEF StoragePresent
<1> DEFINE s == node.built
<1>1. /\ s \in Specs /\ ValidForCreateNode(s)
      /\ node.request.selector = ManagedVolume(s) /\ node.type.storage = StoragePromised(s)
  BY DEF IInv, Accepted, Request, Resolve
<1> HIDE DEF s
<1>2. v.size = ManagedVolume(s).size
  BY <1>1 DEF Matches
<1>3. node.type.storage = EphemeralStorage(v.size)
  BY <1>1, <1>2, StorageKept
<1>4. v.size \in Nat /\ 1 <= v.size
  <2>1. CASE s.k8s = Unset
    BY <1>2, <2>1 DEF ManagedVolume
  <2>2. CASE s.k8s # Unset
    <3>1. s.k8s \in Volume
      BY <1>1, <2>2, SpecIsTyped
    <3>2. s.k8s.size \in Int /\ s.k8s.size >= 20
      BY <1>1, <2>2, <3>1 DEF ValidForCreateNode, Volume
    <3> QED BY <1>2, <2>2, <3>2 DEF ManagedVolume, ToCCEVolume
  <2> QED BY <2>1, <2>2
<1> DEFINE storage == EphemeralStorage(v.size)
           volume == KubernetesLVExtents(v.size) * BlocksPerExtent
<1>5. /\ storage \in Nat \ {0} /\ storage < volume
      /\ 10 * volume < v.size * ExtentsPerGiB * BlocksPerExtent
  BY <1>4, EphemeralStorageFits
<1>6. volume \in Int
  BY <1>4 DEF KubernetesLVExtents, ExtentsPerGiB, BlocksPerExtent
<1> HIDE DEF storage, volume
<1>7. 10 * storage < v.size * ExtentsPerGiB * BlocksPerExtent
  BY <1>4, <1>5, <1>6 DEF ExtentsPerGiB, BlocksPerExtent
<1> QED BY <1>3, <1>5, <1>7 DEF storage

\* A node has the storage that the scheduler was promised of it: something, and
\* less than a tenth of each volume that the storage selector may take.
THEOREM StorageIsPresent == Spec => []StoragePresent
BY Invariance, PromiseIsPresent, PTL

-----------------------------------------------------------------------------
(* What CCE reserves: Capacity *)

\* The reservations that CCE makes where the NodeClass makes none leave CPU on every
\* flavor that has any, and memory on every flavor from 2 GiB up; a flavor of 1 GiB
\* or less is promised to have none (kubeReservedCPU, kubeReservedMemoryMiB,
\* systemReservedMemoryMiB).
THEOREM DefaultReservationsFit ==
  ASSUME NEW cpu \in Nat, NEW memory \in Nat, NEW runtime
  PROVE  LET reserved == KubeReservedMemoryMiB(memory, PerPodMemoryMiB(runtime))
                           + SystemReservedMemoryMiB(memory)
         IN  /\ cpu > 0 => KubeReservedCPU(cpu) \in 0..(cpu - 1)
             /\ reserved \in Nat
             /\ memory >= 2048 => reserved < memory
             /\ memory <= 1024 => reserved > memory
<1>1. ASSUME cpu > 0 PROVE KubeReservedCPU(cpu) \in 0..(cpu - 1)
  BY <1>1 DEF KubeReservedCPU, CPUTier, AtMost
<1>2. PerPodMemoryMiB(runtime) \in {5, 20}
  BY DEF PerPodMemoryMiB
<1>3. ASSUME NEW perPod \in {5, 20}
      PROVE  LET reserved == KubeReservedMemoryMiB(memory, perPod) + SystemReservedMemoryMiB(memory)
             IN  /\ reserved \in Nat
                 /\ memory >= 2048 => reserved < memory
                 /\ memory <= 1024 => reserved > memory
  BY DEF KubeReservedMemoryMiB, SystemReservedMemoryMiB, DefaultMaxPodsByMemoryMiB
<1> QED BY <1>1, <1>2, <1>3

-----------------------------------------------------------------------------
(* Drift of NodeClaims: NodeClassHash                                      *)
(*                                                                         *)
(* DriftIsNoticed says that the hash leaves nothing out; what follows, that*)
(* the annotations which carry it accuse no NodeClaim wrongly, whatever    *)
(* order the update, the launches, the edits, the restarts and the caches  *)
(* come in.  DriftInv bounds, for each NodeClaim, the specification that   *)
(* an update under way may write the hash of: never one older than what    *)
(* the NodeClaim was built from, unless it was launched meanwhile, and if  *)
(* a newer one, then what the NodeClaim was built from has been edited.    *)

\* What NodeClassHash assumes of its parameters.
Parameters ==
  /\ MaxSpec \in Nat /\ StartSpecs \subseteq 1..MaxSpec
  /\ \A before \in Deployments : /\ before.version \in Versions \ {""}
                                 /\ before.existing \subseteq Claim

LEMMA Assumed == Parameters
<1>1. MaxSpec \in Nat /\ StartSpecs \subseteq 1..MaxSpec
  BY StartSpecsAssumption
<1>2. ASSUME NEW before \in Deployments
      PROVE  before.version \in Versions \ {""} /\ before.existing \subseteq Claim
  <2>1. before \in [version : Versions \ {""}, existing : SUBSET Claim]
    BY DeploymentsAssumption, Zenon
  <2> QED BY <2>1, Zenon
<1> QED BY <1>1, <1>2 DEF Parameters

ThisVersion == CCENodeClassHashVersion

\* Annotations are written in pairs; caches and copies are no later than what is stored.
Ordered ==
  /\ nodeClass.hash.version = nodeClass.version /\ nodeClass.version # ""
  /\ seen.hash.version = seen.version
  /\ nodeClass.hash.spec <= nodeClass.spec /\ seen.hash.spec <= nodeClass.spec
  /\ seen.spec <= nodeClass.spec /\ copy.spec <= nodeClass.spec
  /\ seen.version = ThisVersion => nodeClass.version = ThisVersion
  /\ step # "claims" => DOMAIN listed = {}

\* A NodeClaim still of the version before: it carries the hash it was launched with.
OldClaim(c) ==
  claims[c].version \notin {"", ThisVersion} =>
    /\ claims[c].phase = "launched" /\ ~claims[c].overlap
    /\ claims[c].hash = [version |-> claims[c].version, spec |-> claims[c].built]
    /\ seen.version # ThisVersion => claims[c].built <= seen.hash.spec
    /\ nodeClass.version # ThisVersion => claims[c].built <= nodeClass.hash.spec
    /\ claims[c].drifted => claims[c].built < nodeClass.spec

\* While an update runs, the NodeClass it works from is no older than what a
\* NodeClaim it may meet was built from.
BuiltBefore(c) ==
  claims[c].phase \in {"launching", "launched"} /\ ~claims[c].overlap =>
    ~Updating \/ (claims[c].built <= copy.spec /\ claims[c].built <= seen.spec)

\* The hash is the right one, or any would do.
HashFits(c) ==
  claims[c].phase = "launched" /\ ~claims[c].overlap /\ claims[c].version = ThisVersion =>
    claims[c].hash = HashOf(claims[c].built) \/ claims[c].built < nodeClass.spec

\* A copy of NodeClaim c that is to be updated and shows it drifted is right.
CopyFits(c, copied) ==
  copied.drifted /\ copied.version # ThisVersion =>
    \/ claims[c].phase = "gone"
    \/ claims[c].phase = "launched" /\ claims[c].built < nodeClass.spec

ClaimInv(c) ==
  /\ claims[c].built <= nodeClass.spec
  /\ claims[c].version = "" => ~claims[c].drifted
  /\ OldClaim(c) /\ BuiltBefore(c) /\ HashFits(c)
  /\ CopyFits(c, claimSeen[c])
  /\ c \in DOMAIN listed => CopyFits(c, listed[c])

DriftInv == DriftTypeOK /\ Ordered /\ \A c \in Claim : ClaimInv(c)

-----------------------------------------------------------------------------
(* Records *)

HashValue == [version : Versions, spec : 0..MaxSpec]
Number == 0..MaxSpec
Positive == 1..MaxSpec
Phase == {"absent", "launching", "launched", "gone"}

LEMMA HashTyped ==
  ASSUME NEW v \in Versions, NEW n \in 0..MaxSpec
  PROVE  [version |-> v, spec |-> n] \in HashValue
BY DEF HashValue

LEMMA ClaimTyped ==
  ASSUME NEW p \in {"absent", "launching", "launched", "gone"}, NEW b \in 0..MaxSpec,
         NEW h \in HashValue, NEW v \in Versions, NEW d \in BOOLEAN, NEW o \in BOOLEAN
  PROVE  [phase |-> p, built |-> b, hash |-> h, version |-> v, drifted |-> d, overlap |-> o]
           \in NodeClaim
BY DEF NodeClaim, HashValue

LEMMA ClassTyped ==
  ASSUME NEW n \in 1..MaxSpec, NEW h \in HashValue, NEW v \in Versions
  PROVE  [spec |-> n, hash |-> h, version |-> v] \in NodeClass
BY DEF NodeClass, HashValue

LEMMA ClaimFields ==
  ASSUME NEW x \in NodeClaim
  PROVE  /\ x.phase \in {"absent", "launching", "launched", "gone"}
         /\ x.built \in 0..MaxSpec /\ x.hash \in HashValue /\ x.version \in Versions
         /\ x.drifted \in BOOLEAN /\ x.overlap \in BOOLEAN
         /\ x = [phase |-> x.phase, built |-> x.built, hash |-> x.hash,
                 version |-> x.version, drifted |-> x.drifted, overlap |-> x.overlap]
BY DEF NodeClaim, HashValue

LEMMA ClassFields ==
  ASSUME MaxSpec \in Nat, NEW x \in NodeClass
  PROVE  /\ x.spec \in 1..MaxSpec /\ x.hash \in HashValue /\ x.version \in Versions
         /\ x.spec \in Nat /\ x.hash.spec \in Nat /\ x.hash.version \in Versions
         /\ x = [spec |-> x.spec, hash |-> x.hash, version |-> x.version]
BY DEF NodeClass, HashValue

\* What a step writes into a record, field by field.
LEMMA ClassSet ==
  NodeClass = [spec : Positive, hash : HashValue, version : Versions]
BY DEF NodeClass, HashValue, Positive

LEMMA ClaimSet ==
  NodeClaim = [phase : Phase, built : Number, hash : HashValue, version : Versions,
                     drifted : BOOLEAN, overlap : BOOLEAN]
BY DEF NodeClaim, HashValue, Number, Phase

LEMMA NoClaimTyped ==
  ASSUME MaxSpec \in Nat PROVE NoClaim \in NodeClaim
<1>1. NoHash \in HashValue
  BY DEF NoHash, HashValue, Versions
<1>2. 0 \in 0..MaxSpec /\ "" \in Versions
  BY DEF Versions
<1> QED BY <1>1, <1>2, ClaimTyped DEF NoClaim

LEMMA NoClaimFields ==
  /\ NoClaim.phase = "absent" /\ NoClaim.built = 0 /\ NoClaim.version = ""
  /\ ~NoClaim.drifted /\ ~NoClaim.overlap
<1>1. NoClaim.phase = "absent" /\ NoClaim.built = 0 /\ NoClaim.version = ""
  BY DEF NoClaim
<1>2. ~NoClaim.drifted
  BY Zenon DEF NoClaim
<1>3. ~NoClaim.overlap
  BY Zenon DEF NoClaim
<1> QED BY <1>1, <1>2, <1>3

LEMMA NothingListed == DOMAIN Nothing = {}
BY DEF Nothing

-----------------------------------------------------------------------------
(* The initial states *)

LEMMA DriftInitial ==
  ASSUME Parameters, DriftInit PROVE DriftInv
<1>1. PICK n \in StartSpecs, before \in Deployments :
        /\ nodeClass = [spec |-> n, hash |-> [version |-> before.version, spec |-> n],
                        version |-> before.version]
        /\ \E left \in [before.existing -> LeftBehind(n, before.version)] :
             /\ \A c \in before.existing : left[c].drifted => left[c].built # n
             /\ claims = [c \in Claim |-> IF c \in before.existing THEN left[c] ELSE NoClaim]
  BY DEF DriftInit
<1>0. MaxSpec \in Nat /\ StartSpecs \subseteq 1..MaxSpec
  BY Zenon DEF Parameters
<1>2. n \in 1..MaxSpec /\ MaxSpec \in Nat /\ n \in Nat /\ n \in 0..MaxSpec
  BY <1>0
<1>3. before.version \in Versions \ {""} /\ before.existing \subseteq Claim
  BY DEF Parameters
<1>4. nodeClass \in NodeClass
  BY <1>1, <1>2, <1>3, HashTyped, ClassTyped
<1>5. ASSUME NEW x \in LeftBehind(n, before.version)
      PROVE  /\ x \in NodeClaim
             /\ x.built <= n /\ x.built \in Nat /\ x.phase = "launched" /\ ~x.overlap
             /\ x.version = before.version
             /\ x.hash = [version |-> before.version, spec |-> x.built]
  <2>1. PICK b \in 1..n, d \in BOOLEAN :
          x = [phase |-> "launched", built |-> b,
               hash |-> [version |-> before.version, spec |-> b],
               version |-> before.version, drifted |-> d, overlap |-> FALSE]
    BY DEF LeftBehind
  <2>2. b \in 0..MaxSpec /\ b <= n /\ b \in Nat
    BY <1>2
  <2>3. [version |-> before.version, spec |-> b] \in HashValue
    BY <1>3, <2>2, HashTyped
  <2>4. x \in NodeClaim
    BY <1>3, <2>1, <2>2, <2>3, ClaimTyped
  <2> QED BY <2>1, <2>2, <2>4
<1>6. ASSUME NEW c \in Claim
      PROVE  \/ claims[c] = NoClaim
             \/ /\ claims[c] \in LeftBehind(n, before.version)
                /\ claims[c].drifted => claims[c].built # n
  BY <1>1
<1>7. claims \in [Claim -> NodeClaim]
  BY <1>0, <1>1, <1>5, NoClaimTyped
<1>8. DriftTypeOK
  BY <1>4, <1>7 DEF DriftInit, DriftTypeOK, Nothing
<1>9. Ordered
  <2>1. /\ nodeClass.spec = n /\ nodeClass.version = before.version
        /\ nodeClass.hash.spec = n /\ nodeClass.hash.version = before.version
    BY <1>1
  <2>2. seen = nodeClass /\ copy = nodeClass /\ DOMAIN listed = {}
    BY NothingListed DEF DriftInit
  <2>3. /\ seen.spec = n /\ seen.version = before.version /\ copy.spec = n
        /\ seen.hash.spec = n /\ seen.hash.version = before.version
    BY <2>1, <2>2
  <2>4. n <= n
    BY <1>2
  <2>5. before.version # ""
    BY <1>3, Zenon
  <2> QED BY <2>1, <2>2, <2>3, <2>4, <2>5 DEF Ordered
<1>10. ASSUME NEW c \in Claim PROVE ClaimInv(c)
  <2>0. /\ seen = nodeClass /\ copy = nodeClass /\ DOMAIN listed = {} /\ claimSeen = claims
        /\ nodeClass.spec = n /\ nodeClass.version = before.version
        /\ nodeClass.hash.spec = n
    BY <1>1, NothingListed DEF DriftInit
  <2>1. CASE claims[c] = NoClaim
    <3>1. /\ claims[c].built = 0 /\ claims[c].phase = "absent" /\ claims[c].version = ""
          /\ ~claims[c].drifted
      BY <2>1, NoClaimFields
    <3>2. claimSeen[c] = claims[c]
      BY <2>0
    <3>3. OldClaim(c)
      BY <3>1 DEF OldClaim
    <3>4. BuiltBefore(c) /\ HashFits(c)
      BY <3>1 DEF BuiltBefore, HashFits
    <3>5. ~claimSeen[c].drifted
      BY <3>1, <3>2, Zenon
    <3>6. CopyFits(c, claimSeen[c])
      BY <3>5, Zenon DEF CopyFits
    <3>7. claims[c].built <= nodeClass.spec
      <4>1. 0 <= n
        BY <1>2
      <4> QED BY <2>0, <3>1, <4>1
    <3> QED BY <2>0, <3>1, <3>3, <3>4, <3>6, <3>7, Zenon DEF ClaimInv
  <2>2. CASE /\ claims[c] \in LeftBehind(n, before.version)
             /\ claims[c].drifted => claims[c].built # n
    <3>1. /\ claims[c].built <= n /\ claims[c].built \in Nat
          /\ claims[c].phase = "launched" /\ ~claims[c].overlap
          /\ claims[c].version = before.version
          /\ claims[c].hash = [version |-> before.version, spec |-> claims[c].built]
      BY <1>5, <2>2
    <3>2. claims[c].drifted => claims[c].built # n
      BY <2>2, Zenon
    <3>3. claims[c].drifted => claims[c].built < n
      BY <1>2, <3>1, <3>2
    <3>4. claims[c].version # ""
      BY <1>3, <3>1, Zenon
    <3>5. claims[c].built <= nodeClass.spec
      BY <2>0, <3>1
    <3>6. OldClaim(c)
      BY <2>0, <3>1, <3>3, Zenon DEF OldClaim
    <3>7. BuiltBefore(c) /\ HashFits(c)
      BY <2>0, <3>1 DEF BuiltBefore, HashFits, HashOf, ThisVersion
    <3>8. CopyFits(c, claimSeen[c])
      BY <2>0, <3>1, <3>3, Zenon DEF CopyFits
    <3> QED BY <2>0, <3>4, <3>5, <3>6, <3>7, <3>8, Zenon DEF ClaimInv
  <2> QED BY <1>6, <2>1, <2>2
<1> QED BY <1>8, <1>9, <1>10 DEF DriftInv

-----------------------------------------------------------------------------
(* Steps that leave the NodeClaims alone *)

\* What is counted is a number.
LEMMA Numbers ==
  ASSUME MaxSpec \in Nat, DriftTypeOK
  PROVE  /\ nodeClass.spec \in Nat /\ seen.spec \in Nat /\ copy.spec \in Nat
         /\ nodeClass.hash.spec \in Nat /\ seen.hash.spec \in Nat
         /\ \A c \in Claim : claims[c].built \in Nat
BY ClassFields, ClaimFields DEF DriftTypeOK

\* A NodeClaim is in order as long as nothing that concerns it changes.
LEMMA Kept ==
  ASSUME NEW c \in Claim, ClaimInv(c), UNCHANGED <<nodeClass, seen, copy>>,
         Updating' = Updating,
         claims'[c] = claims[c], claimSeen'[c] = claimSeen[c],
         c \in DOMAIN listed' => c \in DOMAIN listed /\ listed'[c] = listed[c]
  PROVE  ClaimInv(c)'
<1>1. OldClaim(c)' = OldClaim(c)
  BY DEF OldClaim
<1>2. BuiltBefore(c)' = BuiltBefore(c)
  BY DEF BuiltBefore
<1>3. HashFits(c)' = HashFits(c)
  BY DEF HashFits
<1>4. CopyFits(c, claimSeen[c])' = CopyFits(c, claimSeen[c])
  BY DEF CopyFits
<1>5. c \in DOMAIN listed' => CopyFits(c, listed[c])'
  BY DEF CopyFits, ClaimInv
<1> QED BY <1>1, <1>2, <1>3, <1>4, <1>5 DEF ClaimInv

LEMMA StartStep ==
  ASSUME MaxSpec \in Nat, DriftInv, Start
  PROVE  DriftInv'
<1>1. /\ step = "idle" /\ copy' = seen
      /\ step' = IF seen.version # ThisVersion THEN "list" ELSE "annotate"
      /\ queued' = FALSE
      /\ UNCHANGED <<nodeClass, seen, listed, failed, claims, claimSeen>>
  BY DEF Start, ThisVersion
<1>2. DriftTypeOK /\ Ordered
  BY DEF DriftInv
<1>3. DriftTypeOK'
  BY <1>1, <1>2 DEF DriftTypeOK
<1>4. Ordered'
  BY <1>1, <1>2 DEF Ordered
<1>5. ASSUME NEW c \in Claim PROVE ClaimInv(c)'
  <2>1. ClaimInv(c)
    BY DEF DriftInv
  <2>2. BuiltBefore(c)'
    BY <1>1, <2>1 DEF ClaimInv, BuiltBefore, Updating, ThisVersion
  <2>3. /\ OldClaim(c)' = OldClaim(c) /\ HashFits(c)' = HashFits(c)
        /\ CopyFits(c, claimSeen[c])' = CopyFits(c, claimSeen[c])
    BY <1>1 DEF OldClaim, HashFits, CopyFits
  <2>4. c \in DOMAIN listed' => CopyFits(c, listed[c])'
    BY <1>1, <2>1 DEF ClaimInv, CopyFits
  <2> QED BY <1>1, <2>1, <2>2, <2>3, <2>4 DEF ClaimInv
<1> QED BY <1>3, <1>4, <1>5 DEF DriftInv

LEMMA ListStep ==
  ASSUME MaxSpec \in Nat, DriftInv, ListClaims
  PROVE  DriftInv'
<1>1. /\ step = "list" /\ step' = "claims" /\ failed' = FALSE
      /\ DOMAIN listed' = {d \in Claim : /\ claimSeen[d].phase \notin {"absent", "gone"}
                                        /\ claimSeen[d].version # ThisVersion}
      /\ \A d \in DOMAIN listed' : listed'[d] = claimSeen[d]
      /\ UNCHANGED <<nodeClass, seen, queued, copy, claims, claimSeen>>
  BY DEF ListClaims, ThisVersion
<1>2. DriftTypeOK /\ Ordered
  BY DEF DriftInv
<1>3. DriftTypeOK'
  BY <1>1, <1>2 DEF DriftTypeOK, ThisVersion
<1>4. Ordered'
  BY <1>1, <1>2 DEF Ordered
<1>5. ASSUME NEW c \in Claim PROVE ClaimInv(c)'
  <2>1. ClaimInv(c)
    BY DEF DriftInv
  <2>2. BuiltBefore(c)'
    BY <1>1, <2>1 DEF ClaimInv, BuiltBefore, Updating
  <2>3. /\ OldClaim(c)' = OldClaim(c) /\ HashFits(c)' = HashFits(c)
        /\ CopyFits(c, claimSeen[c])' = CopyFits(c, claimSeen[c])
    BY <1>1 DEF OldClaim, HashFits, CopyFits
  <2>4. c \in DOMAIN listed' => CopyFits(c, listed[c])'
    BY <1>1, <2>1, <2>3 DEF ClaimInv, CopyFits
  <2> QED BY <1>1, <2>1, <2>2, <2>3, <2>4 DEF ClaimInv
<1> QED BY <1>3, <1>4, <1>5 DEF DriftInv

LEMMA ClaimsDoneStep ==
  ASSUME MaxSpec \in Nat, DriftInv, ClaimsDone
  PROVE  DriftInv'
<1>1. /\ step = "claims" /\ DOMAIN listed = {} /\ step' \in {"idle", "annotate"}
      /\ queued' = (queued \/ failed)
      /\ UNCHANGED <<nodeClass, seen, copy, listed, failed, claims, claimSeen>>
  BY DEF ClaimsDone
<1>2. DriftTypeOK /\ Ordered
  BY DEF DriftInv
<1>3. DriftTypeOK'
  <2>1. queued' \in BOOLEAN
    BY <1>1, <1>2, Zenon DEF DriftTypeOK
  <2> QED BY <1>1, <1>2, <2>1 DEF DriftTypeOK
<1>4. Ordered'
  BY <1>1, <1>2 DEF Ordered
<1>5. ASSUME NEW c \in Claim PROVE ClaimInv(c)'
  <2>1. ClaimInv(c)
    BY DEF DriftInv
  <2>2. BuiltBefore(c)'
    BY <1>1, <2>1 DEF ClaimInv, BuiltBefore, Updating
  <2>3. /\ OldClaim(c)' = OldClaim(c) /\ HashFits(c)' = HashFits(c)
        /\ CopyFits(c, claimSeen[c])' = CopyFits(c, claimSeen[c])
    BY <1>1 DEF OldClaim, HashFits, CopyFits
  <2> QED BY <1>1, <2>1, <2>2, <2>3 DEF ClaimInv
<1> QED BY <1>3, <1>4, <1>5 DEF DriftInv

LEMMA FailsStep ==
  ASSUME MaxSpec \in Nat, DriftInv, ReconcileFails
  PROVE  DriftInv'
<1>1. /\ step \in {"list", "annotate"} /\ step' = "idle" /\ queued' = TRUE
      /\ UNCHANGED <<nodeClass, seen, copy, listed, failed, claims, claimSeen>>
  BY DEF ReconcileFails
<1>2. DriftTypeOK /\ Ordered
  BY DEF DriftInv
<1>3. DriftTypeOK'
  BY <1>1, <1>2 DEF DriftTypeOK
<1>4. Ordered'
  BY <1>1, <1>2 DEF Ordered
<1>5. ASSUME NEW c \in Claim PROVE ClaimInv(c)'
  <2>1. ClaimInv(c)
    BY DEF DriftInv
  <2>2. BuiltBefore(c)'
    BY <1>1, <2>1 DEF ClaimInv, BuiltBefore, Updating
  <2>3. /\ OldClaim(c)' = OldClaim(c) /\ HashFits(c)' = HashFits(c)
        /\ CopyFits(c, claimSeen[c])' = CopyFits(c, claimSeen[c])
    BY <1>1 DEF OldClaim, HashFits, CopyFits
  <2>4. c \notin DOMAIN listed'
    BY <1>1, <1>2 DEF Ordered
  <2> QED BY <1>1, <2>1, <2>2, <2>3, <2>4 DEF ClaimInv
<1> QED BY <1>3, <1>4, <1>5 DEF DriftInv

\* The hash written is that of the copy, which is no later than what is stored.
LEMMA AnnotateStep ==
  ASSUME MaxSpec \in Nat, DriftInv, Annotate
  PROVE  DriftInv'
<1>1. /\ step = "annotate" /\ step' = "idle"
      /\ \/ nodeClass' = nodeClass
         \/ nodeClass' = [nodeClass EXCEPT !.hash = [version |-> ThisVersion, spec |-> copy.spec],
                                           !.version = ThisVersion]
      /\ UNCHANGED <<seen, queued, copy, listed, failed, claims, claimSeen>>
  BY DEF Annotate, HashOf, ThisVersion
<1>2. DriftTypeOK /\ Ordered
  BY DEF DriftInv
<1>3. /\ nodeClass' \in NodeClass /\ nodeClass'.spec = nodeClass.spec
      /\ nodeClass'.hash.version = nodeClass'.version /\ nodeClass'.hash.spec <= nodeClass.spec
      /\ nodeClass' = nodeClass \/ nodeClass'.version = ThisVersion
      /\ nodeClass'.version # ""
  <2>1. CASE nodeClass' = nodeClass
    BY <1>2, <2>1 DEF DriftTypeOK, Ordered
  <2>2. CASE nodeClass' = [nodeClass EXCEPT !.hash = [version |-> ThisVersion, spec |-> copy.spec],
                                            !.version = ThisVersion]
    <3>1. nodeClass \in NodeClass /\ copy.spec \in 1..MaxSpec /\ copy.spec <= nodeClass.spec
      BY <1>2, ClassFields DEF DriftTypeOK, Ordered
    <3>2. ThisVersion \in Versions /\ ThisVersion # ""
      BY DEF ThisVersion, CCENodeClassHashVersion, Versions
    <3>3. copy.spec \in 0..MaxSpec
      BY <3>1
    <3>4. [version |-> ThisVersion, spec |-> copy.spec] \in HashValue
      BY <3>2, <3>3, HashTyped
    <3>5. PICK h \in HashValue : h = [version |-> ThisVersion, spec |-> copy.spec]
      BY <3>4, Zenon
    <3>6. nodeClass' = [nodeClass EXCEPT !.hash = h, !.version = ThisVersion]
      BY <2>2, <3>5, Zenon
    <3>7. /\ nodeClass' \in NodeClass /\ nodeClass'.spec = nodeClass.spec
          /\ nodeClass'.hash = h /\ nodeClass'.version = ThisVersion
      BY <3>1, <3>2, <3>6, ClassSet
    <3>8. h.version = ThisVersion /\ h.spec = copy.spec
      BY <3>5
    <3> QED BY <3>1, <3>2, <3>7, <3>8, Zenon
  <2> QED BY <1>1, <2>1, <2>2
<1>4. DriftTypeOK'
  BY <1>1, <1>2, <1>3 DEF DriftTypeOK
<1>5. Ordered'
  BY <1>1, <1>2, <1>3 DEF Ordered
<1>6. ASSUME NEW c \in Claim PROVE ClaimInv(c)'
  <2>1. ClaimInv(c)
    BY DEF DriftInv
  <2>2. BuiltBefore(c)'
    BY <1>1, <2>1 DEF ClaimInv, BuiltBefore, Updating
  <2>3. OldClaim(c)'
    BY <1>1, <1>3, <2>1 DEF ClaimInv, OldClaim
  <2>4. HashFits(c)' /\ CopyFits(c, claimSeen[c])'
    BY <1>1, <1>3, <2>1 DEF ClaimInv, HashFits, CopyFits
  <2>5. c \notin DOMAIN listed'
    BY <1>1, <1>2 DEF Ordered
  <2> QED BY <1>1, <1>3, <2>1, <2>2, <2>3, <2>4, <2>5 DEF ClaimInv
<1> QED BY <1>4, <1>5, <1>6 DEF DriftInv

LEMMA EditStep ==
  ASSUME MaxSpec \in Nat, DriftInv, EditNodeClass
  PROVE  DriftInv'
<1>1. /\ nodeClass.spec < MaxSpec /\ nodeClass' = [nodeClass EXCEPT !.spec = @ + 1]
      /\ UNCHANGED <<seen, queued, step, copy, listed, failed, claims, claimSeen>>
  BY DEF EditNodeClass, controller
<1>2. DriftTypeOK /\ Ordered
  BY DEF DriftInv
<1>3. /\ nodeClass' \in NodeClass /\ nodeClass'.spec = nodeClass.spec + 1
      /\ nodeClass'.hash = nodeClass.hash /\ nodeClass'.version = nodeClass.version
  <2>1. nodeClass \in NodeClass
    BY <1>2 DEF DriftTypeOK
  <2>2. /\ nodeClass' = [spec |-> nodeClass.spec + 1, hash |-> nodeClass.hash,
                         version |-> nodeClass.version]
        /\ nodeClass.spec + 1 \in 1..MaxSpec
    BY <1>1, <2>1, ClassFields
  <2> QED BY <2>1, <2>2, ClassFields, ClassTyped
<1>4. DriftTypeOK'
  BY <1>1, <1>2, <1>3 DEF DriftTypeOK
<1>5. Ordered'
  <2>1. \A k \in Nat : k <= nodeClass.spec => k <= nodeClass'.spec
    BY <1>2, <1>3, Numbers
  <2> QED BY <1>1, <1>2, <1>3, <2>1, Numbers DEF Ordered
<1>6. ASSUME NEW c \in Claim PROVE ClaimInv(c)'
  <2>1. ClaimInv(c)
    BY DEF DriftInv
  <2>2. BuiltBefore(c)' = BuiltBefore(c)
    BY <1>1 DEF BuiltBefore, Updating
  <2>3. claims[c].built <= nodeClass.spec =>
          claims[c].built <= nodeClass'.spec /\ claims[c].built < nodeClass'.spec
    BY <1>2, <1>3, Numbers
  <2>4. claims[c].built < nodeClass'.spec
    BY <2>1, <2>3 DEF ClaimInv
  <2>5. OldClaim(c)'
    BY <1>1, <1>3, <2>1, <2>4 DEF ClaimInv, OldClaim
  <2>6. HashFits(c)'
    BY <1>1, <2>4 DEF HashFits
  <2>7. CopyFits(c, claimSeen[c])'
    BY <1>1, <2>1, <2>4 DEF ClaimInv, CopyFits
  <2>8. c \in DOMAIN listed' => CopyFits(c, listed[c])'
    BY <1>1, <2>1, <2>4 DEF ClaimInv, CopyFits
  <2> QED BY <1>1, <2>1, <2>2, <2>3, <2>5, <2>6, <2>7, <2>8 DEF ClaimInv
<1> QED BY <1>4, <1>5, <1>6 DEF DriftInv

LEMMA ObservedStep ==
  ASSUME MaxSpec \in Nat, DriftInv, NodeClassObserved
  PROVE  DriftInv'
<1>1. /\ seen' = nodeClass /\ queued' = TRUE
      /\ UNCHANGED <<nodeClass, step, copy, listed, failed, claims, claimSeen>>
  BY DEF NodeClassObserved
<1>2. DriftTypeOK /\ Ordered
  BY DEF DriftInv
<1>3. DriftTypeOK'
  BY <1>1, <1>2 DEF DriftTypeOK
<1>4. Ordered'
  <2>1. nodeClass.spec <= nodeClass.spec
    BY <1>2, Numbers
  <2> QED BY <1>1, <1>2, <2>1 DEF Ordered
<1>5. ASSUME NEW c \in Claim PROVE ClaimInv(c)'
  <2>1. ClaimInv(c)
    BY DEF DriftInv
  <2>2. BuiltBefore(c)'
    BY <1>1, <1>2, <2>1 DEF ClaimInv, BuiltBefore, Updating, Ordered, ThisVersion
  <2>3. OldClaim(c)'
    BY <1>1, <2>1 DEF ClaimInv, OldClaim
  <2>4. HashFits(c)' = HashFits(c) /\ CopyFits(c, claimSeen[c])' = CopyFits(c, claimSeen[c])
    BY <1>1 DEF HashFits, CopyFits
  <2>5. c \in DOMAIN listed' => CopyFits(c, listed[c])'
    BY <1>1, <2>1 DEF ClaimInv, CopyFits
  <2> QED BY <1>1, <2>1, <2>2, <2>3, <2>4, <2>5 DEF ClaimInv
<1> QED BY <1>3, <1>4, <1>5 DEF DriftInv

LEMMA RestartStep ==
  ASSUME MaxSpec \in Nat, DriftInv, Restart
  PROVE  DriftInv'
<1>1. /\ claims' = [c \in Claim |-> IF claims[c].phase = "launching" THEN NoClaim
                                    ELSE claims[c]]
      /\ claimSeen' = claims' /\ seen' = nodeClass /\ copy' = nodeClass /\ nodeClass' = nodeClass
      /\ queued' = TRUE /\ step' = "idle" /\ failed' = FALSE
      /\ DOMAIN listed' = {}
  BY NothingListed DEF Restart, Nothing
<1>2. DriftTypeOK /\ Ordered
  BY DEF DriftInv
<1>3. claims' \in [Claim -> NodeClaim]
  BY <1>1, <1>2, NoClaimTyped DEF DriftTypeOK
<1>4. DriftTypeOK'
  BY <1>1, <1>2, <1>3 DEF DriftTypeOK
<1>5. nodeClass.spec <= nodeClass.spec
  BY <1>2, Numbers
<1>6. Ordered'
  BY <1>1, <1>2, <1>5 DEF Ordered
<1>7. ASSUME NEW c \in Claim PROVE ClaimInv(c)'
  <2>1. ClaimInv(c)
    BY DEF DriftInv
  <2>2. c \notin DOMAIN listed' /\ claimSeen'[c] = claims'[c]
    BY <1>1
  <2>3. CASE claims'[c] = NoClaim
    <3>1. /\ claims'[c].phase = "absent" /\ claims'[c].built = 0 /\ claims'[c].version = ""
          /\ ~claims'[c].drifted
      BY <2>3, NoClaimFields
    <3>2. OldClaim(c)' /\ BuiltBefore(c)' /\ HashFits(c)'
      BY <3>1 DEF OldClaim, BuiltBefore, HashFits
    <3>3. CopyFits(c, claimSeen[c])'
      <4>1. ~claimSeen'[c].drifted
        BY <2>2, <3>1, Zenon
      <4> QED BY <4>1, Zenon DEF CopyFits
    <3>4. claims'[c].built <= nodeClass'.spec
      <4>1. 0 <= nodeClass.spec
        BY <1>2, Numbers
      <4> QED BY <1>1, <3>1, <4>1
    <3> QED BY <2>2, <3>1, <3>2, <3>3, <3>4, Zenon DEF ClaimInv
  <2>4. CASE claims'[c] = claims[c] /\ claims[c].phase # "launching"
    <3>1. OldClaim(c)'
      BY <1>1, <2>1, <2>4 DEF ClaimInv, OldClaim
    <3>2. BuiltBefore(c)'
      BY <1>1, <2>1, <2>4 DEF ClaimInv, BuiltBefore
    <3>3. HashFits(c)' = HashFits(c)
      BY <1>1, <2>4 DEF HashFits
    <3>4. CopyFits(c, claimSeen[c])'
      <4>1. claims[c].drifted => claims[c].version # ""
        BY <2>1, Zenon DEF ClaimInv
      <4> QED BY <1>1, <2>1, <2>2, <2>4, <4>1 DEF ClaimInv, OldClaim, CopyFits
    <3> QED BY <1>1, <2>1, <2>2, <2>4, <3>1, <3>2, <3>3, <3>4 DEF ClaimInv
  <2> QED BY <1>1, <2>3, <2>4
<1> QED BY <1>4, <1>6, <1>7 DEF DriftInv

-----------------------------------------------------------------------------
(* Steps of one NodeClaim *)

\* The update works from a specification between the one an expected NodeClaim was
\* built from and the stored one.
LEMMA PatchStep ==
  ASSUME MaxSpec \in Nat, DriftInv, NEW c \in Claim, PatchClaim(c)
  PROVE  DriftInv'
<1>1. /\ step = "claims" /\ c \in DOMAIN listed
      /\ DOMAIN listed' = DOMAIN listed \ {c} /\ \A d \in DOMAIN listed' : listed'[d] = listed[d]
      /\ UNCHANGED <<nodeClass, seen, queued, step, copy, failed, claimSeen>>
  BY DEF PatchClaim, Listed
<1>2. DriftTypeOK /\ Ordered /\ ClaimInv(c)
  BY DEF DriftInv
<1>3. /\ claims \in [Claim -> NodeClaim] /\ copy.spec \in 1..MaxSpec
      /\ copy.spec \in 0..MaxSpec
  BY <1>2, ClassFields DEF DriftTypeOK
<1>4. \/ claims' = claims
      \/ /\ claims[c].phase # "gone"
         /\ \E h : /\ \/ listed[c].drifted /\ h = claims[c].hash
                      \/ ~listed[c].drifted /\ h = [version |-> ThisVersion, spec |-> copy.spec]
                   /\ claims' = [claims EXCEPT ![c] = [claims[c] EXCEPT !.version = ThisVersion,
                                                                        !.hash = h]]
  BY Zenon DEF PatchClaim, Updated, HashOf, ThisVersion
<1>5. Updating' = Updating
  BY <1>1 DEF Updating
<1>6. CASE claims' = claims
  <2>1. DriftTypeOK'
    BY <1>1, <1>2, <1>6 DEF DriftTypeOK
  <2>2. Ordered'
    BY <1>1, <1>2 DEF Ordered
  <2>3. ASSUME NEW d \in Claim PROVE ClaimInv(d)'
    BY <1>1, <1>5, <1>6, Kept DEF DriftInv
  <2> QED BY <2>1, <2>2, <2>3 DEF DriftInv
<1>7. CASE /\ claims[c].phase # "gone"
           /\ \E h : /\ \/ listed[c].drifted /\ h = claims[c].hash
                        \/ ~listed[c].drifted /\ h = [version |-> ThisVersion, spec |-> copy.spec]
                     /\ claims' = [claims EXCEPT ![c] = [claims[c] EXCEPT !.version = ThisVersion,
                                                                          !.hash = h]]
  <2>1. PICK h : /\ \/ listed[c].drifted /\ h = claims[c].hash
                    \/ ~listed[c].drifted /\ h = [version |-> ThisVersion, spec |-> copy.spec]
                 /\ claims' = [claims EXCEPT ![c] = [claims[c] EXCEPT !.version = ThisVersion,
                                                                      !.hash = h]]
    BY <1>7, Zenon
  <2>2. ThisVersion \in Versions /\ ThisVersion # ""
    BY DEF ThisVersion, CCENodeClassHashVersion, Versions
  <2>3. [version |-> ThisVersion, spec |-> copy.spec] \in HashValue
    BY <1>3, <2>2, HashTyped
  <2>4. claims[c].hash \in HashValue
    BY <1>3, ClaimFields
  <2>5. h \in HashValue
    BY <2>1, <2>3, <2>4, Zenon
  <2>6. /\ claims' \in [Claim -> NodeClaim] /\ \A d \in Claim \ {c} : claims'[d] = claims[d]
        /\ claims'[c].version = ThisVersion /\ claims'[c].hash = h
        /\ claims'[c].phase = claims[c].phase /\ claims'[c].built = claims[c].built
        /\ claims'[c].overlap = claims[c].overlap
    BY <1>3, <2>1, <2>2, <2>5, ClaimSet
  <2>7. DriftTypeOK'
    BY <1>1, <1>2, <2>6 DEF DriftTypeOK
  <2>8. Ordered'
    BY <1>1, <1>2 DEF Ordered
  <2>9. ASSUME NEW d \in Claim \ {c} PROVE ClaimInv(d)'
    BY <1>1, <1>5, <2>6, Kept DEF DriftInv
  <2>10. HashFits(c)'
    <3>1. SUFFICES ASSUME claims[c].phase = "launched", ~claims[c].overlap
          PROVE  h = HashOf(claims[c].built) \/ claims[c].built < nodeClass.spec
      BY <1>1, <2>6 DEF HashFits
    <3>2. CASE listed[c].drifted
      <4>1. listed[c].version # ThisVersion
        BY <1>1, <1>2 DEF DriftTypeOK, ThisVersion
      <4>2. CopyFits(c, listed[c])
        BY <1>1, <1>2, Zenon DEF ClaimInv
      <4> QED BY <3>1, <3>2, <4>1, <4>2 DEF CopyFits
    <3>3. CASE ~listed[c].drifted
      <4>1. h = [version |-> ThisVersion, spec |-> copy.spec]
        BY <2>1, <3>3, Zenon
      <4>2. claims[c].built <= copy.spec /\ copy.spec <= nodeClass.spec
        BY <1>1, <1>2, <3>1 DEF ClaimInv, BuiltBefore, Updating, Ordered
      <4>3. claims[c].built = copy.spec \/ claims[c].built < nodeClass.spec
        BY <1>2, <4>2, Numbers
      <4> QED BY <4>1, <4>3 DEF HashOf, ThisVersion
    <3> QED BY <3>2, <3>3
  <2>11. BuiltBefore(c)'
    BY <1>1, <1>2, <1>5, <2>6 DEF ClaimInv, BuiltBefore
  <2>12. CopyFits(c, claimSeen[c])'
    BY <1>1, <1>2, <2>6 DEF ClaimInv, CopyFits
  <2>13. OldClaim(c)'
    BY <2>6 DEF OldClaim
  <2>14. ClaimInv(c)'
    BY <1>1, <1>2, <2>2, <2>6, <2>10, <2>11, <2>12, <2>13 DEF ClaimInv
  <2> QED BY <2>7, <2>8, <2>9, <2>14 DEF DriftInv
<1> QED BY <1>4, <1>6, <1>7

LEMMA PatchFailsStep ==
  ASSUME MaxSpec \in Nat, DriftInv, NEW c \in Claim, PatchClaimFails(c)
  PROVE  DriftInv'
<1>1. /\ step = "claims" /\ failed' = TRUE
      /\ DOMAIN listed' = DOMAIN listed \ {c} /\ \A d \in DOMAIN listed' : listed'[d] = listed[d]
      /\ UNCHANGED <<nodeClass, seen, queued, step, copy, claims, claimSeen>>
  BY DEF PatchClaimFails, Listed
<1>2. DriftTypeOK /\ Ordered
  BY DEF DriftInv
<1>3. DriftTypeOK'
  BY <1>1, <1>2 DEF DriftTypeOK
<1>4. Ordered'
  BY <1>1, <1>2 DEF Ordered
<1>5. Updating' = Updating
  BY <1>1 DEF Updating
<1>6. ASSUME NEW d \in Claim PROVE ClaimInv(d)'
  BY <1>1, <1>5, Kept DEF DriftInv
<1> QED BY <1>3, <1>4, <1>6 DEF DriftInv

\* What the core records of c, and which of two hashes of one mechanism is the older.
LEMMA CheckChanges ==
  ASSUME NEW c \in Claim, DriftTypeOK, CheckDrift(c)
  PROVE  /\ claims' \in [Claim -> NodeClaim] /\ \A d \in Claim \ {c} : claims'[d] = claims[d]
         /\ claims[c].phase = "launched" /\ claimSeen[c] = claims[c]
         /\ claims'[c].version = claims[c].version /\ claims'[c].hash = claims[c].hash
         /\ claims'[c].phase = claims[c].phase /\ claims'[c].built = claims[c].built
         /\ claims'[c].overlap = claims[c].overlap
         /\ claims'[c].drifted => /\ claims[c].version # "" /\ claims[c].version = seen.version
                                  /\ claims[c].hash # seen.hash
         /\ UNCHANGED <<nodeClass, seen, queued, step, copy, listed, failed, claimSeen>>
<1>1. PICK b \in BOOLEAN : b = AreStaticFieldsDrifted(claimSeen[c], seen)
  BY Zenon DEF AreStaticFieldsDrifted
<1>2. /\ claims[c].phase = "launched" /\ claimSeen[c] = claims[c]
      /\ claims' = [claims EXCEPT ![c].drifted = b]
      /\ UNCHANGED <<nodeClass, seen, queued, step, copy, listed, failed, claimSeen>>
  BY <1>1, Zenon DEF CheckDrift, controller
<1>3. claims \in [Claim -> NodeClaim]
  BY DEF DriftTypeOK
<1>4. /\ claims' \in [Claim -> NodeClaim] /\ \A d \in Claim \ {c} : claims'[d] = claims[d]
      /\ claims'[c].version = claims[c].version /\ claims'[c].hash = claims[c].hash
      /\ claims'[c].phase = claims[c].phase /\ claims'[c].built = claims[c].built
      /\ claims'[c].overlap = claims[c].overlap /\ claims'[c].drifted = b
  BY <1>2, <1>3, ClaimSet
<1>5. b => /\ claims[c].version # "" /\ claims[c].version = seen.version
           /\ claims[c].hash # seen.hash
  BY <1>1, <1>2, Zenon DEF AreStaticFieldsDrifted
<1>6. claims'[c].drifted => /\ claims[c].version # "" /\ claims[c].version = seen.version
                            /\ claims[c].hash # seen.hash
  BY <1>4, <1>5, Zenon
<1> QED BY <1>2, <1>4, <1>6

\* A NodeClaim of an older version that differs from what the NodeClass says of
\* that version was built from a specification that has been edited.
LEMMA CheckStep ==
  ASSUME MaxSpec \in Nat, DriftInv, NEW c \in Claim, CheckDrift(c)
  PROVE  DriftInv'
<1>1. DriftTypeOK /\ Ordered /\ ClaimInv(c)
  BY DEF DriftInv
<1>2. /\ claims' \in [Claim -> NodeClaim] /\ \A d \in Claim \ {c} : claims'[d] = claims[d]
      /\ claims[c].phase = "launched" /\ claimSeen[c] = claims[c]
      /\ claims'[c].version = claims[c].version /\ claims'[c].hash = claims[c].hash
      /\ claims'[c].phase = claims[c].phase /\ claims'[c].built = claims[c].built
      /\ claims'[c].overlap = claims[c].overlap
      /\ UNCHANGED <<nodeClass, seen, queued, step, copy, listed, failed, claimSeen>>
  BY <1>1, CheckChanges
<1>3. claims'[c].drifted => /\ claims[c].version # "" /\ claims[c].version = seen.version
                            /\ claims[c].hash # seen.hash
  BY <1>1, CheckChanges
<1>4. DriftTypeOK'
  BY <1>1, <1>2 DEF DriftTypeOK
<1>5. Ordered'
  BY <1>1, <1>2 DEF Ordered
<1>6. Updating' = Updating
  BY <1>2 DEF Updating
<1>7. ASSUME NEW d \in Claim \ {c} PROVE ClaimInv(d)'
  BY <1>2, <1>6, Kept DEF DriftInv
<1>8. OldClaim(c)'
  <2>1. SUFFICES ASSUME claims[c].version \notin {"", ThisVersion}
        PROVE  OldClaim(c)'
    BY <1>2 DEF OldClaim
  <2>2. /\ claims[c].hash = [version |-> claims[c].version, spec |-> claims[c].built]
        /\ seen.version # ThisVersion => claims[c].built <= seen.hash.spec
    BY <1>1, <2>1 DEF ClaimInv, OldClaim
  <2>3. ASSUME claims'[c].drifted PROVE claims[c].built < nodeClass.spec
    <3>1. claims[c].version = seen.version /\ claims[c].hash # seen.hash
      BY <1>3, <2>3, Zenon
    <3>2. seen.hash = [version |-> seen.version, spec |-> seen.hash.spec]
      <4>1. seen.hash \in HashValue /\ seen.hash.version = seen.version
        BY <1>1, ClassFields DEF DriftTypeOK, Ordered
      <4> QED BY <4>1 DEF HashValue
    <3>3. claims[c].built # seen.hash.spec
      BY <2>2, <3>1, <3>2, Zenon
    <3>4. claims[c].built <= seen.hash.spec /\ seen.hash.spec <= nodeClass.spec
      BY <1>1, <2>1, <2>2, <3>1 DEF Ordered
    <3> QED BY <1>1, <3>3, <3>4, Numbers
  <2>4. claims'[c].drifted => claims'[c].built < nodeClass'.spec
    BY <1>2, <2>3, Zenon
  <2> QED BY <1>1, <1>2, <2>1, <2>4 DEF ClaimInv, OldClaim
<1>9. BuiltBefore(c)' /\ HashFits(c)' /\ CopyFits(c, claimSeen[c])'
  BY <1>1, <1>2, <1>6 DEF ClaimInv, BuiltBefore, HashFits, CopyFits
<1>10. c \in DOMAIN listed' => CopyFits(c, listed[c])'
  BY <1>1, <1>2 DEF ClaimInv, CopyFits
<1>11. claims'[c].version = "" => ~claims'[c].drifted
  BY <1>2, <1>3, Zenon
<1>12. ClaimInv(c)'
  BY <1>1, <1>2, <1>8, <1>9, <1>10, <1>11 DEF ClaimInv
<1> QED BY <1>4, <1>5, <1>7, <1>12 DEF DriftInv

LEMMA BeginStep ==
  ASSUME MaxSpec \in Nat, DriftInv, NEW c \in Claim, CreateBegins(c)
  PROVE  DriftInv'
<1>1. DriftTypeOK /\ Ordered /\ ClaimInv(c)
  BY DEF DriftInv
<1>2. PICK o \in BOOLEAN : o = Updating
  BY Zenon DEF Updating
<1>3. /\ claims[c].phase = "absent"
      /\ claims' = [claims EXCEPT ![c] = [NoClaim EXCEPT !.phase = "launching",
                                                              !.built = seen.spec, !.overlap = o]]
      /\ UNCHANGED <<nodeClass, seen, queued, step, copy, listed, failed, claimSeen>>
  BY <1>2, Zenon DEF CreateBegins, controller
<1>4. claims \in [Claim -> NodeClaim] /\ seen.spec \in 1..MaxSpec
  BY <1>1, ClassFields DEF DriftTypeOK
<1>5. PICK x \in NodeClaim :
        x = [NoClaim EXCEPT !.phase = "launching", !.built = seen.spec, !.overlap = o]
  <2>1. seen.spec \in Number /\ "launching" \in Phase
    BY <1>4 DEF Number, Phase
  <2> QED BY <2>1, NoClaimTyped, ClaimSet
<1>6. /\ x.phase = "launching" /\ x.built = seen.spec /\ x.version = "" /\ x.overlap = o
      /\ ~x.drifted
  <2>1. /\ x.phase = "launching" /\ x.built = seen.spec /\ x.overlap = o
        /\ x.version = NoClaim.version /\ x.drifted = NoClaim.drifted
    BY <1>5, NoClaimTyped, ClaimSet
  <2> QED BY <2>1, NoClaimFields, Zenon
<1>7. /\ claims' = [claims EXCEPT ![c] = x]
      /\ claims' \in [Claim -> NodeClaim] /\ claims'[c] = x
      /\ \A d \in Claim \ {c} : claims'[d] = claims[d]
  BY <1>3, <1>4, <1>5
<1>8. DriftTypeOK'
  BY <1>1, <1>3, <1>7 DEF DriftTypeOK
<1>9. Ordered'
  BY <1>1, <1>3 DEF Ordered
<1>10. Updating' = Updating
  BY <1>3 DEF Updating
<1>11. ASSUME NEW d \in Claim \ {c} PROVE ClaimInv(d)'
  BY <1>3, <1>7, <1>10, Kept DEF DriftInv
<1>12. OldClaim(c)' /\ HashFits(c)'
  BY <1>6, <1>7 DEF OldClaim, HashFits
<1>13. BuiltBefore(c)'
  <2>1. claims'[c].overlap = Updating'
    BY <1>2, <1>6, <1>7, <1>10, Zenon
  <2> QED BY <2>1, Zenon DEF BuiltBefore
<1>14. CopyFits(c, claimSeen[c])'
  BY <1>1, <1>3 DEF ClaimInv, CopyFits
<1>15. c \in DOMAIN listed' => CopyFits(c, listed[c])'
  BY <1>1, <1>3 DEF ClaimInv, CopyFits
<1>16. claims'[c].built <= nodeClass'.spec /\ ~claims'[c].drifted
  <2>1. seen.spec <= nodeClass.spec
    BY <1>1 DEF Ordered
  <2> QED BY <1>3, <1>6, <1>7, <2>1
<1>17. ClaimInv(c)'
  BY <1>12, <1>13, <1>14, <1>15, <1>16, Zenon DEF ClaimInv
<1> QED BY <1>8, <1>9, <1>11, <1>17 DEF DriftInv

LEMMA EndStep ==
  ASSUME MaxSpec \in Nat, DriftInv, NEW c \in Claim, CreateEnds(c)
  PROVE  DriftInv'
<1>1. DriftTypeOK /\ Ordered /\ ClaimInv(c)
  BY DEF DriftInv
<1>2. /\ claims[c].phase = "launching"
      /\ claims' = [claims EXCEPT ![c].phase = "launched",
                                  ![c].hash = [version |-> ThisVersion, spec |-> claims[c].built],
                                  ![c].version = ThisVersion]
      /\ UNCHANGED <<nodeClass, seen, queued, step, copy, listed, failed, claimSeen>>
  BY DEF CreateEnds, controller, HashOf, ThisVersion
<1>3. claims \in [Claim -> NodeClaim] /\ claims[c].built \in 0..MaxSpec
  BY <1>1, ClaimFields DEF DriftTypeOK
<1>4. ThisVersion \in Versions /\ ThisVersion # ""
  BY DEF ThisVersion, CCENodeClassHashVersion, Versions
<1>5. [version |-> ThisVersion, spec |-> claims[c].built] \in HashValue
  BY <1>3, <1>4, HashTyped
<1>6. PICK h \in HashValue : h = [version |-> ThisVersion, spec |-> claims[c].built]
  BY <1>5, Zenon
<1>7. claims' = [claims EXCEPT ![c].phase = "launched", ![c].hash = h, ![c].version = ThisVersion]
  BY <1>2, <1>6, Zenon
<1>8. "launched" \in Phase
  BY DEF Phase
<1>9. /\ claims' \in [Claim -> NodeClaim] /\ \A d \in Claim \ {c} : claims'[d] = claims[d]
      /\ claims'[c].version = ThisVersion /\ claims'[c].hash = h
      /\ claims'[c].phase = "launched" /\ claims'[c].built = claims[c].built
      /\ claims'[c].overlap = claims[c].overlap
  <2>1. PICK n \in NodeClaim : n = [claims[c] EXCEPT !.phase = "launched", !.hash = h,
                                                    !.version = ThisVersion]
    BY <1>3, <1>4, <1>8, ClaimSet
  <2>2. /\ n.version = ThisVersion /\ n.hash = h /\ n.phase = "launched"
        /\ n.built = claims[c].built /\ n.overlap = claims[c].overlap
    <3>1. claims[c] \in NodeClaim
      BY <1>3
    <3> QED BY <2>1, <3>1, ClaimSet
  <2>3. claims' = [claims EXCEPT ![c] = n]
    BY <1>7, <2>1
  <2> QED BY <1>3, <2>2, <2>3
<1>10. DriftTypeOK'
  BY <1>1, <1>2, <1>9 DEF DriftTypeOK
<1>11. Ordered'
  BY <1>1, <1>2 DEF Ordered
<1>12. Updating' = Updating
  BY <1>2 DEF Updating
<1>13. ASSUME NEW d \in Claim \ {c} PROVE ClaimInv(d)'
  BY <1>2, <1>9, <1>12, Kept DEF DriftInv
<1>14. OldClaim(c)'
  BY <1>9 DEF OldClaim
<1>15. HashFits(c)'
  BY <1>6, <1>9 DEF HashFits, HashOf, ThisVersion
<1>16. BuiltBefore(c)'
  BY <1>1, <1>2, <1>9, <1>12 DEF ClaimInv, BuiltBefore
<1>17. CopyFits(c, claimSeen[c])' /\ (c \in DOMAIN listed' => CopyFits(c, listed[c])')
  BY <1>1, <1>2 DEF ClaimInv, CopyFits
<1>18. ClaimInv(c)'
  BY <1>1, <1>2, <1>4, <1>9, <1>14, <1>15, <1>16, <1>17 DEF ClaimInv
<1> QED BY <1>10, <1>11, <1>13, <1>18 DEF DriftInv

LEMMA TerminatedStep ==
  ASSUME MaxSpec \in Nat, DriftInv, NEW c \in Claim, ClaimTerminated(c)
  PROVE  DriftInv'
<1>1. DriftTypeOK /\ Ordered /\ ClaimInv(c)
  BY DEF DriftInv
<1>2. /\ claims' = [claims EXCEPT ![c] = [NoClaim EXCEPT !.phase = "gone"]]
      /\ UNCHANGED <<nodeClass, seen, queued, step, copy, listed, failed, claimSeen>>
  BY DEF ClaimTerminated, controller
<1>3. claims \in [Claim -> NodeClaim]
  BY <1>1 DEF DriftTypeOK
<1>4. PICK x \in NodeClaim : x = [NoClaim EXCEPT !.phase = "gone"]
  <2>1. "gone" \in Phase
    BY DEF Phase
  <2> QED BY <2>1, NoClaimTyped, ClaimSet
<1>5. x.phase = "gone" /\ x.built = 0 /\ x.version = "" /\ ~x.drifted
  <2>1. /\ x.phase = "gone" /\ x.built = NoClaim.built
        /\ x.version = NoClaim.version /\ x.drifted = NoClaim.drifted
    BY <1>4, NoClaimTyped, ClaimSet
  <2> QED BY <2>1, NoClaimFields, Zenon
<1>6. /\ claims' = [claims EXCEPT ![c] = x]
      /\ claims' \in [Claim -> NodeClaim] /\ claims'[c] = x
      /\ \A d \in Claim \ {c} : claims'[d] = claims[d]
  BY <1>2, <1>3, <1>4
<1>7. DriftTypeOK'
  BY <1>1, <1>2, <1>6 DEF DriftTypeOK
<1>8. Ordered'
  BY <1>1, <1>2 DEF Ordered
<1>9. Updating' = Updating
  BY <1>2 DEF Updating
<1>10. ASSUME NEW d \in Claim \ {c} PROVE ClaimInv(d)'
  BY <1>2, <1>6, <1>9, Kept DEF DriftInv
<1>11. OldClaim(c)' /\ HashFits(c)' /\ BuiltBefore(c)'
  BY <1>5, <1>6 DEF OldClaim, HashFits, BuiltBefore
<1>12. CopyFits(c, claimSeen[c])' /\ (c \in DOMAIN listed' => CopyFits(c, listed[c])')
  BY <1>5, <1>6 DEF CopyFits
<1>13. claims'[c].built <= nodeClass'.spec
  <2>1. 0 <= nodeClass.spec
    BY <1>1, Numbers
  <2> QED BY <1>2, <1>5, <1>6, <2>1
<1>14. ClaimInv(c)'
  BY <1>5, <1>6, <1>11, <1>12, <1>13, Zenon DEF ClaimInv
<1> QED BY <1>7, <1>8, <1>10, <1>14 DEF DriftInv

LEMMA ClaimObservedStep ==
  ASSUME MaxSpec \in Nat, DriftInv, NEW c \in Claim, ClaimObserved(c)
  PROVE  DriftInv'
<1>1. DriftTypeOK /\ Ordered /\ ClaimInv(c)
  BY DEF DriftInv
<1>2. /\ claimSeen' = [claimSeen EXCEPT ![c] = claims[c]]
      /\ UNCHANGED <<nodeClass, seen, queued, step, copy, listed, failed, claims>>
  BY DEF ClaimObserved, controller
<1>3. /\ claimSeen' \in [Claim -> NodeClaim] /\ claimSeen'[c] = claims[c]
      /\ \A d \in Claim \ {c} : claimSeen'[d] = claimSeen[d]
  BY <1>1, <1>2 DEF DriftTypeOK
<1>4. DriftTypeOK'
  BY <1>1, <1>2, <1>3 DEF DriftTypeOK
<1>5. Ordered'
  BY <1>1, <1>2 DEF Ordered
<1>6. Updating' = Updating
  BY <1>2 DEF Updating
<1>7. ASSUME NEW d \in Claim \ {c} PROVE ClaimInv(d)'
  BY <1>2, <1>3, <1>6, Kept DEF DriftInv
<1>8. OldClaim(c)' = OldClaim(c) /\ HashFits(c)' = HashFits(c) /\ BuiltBefore(c)' = BuiltBefore(c)
  BY <1>2, <1>6 DEF OldClaim, HashFits, BuiltBefore
<1>9. CopyFits(c, claimSeen[c])'
  <2>1. claims[c].drifted => claims[c].version # ""
    BY <1>1, Zenon DEF ClaimInv
  <2> QED BY <1>1, <1>2, <1>3, <2>1 DEF ClaimInv, OldClaim, CopyFits
<1>10. c \in DOMAIN listed' => CopyFits(c, listed[c])'
  BY <1>1, <1>2 DEF ClaimInv, CopyFits
<1>11. ClaimInv(c)'
  BY <1>1, <1>2, <1>8, <1>9, <1>10 DEF ClaimInv
<1> QED BY <1>4, <1>5, <1>7, <1>11 DEF DriftInv

-----------------------------------------------------------------------------
(* The theorems about drift *)

LEMMA DriftStep ==
  ASSUME Parameters, DriftInv, [DriftNext]_driftVars
  PROVE  DriftInv'
<1>0. MaxSpec \in Nat
  BY Zenon DEF Parameters
<1>1. CASE \/ Start \/ ListClaims \/ ClaimsDone \/ Annotate
           \/ ReconcileFails \/ EditNodeClass \/ NodeClassObserved \/ Restart
  BY <1>0, <1>1, StartStep, ListStep, ClaimsDoneStep, AnnotateStep, FailsStep, EditStep,
     ObservedStep, RestartStep
<1>2. ASSUME NEW c \in Claim,
             \/ PatchClaim(c) \/ PatchClaimFails(c) \/ CheckDrift(c)
             \/ CreateBegins(c) \/ CreateEnds(c)
             \/ ClaimTerminated(c) \/ ClaimObserved(c)
      PROVE  DriftInv'
  BY <1>0, <1>2, PatchStep, PatchFailsStep, CheckStep, BeginStep, EndStep, TerminatedStep,
     ClaimObservedStep
<1>3. CASE UNCHANGED driftVars
  <2>1. UNCHANGED <<nodeClass, seen, queued, step, copy, listed, failed, claims, claimSeen>>
    BY <1>3 DEF driftVars, controller
  <2>2. DriftTypeOK' /\ Ordered'
    BY <2>1 DEF DriftInv, DriftTypeOK, Ordered
  <2>3. Updating' = Updating
    BY <2>1 DEF Updating
  <2>4. ASSUME NEW c \in Claim PROVE ClaimInv(c)'
    BY <2>1, <2>3, Kept DEF DriftInv
  <2> QED BY <2>2, <2>4 DEF DriftInv
<1> QED BY <1>1, <1>2, <1>3 DEF DriftNext

LEMMA DriftInvariance ==
  ASSUME Parameters PROVE DriftSpec => []DriftInv
<1>1. DriftInit => DriftInv
  BY DriftInitial
<1>2. DriftInv /\ [DriftNext]_driftVars => DriftInv'
  BY DriftStep
<1> QED BY <1>1, <1>2, PTL DEF DriftSpec

\* The variables of NodeClassHash keep their types, for every set of NodeClaims,
\* every build there may have been before and every number of edits.
THEOREM DriftTypeCorrect == DriftSpec => []DriftTypeOK
<1>1. Parameters
  BY Assumed
<1>2. DriftSpec => []DriftInv
  BY <1>1, DriftInvariance
<1>3. DriftInv => DriftTypeOK
  BY DEF DriftInv
<1> QED BY <1>2, <1>3, PTL

\* No step but the core's check makes a NodeClaim drifted.
LEMMA OnlyChecksFind ==
  ASSUME MaxSpec \in Nat, DriftTypeOK, DriftNext, NEW c \in Claim,
         claims'[c].drifted, ~claims[c].drifted
  PROVE  CheckDrift(c)
<1>0. claims \in [Claim -> NodeClaim]
  BY DEF DriftTypeOK
<1>1. claims' # claims
  OBVIOUS
<1>2. CASE Restart
  <2>1. claims'[c] = claims[c] \/ claims'[c] = NoClaim
    BY <1>2 DEF Restart
  <2> QED BY <2>1, NoClaimFields, Zenon
<1>3. ASSUME NEW d \in Claim, PatchClaim(d) PROVE FALSE
  <2>1. PICK h : \/ claims' = claims
                 \/ claims' = [claims EXCEPT ![d] = [claims[d] EXCEPT !.version = ThisVersion,
                                                                      !.hash = h]]
    BY <1>3, Zenon DEF PatchClaim, Updated, ThisVersion
  <2>2. claims'[c].drifted = claims[c].drifted
    BY <1>0, <2>1, ClaimSet
  <2> QED BY <2>2, Zenon
<1>4. ASSUME NEW d \in Claim, CreateEnds(d) PROVE FALSE
  <2>1. PICK h : claims' = [claims EXCEPT ![d].phase = "launched", ![d].hash = h,
                                          ![d].version = ThisVersion]
    BY <1>4, Zenon DEF CreateEnds, ThisVersion
  <2>2. claims'[c].drifted = claims[c].drifted
    BY <1>0, <2>1, ClaimSet
  <2> QED BY <2>2, Zenon
<1>5. ASSUME NEW d \in Claim, CreateBegins(d) PROVE FALSE
  <2>1. PICK x : /\ x = [NoClaim EXCEPT !.phase = "launching", !.built = seen.spec,
                                              !.overlap = Updating]
                 /\ claims' = [claims EXCEPT ![d] = x]
    BY <1>5, Zenon DEF CreateBegins
  <2>2. x.drifted = NoClaim.drifted
    BY <2>1, NoClaimTyped, ClaimSet
  <2>3. claims'[c] = claims[c] \/ claims'[c] = x
    BY <1>0, <2>1
  <2> QED BY <2>2, <2>3, NoClaimFields, Zenon
<1>6. ASSUME NEW d \in Claim, ClaimTerminated(d) PROVE FALSE
  <2>1. PICK x : /\ x = [NoClaim EXCEPT !.phase = "gone"]
                 /\ claims' = [claims EXCEPT ![d] = x]
    BY <1>6, Zenon DEF ClaimTerminated
  <2>2. x.drifted = NoClaim.drifted
    BY <2>1, NoClaimTyped, ClaimSet
  <2>3. claims'[c] = claims[c] \/ claims'[c] = x
    BY <1>0, <2>1
  <2> QED BY <2>2, <2>3, NoClaimFields, Zenon
<1>7. ASSUME NEW d \in Claim \ {c}, CheckDrift(d) PROVE FALSE
  <2>1. claims'[c] = claims[c]
    BY <1>7, CheckChanges
  <2> QED BY <2>1, Zenon
<1>8. \/ claims' = claims \/ Restart
      \/ \E d \in Claim : \/ PatchClaim(d) \/ CheckDrift(d) \/ CreateBegins(d)
                          \/ CreateEnds(d) \/ ClaimTerminated(d)
  BY DEF DriftNext, Start, ListClaims, ClaimsDone, Annotate,
         ReconcileFails, EditNodeClass, NodeClassObserved, PatchClaimFails,
         ClaimObserved
<1> QED BY <1>1, <1>2, <1>3, <1>4, <1>5, <1>6, <1>7, <1>8

LEMMA FoundForCause ==
  ASSUME Parameters, DriftInv, [DriftNext]_driftVars, NEW c \in Claim,
         FoundDrifted(c), ~claims[c].overlap
  PROVE  claims[c].built # nodeClass.spec
<1>1. MaxSpec \in Nat /\ DriftTypeOK /\ HashFits(c)
  BY Zenon DEF Parameters, DriftInv, ClaimInv
<1>2. /\ claims'[c].drifted /\ ~claims[c].drifted
      /\ seen = nodeClass /\ nodeClass.hash = HashOf(nodeClass.spec)
  BY Zenon DEF FoundDrifted
<1>3. DriftNext
  <2>1. claims' # claims
    BY <1>2
  <2> QED BY <2>1 DEF driftVars
<1>4. CheckDrift(c)
  BY <1>1, <1>2, <1>3, OnlyChecksFind
<1>5. /\ claims[c].phase = "launched"
      /\ claims[c].version = seen.version /\ claims[c].hash # seen.hash
  BY <1>1, <1>2, <1>4, CheckChanges, Zenon
<1>6. seen.version = ThisVersion
  <2>1. HashOf(nodeClass.spec).version = ThisVersion
    BY DEF HashOf, ThisVersion
  <2>2. seen.hash.version = seen.version
    BY DEF DriftInv, Ordered
  <2> QED BY <1>2, <2>1, <2>2, Zenon
<1>7. claims[c].hash = HashOf(claims[c].built) \/ claims[c].built < nodeClass.spec
  BY <1>1, <1>5, <1>6, Zenon DEF HashFits
<1>8. ~(nodeClass.spec < nodeClass.spec)
  BY <1>1, Numbers
<1> QED BY <1>2, <1>5, <1>7, <1>8, Zenon

\* A NodeClaim that is found to be drifted while the annotation and the cache of the
\* NodeClass are up to date was built from another specification, unless it was
\* launched while an update was due or under way.
THEOREM DriftFound == DriftSpec => DriftFoundIsReal
<1>1. Parameters
  BY Assumed
<1>2. DriftSpec => []DriftInv
  BY <1>1, DriftInvariance
<1>3. ASSUME DriftInv, [DriftNext]_driftVars, NEW c \in Claim, FoundDrifted(c),
             ~claims[c].overlap
      PROVE  claims[c].built # nodeClass.spec
  BY <1>1, <1>3, FoundForCause
<1>4. DriftInv /\ [DriftNext]_driftVars =>
        [\A c \in Claim : FoundDrifted(c) /\ ~claims[c].overlap =>
                            claims[c].built # nodeClass.spec]_driftVars
  BY <1>3
<1> QED BY <1>2, <1>4, PTL DEF DriftSpec, DriftFoundIsReal
=============================================================================
