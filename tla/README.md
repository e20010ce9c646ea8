# A TLA+ model of karpenter-provider-huawei

This directory holds TLA+ modules that model the control logic of the Huawei
Cloud provider for Karpenter, TLC configurations that check them on small
instances, and TLAPS proofs of the main theorems. Paths below are relative to
`src/`.

## 1. The system

The program is one Go process (`cmd/controller/main.go`, wired in
`pkg/operator/operator.go`) that links Karpenter's core (not in the repository)
with a `CloudProvider` for CCE clusters. The core decides which nodes are wanted
and calls `Create`, `Delete`, `Get`, `List`, `GetInstanceTypes` and `IsDrifted`,
each from many reconciling goroutines. The provider keeps no durable state of its
own: everything it must remember is in the Kubernetes API (`CCENodeClass`,
`NodeClaim`, `Node`), in the cloud, or in memory until the process ends.

| component | code | state | operations |
|---|---|---|---|
| subnet provider | `pkg/providers/subnet/subnet.go` | listing cache per NodeClass generation (1 min), free addresses per subnet (5 min), `inflightIPs` | `List`, `SelectForLaunch`, `ReleaseInflightIPs` |
| instance provider, launch path | `pkg/providers/instance/instance.go`, `pkg/cloudprovider/cloudprovider.go` | the local state of every running `Create` | `Create`: resolve, reserve, filter, try candidates, release |
| offering availability cache | `pkg/utils/offering_availability_cache.go` | marks (5 min) | `MarkUnavailable`, `IsUnavailable` |
| nodeclass controller | `pkg/controllers/nodeclass/{controller,subnet}.go` | none; finalizer, `Status.Subnets` and `SubnetsReady` in the API | `Reconcile`, `finalize` |
| hash controller | `pkg/controllers/nodeclass/hash/controller.go` | none; hash annotations in the API | `Reconcile`, `updateNodeClaimHash` |
| drift | `pkg/cloudprovider/{cloudprovider,drift}.go` | none | `IsDrifted` |
| instance type provider | `pkg/providers/instancetype/instancetype.go` | flavors, offering zones, cache of resolved types | `Refresh`, `List`, `Get` |
| capacity and overhead | `pkg/providers/instancetype/types.go` | none | `Resolve`, `CacheKey` |
| node specification | `pkg/providers/instance/instance.go` | none | `nodeSpecForCandidate`, `ValidateKubeletForCreateNode` |
| CCENodeClass API | `pkg/apis/v1alpha1/ccenodeclass.go` | the stored specification | `ValidateForCreateNode`, `Hash` |
| pricing provider | `pkg/providers/pricing/pricing.go` | prices, products the service rejects | `UpdateOnDemandPricing`, `OnDemandPrice` |
| NodeClaim reads and deletion | `pkg/cloudprovider/cloudprovider.go`, `pkg/providers/instance/instance.go` | none; the cloud's nodes | `Get`, `List`, `Delete` |
| unregistered-taint controller | `pkg/controllers/nodeclaim/unregisteredtaint/controller.go` | none; the taints of Nodes | `Reconcile` |
| version provider | `pkg/providers/version/version.go` | one cached string | `UpdateVersion`, `Get` |
| SDK clients, wiring, charts, e2e | `pkg/huawei`, `pkg/operator`, `charts`, `config`, `test/e2e` | | |

### How the parts interact

* The nodeclass controller calls the subnet provider's `List` and stores the
  result in the NodeClass's status. `CloudProvider.Create` reads that status,
  through the informer cache, and refuses to launch unless `SubnetsReady`.
* `Create` asks the instance type provider for the types, reserves addresses at
  the subnet provider (one mutex, shared by all launches and by `List`), tries
  offerings at the cloud and marks the refused ones in the availability cache,
  which the instance type provider reads to say what is available.
* `Create` copies the NodeClass's hash to the NodeClaim; the hash controller
  writes the same annotations on the NodeClass and, after an upgrade, on the
  NodeClaims; `IsDrifted` compares the two.
* The same specification is read four times, in three packages: to promise the
  scheduler what a node will offer, to refuse what CreateNode would not take, to
  translate it into a request, and to hash it so that drift is noticed.
* Prices are fetched for the flavors the instance type provider holds, and order
  the candidates of a launch.

### What is hard

Concurrency without transactions: many launches over one in-memory map; caches
that expire on their own; informer caches that lag behind the API server, each
object at its own pace; patches with and without optimistic locks; a process that
may end anywhere; a cloud whose answers get lost after it acted; defaults that are
filled in at several places and have to be the same. The
list is in `PROJECT.json` ("hazards"), with the line where each bites and the
properties that guard it.

## 2. Modules

| module | models | extends or uses |
|---|---|---|
| `SubnetContract` | what a launch may expect of the subnet provider | |
| `SubnetProvider` | `subnet.go`: the caches, the tracking map, every method | implements `SubnetContract` |
| `SubnetAccounting` | history of what each reservation is worth | extends `SubnetProvider` |
| `LaunchContract` | what the core relies on when it calls `Create` | |
| `InstanceProvider` | `CloudProvider.Create` and `instance.Create`, the availability cache, the cloud's answers | uses `SubnetContract`, implements `LaunchContract` |
| `NodeClassLifecycle` | the nodeclass controller, deletion and recreation, the launch gate, subnet drift | |
| `NodeClassHash` | the hash controller, the annotation of launches, `IsDrifted`'s hash comparison | |
| `Capacity` | the arithmetic of `types.go`: pods, reservations, what ext4 leaves of a volume | |
| `NodeSpecification` | promise, cache key, validation, request and hash of one specification | extends `Capacity` |
| `InstanceTypeProvider` | refresh of flavors and zones, the cache of resolved types, `List` and its offerings | |
| `Pricing` | `UpdateOnDemandPricing`, products the billing service rejects, the fallback price | |
| `NodeTermination` | `CloudProvider.Get`, `List`, `Delete`, errors and lost answers, the core's termination and garbage collection | |
| `UnregisteredTaint` | `toCCETaints` and the unregistered-taint controller, with the other writers of a Node's taints | |
| `MC*` | the small instances for TLC | |
| `SubnetProviderProofs`, `InstanceProviderProofs`, `NodeClassLifecycleProofs`, `InstanceTypeProviderProofs`, `PricingProofs`, `NodeTerminationProofs`, `UnregisteredTaintProofs`, `NodeSpecificationProofs` | theorems | extend the module of the same name; the last also `NodeClassHash` |

Operators such as `ListRefreshKeepsTracking` or `AnyVersion`, which no action
uses, are wrong variants of the definition that follows them; `PROJECT.json`
("mutants") names the property that tells each from the right one.

### SubnetProvider

Every method holds the provider's mutex for its whole length, so each is one
action. `cache` is the listing cache, `availableIPs` the
`availableIPAddressCache`, `inflightIPs` the map of that name, `held` the
`subnet.Subnet` a launch got. `ListRefresh` is `List` on a miss: it overwrites the
counts of the matching subnets *and* drops what is tracked for them.
`SelectForLaunch` takes the subnet with the largest effective count (first in the
status on a tie), predicts how many pod addresses the node may need and deducts
them; `ReleaseInflightIPs` adds them back and deletes the entry when it meets the
listed count. `CacheExpires` and `AvailableIPsExpire` are the caches' janitors,
`VPCChanges` everyone else.

The provider does not know which refresh a reservation belongs to. A refresh while
a launch runs drops its reservation, as the comment there announces, and the addresses
are offered again. The launch's release, which crosses the refresh, does not know that
and adds its addresses to whatever is tracked then: to what another launch has reserved
since. `SubnetAccounting` makes that precise: `counted` are the reservations made since
their subnet was listed and not released, `disturbed` the subnets where a release crossed
a refresh. A reservation that a refresh dropped is in no sum of the properties, and
the properties say nothing of its addresses.

### InstanceProvider

One goroutine per NodeClaim, `pc` is where it is: `Begin`, then `Reject` /
`NoCompatibleTypes` / `SelectSubnet`, `FilterCandidates` (one pass over the
availability cache, before the loop), `CreateNode` for the next candidate in the
order price, zone, name, one of the cloud's answers `CloudCreates` /
`CloudRefuses` / `ResponseLost`, and `NodeCreated` / `NodeFailed` / `NodeRefused`.
`Finish` is the deferred release. The classification of SDK errors
(`isInsufficientCapacityError`, `isUnsupportedNetworkError`) is modelled by what
it looks at: whether the error is a service response, its code, its message.
The subnet provider appears through `SubnetContract`, which `SubnetProvider` is
proved to implement, so the composition is by contract and the state space of the
two is never multiplied.

### NodeClassLifecycle

`api` is the stored NodeClass, `seen` the informer's copy, `step`, `copy`, `found`
the reconcile under way. A resource version is modelled by the object: a patch with
an optimistic lock succeeds when `api = copy`. (An object that returned to an
earlier value would be mistaken for it; only the subnets of the status can, and a
patch computed from the same generation writes the same subnets.) `CreateBegins` is
the gate of `CloudProvider.Create`, and takes a subnet of the status it read, which is
the node's from then on (`node`). `CheckDrift` is `IsDrifted` as the core calls it, for
launched NodeClaims, and `drifted` the condition it records: with no subnets in the status
the answer is an error, which leaves the condition as it is. The hash controller only
writes annotations; what it does to this controller, a conflict, is a case of
`ReconcileFails`.

### NodeClassHash

`nodeClass`, `claims` are stored, `seen`, `claimSeen` cached; `step`, `copy`,
`listed`, `failed` are the reconcile. Patches here carry no resource version, so
they merge into whatever is stored: `PatchClaim` writes two annotations computed
from `listed[c]` over `claims[c]`. A hash is the pair of its mechanism's version and
the specification. A deployment is the version the previous build left behind and the
NodeClaims it left: the version of this build, and there is nothing to update. `built` and
`overlap` of a NodeClaim are history: what it was built from, and whether it was launched
while an update was due or under way (`Updating`). Launches begin at any time, those which an
update lists before Create has annotated them among them. What other modules call `Init`, `Next`,
`Spec` and `TypeOK` is `DriftInit`, `DriftNext`, `DriftSpec` and `DriftTypeOK` here, so that
`NodeSpecificationProofs` can extend both modules about drift.

### Capacity and NodeSpecification

`Capacity` has one operator per function of `types.go`. It counts in MiB, millicores, LVM
extents and ext4 blocks where the code counts in bytes; every quantity of the code is a
whole number of these. Assumptions in `MCNodeSpecification`, which TLC evaluates, compare
it with the sizes in `types_test.go`, and the loop that counts backup superblocks with
ext4's definition.

`NodeSpecification` follows one specification (`spec`) through the program. `Resolve` is the
promise and `CacheKey` what it is cached under (`cached`); `Accepted` the checks of
`CloudProvider.Create`; `Request` the translation into a CreateNode request; `Hash` the
annotation. `node` records the request, the promise and the hash of a node. What the cloud
makes of a request is in the properties: a reservation that is not sent is CCE's default,
and the storage selector may match any volume with its size, type and IOPS.

### InstanceTypeProvider

`catalog`, `azs` are what the cloud lists; `step`, `marker`, `fetched`, `zones` a
refresh under way; `info`, `offerings` the fields of the provider; `cache` its cache
of resolved types per NodeClass settings; `seenInfo`, `seenOfferings` the change
monitor. `Start`, `NextPage` (once per page), `FetchZones` hold no lock that `List`
takes; `Store` is both updates under the write lock, with the flush of the cache when
the monitor reports a change. `List` holds the read lock and is one step: the operator
`List(k)` is its answer, `ListMiss` its only effect. Marks of refused offerings are
looked up in each answer and never cached.

### Pricing

`step`, `todo`, `remaining`, `fetched` are an update: what is in no batch yet, what is
left of the batch being asked for, what was answered. `ProductRejected` is an error
that names a product of the batch: it is remembered in `unsupported`, and the batch is
asked for again without it; any other error is `UpdateFails`. `quotes` and `steady`
are history: what the service asked at any time of the update, and which instance
types it priced all the time.

### NodeTermination

`cloud` are the nodes of the cluster; `providerID`, `deleting`, `gone` the NodeClaims;
`pc`, `reply` the core's lifecycle controller; `gcStep`, `gcClaims`, `gcListed` its garbage
collector. `Delete` and `Get` choose any error the service could answer, and go
through the provider's classification (`Outcome`); the node may be deleted while the
answer is lost. The core is external and modelled from how it uses the three calls:
it removes the finalizer on a `NodeClaimNotFound`, and otherwise calls again.

### UnregisteredTaint

`node` is the stored Node, `seen` the informer's copy, `queued` the work queue, `step`
and `copy` the reconcile. `Joins` starts a Node with the taints of the creation
request, `Registers` is the core, `CCESyncs` writes the requested taints once more,
`OtherWrites` is everyone else. `Patched` replaces the whole list of taints and
succeeds only if the stored Node is the one copied.

## 3. Runs

Each run checks the safety and the liveness properties of its component together, on
the fair specification, which has the same reachable states as the one the theorems
are about.

| run | question | result |
|---|---|---|
| `subnet_reservations` (`MCSubnetProvider.cfg`) | two launches, two subnets, two NodeClasses that share a subnet: are the reservations made since a subnet was listed deducted, does none leak, is the contract kept; do the counts become exact for such reservations again after a release that crossed a refresh | holds |
| `subnet_release_crosses_refresh` (`SubnetProviderCrossed.cfg`) | does a release give back the reservation of its own call and no other's | violated, see 6 |
| `launches` (`MCInstanceProvider.cfg`) | two launches over overlapping offerings, all error classes, lost responses, expiring marks: what is made, marked and answered; is a NodeClaim launched as long as one of its offerings stays obtainable | holds |
| `nodeclass` (`MCNodeClassLifecycle.cfg`) | edits, deletion, recreation, restarts, lagging caches: does the NodeClass outlive its nodes, is a status patch current; does the selector take effect in the status and on which nodes are drifted, does a deletion complete | holds |
| `hash` (`MCNodeClassHash.cfg`) | an upgrade with two NodeClaims, one with a launch during it, and operation with launches, all with edits: is drift found under an annotation that is up to date real; is everything brought to the new version in spite of failures and restarts; once edits stop, is exactly the drifted reported | holds |
| `hash_launch_race` (`NodeClassHashLaunch.cfg`) | is it real also for a NodeClaim that is launched during the update after an upgrade | violated, see 6 |
| `hash_update_race` (`NodeClassHashRace.cfg`) | does a drifted NodeClaim keep its hash across an upgrade | violated, see 6 |
| `instancetypes` (`MCInstanceTypeProvider.cfg`) | a catalog that changes between the pages of a refresh, expiries, marks: is the cache transparent, is anything sold out offered, is a flavor lost; does a change of the catalog reach `List` | holds |
| `pricing` (`MCPricing.cfg`) | rejections, failures, changing rates and flavors, restarts: are prices lost or mixed; do offerings come to have the service's prices | holds |
| `termination` (`MCNodeTermination.cfg`) | lost answers, other errors, restarts: does a NodeClaim outlive its node, is one collected only without a node; does a deleted one go | holds |
| `taint` (`MCUnregisteredTaint.cfg`) | two Nodes of one name, a lagging cache, other writers: is a Node protected until registered, is any other taint lost; does the stale taint go | holds |
| `node_specification` (`MCNodeSpecification.cfg`) | about 120 specifications, edited at any time, and a cache of instance types: does a node offer what was promised, is every request acceptable, does an edit that changes the node change the hash | holds |

### Bounds, and why they are enough

* Two launches, two subnets, counts of zero and one, requests that predict zero, one
  and two addresses: two reservations on one subnet can overlap each other and any
  number of refreshes in every order, fit or exceed the count, and a selection has a tie
  and a winner. Counts are only compared and added to, and tracked ones go down
  to -4. The run that is violated has counts up to two.
* Two calls, two types, two zones, equal prices: one offering is the only one of one
  call and the last of the other, so a mark is made before, during and after the other
  call's filter. One claim allows nothing. Calls never share more than the cache.
* `MaxGen = 3`, `MaxUid = 2`: a selector of two subnets, then of none, then of one of the
  two, so that the status is filled, emptied and filled with less, at any point of a launch;
  and one recreation.
* `MaxSpec = 2`: one edit, at any point of the update of the NodeClaims or of a launch, or,
  where the NodeClass starts from the second specification, an edit before. Two NodeClaims
  left behind, so that one of two patches can fail; or one left behind and one launched in
  between, which an update can meet before, during and after its launch. `DriftInv`, the
  invariant of the proof, was checked on larger instances (two million states).
* Specifications: volumes in all combinations of four managed volumes, five lists of user
  volumes (one like the default managed volume, two that are alike, two orders) and two root
  volumes; every kind of quantity (exact, rounded, too large, written as an integer or not,
  malformed, of an unknown resource) under every runtime; every login. Base units are small
  (two fractions of a base unit, four bytes to the Mi, integers to 9), which only scales the
  comparisons. The calls for other NodeClaims while a node is there could only change the
  cache, and the properties of a node do not look at it any more.
* Two flavors in pages of one: a fetch takes up to three calls, the last page can be
  full, and the flavor of the marker can vanish. A flavor is sold out in one zone or in
  all, and the cloud's list of zones may lack a zone that a flavor mentions. One
  NodeClass settings key: entries of different keys never meet.
* Three instance types in batches of two: a full batch and a rest, a batch of which one
  product, or every product, is rejected.
* Two NodeClaims, two nodes for them and one other: one launch is repeated after a lost
  answer, or each NodeClaim has its node.
* Two Nodes of a name, one NodeClaim without taints and one with every odd case of
  `toCCETaints`, one taint of others.

### Fairness, and why the code justifies it

* Subnet provider: `WF` of a refresh and of the expiry of the listing (the nodeclass
  controller reconciles every minute, and a listing lives one), and of the release
  (deferred in `Create`, which returns). Nothing is assumed of launches.
* Launch: `WF` of the steps of a call that has begun (SDK requests time out, so an
  answer, possibly an error, always comes), and of the expiry of marks (five minutes).
  `EventuallyLaunched` supposes that the core keeps asking, that the offering is refused to
  nobody any more and that the cloud no longer fails; it does not suppose anything of the other
  offerings, the other launch or the marks there are.
* Nodeclass controller: `WF` of the start of a reconcile (every outcome requeues, and
  watches wake it), `SF` of its calls: they may fail, or be cut by a restart, any
  number of times but not always; `WF` of the informers and of the core's drift checks, which
  are periodic. No fairness for users, for
  NodeClaims or for the core, except that `DeletionCompletes` supposes that NodeClaims
  are eventually gone.
* Hash controller: the same, and `SF` of the core's check of drift, which runs
  periodically, and of the end of a launch: restarts do not meet every attempt of a NodeClaim.
  Without it one that is launched again and again is unpatched whenever the update looks.
* Instance types and prices: the controllers run again and again (`WF` of the start); a
  call that is made again and again succeeds at some time (`SF`, for each page or
  batch), however often it fails before.
* Termination: the core goes on with a NodeClaim; `SF` of a call that the cloud carries
  out or answers truthfully; the cloud removes what it deletes.
* Unregistered taint: `SF` of the informer, the reconcile and a successful patch, and a
  patch is answered. `StaleTaintGoes` supposes that others stop writing the Node: a
  write between every read and patch would make every patch a conflict.

## 4. Theorems

TLAPS proves the following for every value of the constants that satisfies the
named assumptions of the module. Sets need not be finite unless said.

* `SubnetProviderProofs`: `TypeCorrect`, `TrackingBelowBaseline`, `Refinement` (of
  `SubnetContract`), from `Invariance`; `NoLeak`, `ExactCounts` and `OwnRelease` about
  `SubnetAccounting`, from `HInvariance`. The invariant adds to the type what a
  prediction can be and that an entry below its listed count stays below: the three
  places that could break it are a reservation of zero addresses, a release that
  reaches the listed count, and a refresh, and each deletes or keeps the entry for
  that reason.
  The accounting sums the reservations of a set of calls, for a finite set of any size. The
  library's induction over finite sets is out of the provers' reach, so the lemmas about sums
  argue by a counterexample of least cardinality instead: the sum exists, is unique,
  is a number, loses a call's part when the call leaves, and depends on the calls of the
  set only. `HInv` then says, besides what the history variables can be, that a subnet
  without a tracked count has nothing outstanding unless its listed count is gone or
  disturbed, and that a tracked count is at least, and on an undisturbed subnet exactly, the
  listed count less what is outstanding. `OwnRelease` is about single
  steps: where no release has crossed a refresh, a release raises the count a selection
  sees by exactly what its own call reserved, and so touches no other call's reservation.
  It follows from the account before and after the step, whose sums differ by that one call
  (`ReleaseAccount`). Without the condition it is false, see section 6.
* `InstanceProviderProofs`: `TypeCorrect`, `Reservations`, `Marks`, `RefusedOnce`, `OneIsNext`,
  `TriedInOrder`, `Refinement` (of `LaunchContract`), from `Invariance`. A step of the implementation can be matched
  only if one knows what a running call has provisioned at each `pc`: nothing before
  an answer, the current offering exactly after `created`, at most it after a failure.
  The invariant is that table, with the fact that a refused offering whose reply is
  still unhandled is in `refused`. `RefusedOnce` adds what a call knows of its
  refusals: each is marked or about to be, and none is among the candidates it has left.
  `OneIsNext` says that the order of prices, zones and names is one: any candidates have exactly
  one that comes first, by the least price, the least zone at that price and the least name there,
  so that the loop, which the model writes as a choice of such a candidate, neither gets stuck nor
  has a choice. `TriedInOrder` is the action property that a call never goes back to an earlier one.
* `NodeClassLifecycleProofs`: `TypeCorrect`, `NodeClassProtected`,
  `StatusIsCurrent`, from `Invariance`. That a finalizer removed on the word of a
  lagging cache is safe is not inductive alone. The invariant orders the three
  versions there are of a NodeClass, stored, cached and copied, each no later than the
  one before: a cached NodeClass with the finalizer that is not deleting is still
  stored with it; a status is written only after the finalizer; and a reconcile that is about
  to remove the finalizer from a copy that is still the stored version saw a deletion
  which the cache shows too, so that since it read the NodeClaims no launch began.
* `InstanceTypeProviderProofs`: `TypeCorrect`, `CacheTransparent`, `SoldOutHidden`,
  `FetchComplete`, from `Invariance`. A refresh leaves the cache alone only when both of the
  monitor's values are what it stores; the invariant says that what the monitor
  remembers is what is stored, so nothing that was cached has changed. For a fetch it
  says that what was listed throughout and lies up to the marker has been fetched.
* `PricingProofs`: `TypeCorrect`, `AskedOnce`, `NoPriceLost`, `Current`, `ForCause`, from
  `Invariance`. What an update owes lies in the batch or behind it, and the two are
  disjoint; what a rejection removes has no rate now, so it was not rated throughout.
* `NodeTerminationProofs`: `TypeCorrect`, `LeftBehind`, `ForCause`, from `Invariance`. What
  was once found missing stays so: a node named by a NodeClaim or a reply was created, a
  node is created once, and a NodeClaim that names a node is never launched again.
  That IDs are not reused is an assumption of the model.
* `UnregisteredTaintProofs`: `TypeCorrect`, `Protected`, `Survive`, `Acceptable`, from
  `Invariance`. A patch under way was prepared from a copy of a registered Node, and is
  accepted only if the stored Node is that copy.

Each proof follows the same outline: the initial states satisfy the invariant, each
action preserves it (one step per action, below it one per conjunct it can disturb),
and the invariant implies the property; PTL combines them.

* `NodeSpecificationProofs`: `TypeCorrect`, `PromisesAreKept`, `DriftIsNoticed`, from
  `Invariance`. The invariant says that a node carries request, promise and hash of one accepted
  specification, and the cache the types of one under its key. The rest is about the
  translations: equal keys give equal promises; a quantity that is accepted is sent
  exactly; every volume the selector matches has the promised size; equal hashes have equal
  normal forms, also of lists of volumes, which the hash takes for sets, as long as no two
  are alike; and the normal form fills in the defaults of the request.
* `NodeSpecificationProofs`, second part: `PowersCounted`, `EphemeralStorageFits`,
  `StorageIsPresent` and `DefaultReservationsFit` about the numbers of a promise. The loop over
  backup superblocks is a recursive function, and the first thing to show is that there is such a
  function: it is built downward from the number of groups, where the loop ends (and it is defined
  for positive numbers only: at zero it would have to be one more than itself). Its value is then the number of powers of the base below the number
  of groups (`PowersCounted`: the guard against overflow changes nothing), at most 20 for the
  file systems there can be. So what ext4 keeps is less than a quarter of kubelet's logical volume:
  tables take about a 64th of each group, copies of the superblock are at most 62, the journal is at
  most 4 MiB or an eighth. `StorageIsPresent` carries that to the nodes of the specification,
  from `Invariance`.
* `NodeSpecificationProofs`, third part: `DriftTypeCorrect` and `DriftFound` about
  `NodeClassHash`, under its assumptions, from `DriftInvariance`. That what is found to
  be drifted is drifted needs an account of every hash that is under way. `DriftInv` says, of
  each NodeClaim, that while an update is due or running the specification it works from is no
  older than what the NodeClaim was built from (`BuiltBefore`); so that the hash it is given is
  the right one, or that of a later specification, and what it was built from has been edited
  (`HashFits`); that one still of the version before has the hash it was launched with, which
  is no later than the one its NodeClass shows (`OldClaim`), so that a difference means an edit; and that a
  copy which shows it drifted, and keeps its hash from being rewritten, is right however stale (`CopyFits`).
  The attempt to prove this for every NodeClaim failed, on those launched during an update:
  the first finding about drift in section 6.

`TrackingBelowBaseline`, `OwnRelease`, `Reservations`, `AskedOnce`, `OneIsNext`, `TriedInOrder`, `StorageIsPresent` and
the `ForCause` of `PricingProofs` are proved and not among the runs' properties: they hold in every instance, and the
runs spend their time on others.

Only model-checked: every liveness property (fairness and ENABLED are out of the
prover's reach), and that the values of `Capacity` are those of the tests (`types_test.go`), which are
numbers and no theorem. Every safety property of a passing run is a theorem.

## 5. What is not modelled

* **SDK clients, operator wiring, charts, e2e tests**: no control logic; the answers and
  failures of the SDK are the environment of the models.
* **The version provider**: one cached string with one writer. Its only branch, the check of
  the minor version, runs when the string changed.
* **The eviction threshold** of `types.go` (100Mi, a tenth of the storage), **tags and labels** of the
  request, the deep copies and the schema of the API: values that are copied.
* **The range of bytes**: the size of a logical volume is computed in bytes in 64 bits and is
  right up to volumes of 858,993,459 GiB; `Capacity` has no such limit.
* **`UpdateInstanceTypes`, `UpdateInstanceTypeOfferings`, `Get`,
  `UpdateInstanceTypeCapacityFromNode`** of the instance type provider and
  **`CreateTags`**: nothing in the program calls them.

## 6. Where code and comments disagree

* A release can give back another call's reservation (`subnet_release_crosses_refresh`). The comment at
  `ReleaseInflightIPs` says that it releases the reservation made for its own creation attempt. One call reserves
  on a subnet; a refresh lists the subnet and drops what is tracked of it, as the comment there
  announces; a second call reserves on it; and the release of the first, whose
  reservation is gone, adds its addresses to the second's count, which is thereby deleted while
  the second attempt is still running. The next selection is offered its addresses again.
  `OwnRelease` proves that the comment is right where no release crosses a refresh.
  `DamageHeals` shows that a later refresh makes the counts exact again for what is
  reserved from then on. That refresh drops the reservations of the calls running at the time in turn:
  their addresses are not deducted until they end, and nothing is claimed of them.
* A NodeClaim that is launched during the update after an upgrade can be reported as drifted from
  the specification it was built from (`hash_launch_race`). The update lists it before Create
  annotates it, so that its copy shows no version, and patches it afterwards: the hash of the
  update's copy of the NodeClass replaces the one Create gave. If an edit lies between the two,
  the NodeClaim is found to be drifted as soon as the NodeClass's annotation follows the edit, and is
  replaced for nothing. `DriftFoundIsReal` excepts the NodeClaims launched while an update is
  due or under way, and is proved for all others.
* After an upgrade a NodeClaim that became drifted after the controller read it gets
  the new hash nevertheless (`hash_update_race`).

More that no run shows as violated:

* Between an edit and the patch of the NodeClass's annotation, a NodeClaim built from the
  edited specification is compared with the hash of the one before, and can be reported as drifted.
  `DriftConverges` shows that this ends once edits stop.
* `CloudProvider.List` returns every node of the cluster, not "all NodeClaims managed by this
  provider"; the core's garbage collector only looks provider IDs up in the result, so that
  `CollectedForCause` holds nevertheless.
* `pkg/operator/operator.go` calls `InstanceTypesZonesAndOfferingsTTL` (five minutes) the time before
  instance types, zones and offerings are refreshed, but what expires then is only the cache
  of resolved types; flavors and zones are refreshed every twelve hours.
* A product that the billing service rejected once stays unpriced until the process ends, even
  if it is sold later: `PricesConverge` is stated with that exception.
* The kubelet reservations are checked by `Create` and not by `GetInstanceTypes`, which resolves
  them first: a value that is no quantity is a panic there (`resource.MustParse`). A reservation of
  process IDs such as `1k` is a quantity there, and always refused by `Create`.
* A flavor of 1 GiB or less is promised to have no memory at all: the default reservations, at
  least 600 MiB for kubelet and 400 MiB for the system, exceed it (`DefaultReservationsFit`).
* One GiB more can promise less storage: a volume of 321, 641 or 1281 GiB has twice the journal of one of
  320, 640 or 1280, which takes more than the tenth of a GiB that kubelet's volume gains.
* The hash combines the volumes of a list by exclusive or, so that two equal user volumes
  leave no trace: adding or removing such a pair is not drift. `DriftIsComplete` excepts
  specifications with two equal user volumes.

## 7. Plan

1. The launch composed with prices and instance types: the order of candidates when some
   have no price; a mark made by one launch, seen by the next `List`.
2. What the hash controller would have to check for `EveryDriftFoundIsReal` to hold, as a second
   specification of its patch.
3. The second page of `ListSubnets`, once the code asks for one.
