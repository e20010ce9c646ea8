------------------------ MODULE MCNodeSpecification ------------------------
(***************************************************************************)
(* An instance of NodeSpecification.  The specifications vary the volumes, *)
(* the runtime with the kubelet settings, and the rest, around one that    *)
(* sets what is required; some were stored before the API server checked   *)
(* them.  Units are small: a base unit has two fractions, a Mi four bytes, *)
(* and CreateNode takes integers to 9.                                     *)
(***************************************************************************)
EXTENDS NodeSpecification

CONSTANTS ubuntu, euler, group, key, secret, SAS

MCFlavor == {"small", "large"}
MCCPU == [f \in MCFlavor |-> IF f = "small" THEN 2000 ELSE 8000]
MCMemory == [f \in MCFlavor |-> IF f = "small" THEN 4096 ELSE 65536]
MCNICs == [f \in MCFlavor |-> IF f = "small" THEN 16 ELSE 0]
MCBase == [r \in Resource |-> CASE r = "memory" -> 4 [] r = "ephemeral-storage" -> 8 [] OTHER -> 1]

Disk(size, type, iops) == [size |-> size, type |-> type, iops |-> iops]

Basic ==
  [ims |-> ubuntu, group |-> Unset, runtime |-> Unset, sshKey |-> key, userPassword |-> Unset,
   root |-> Disk(40, SSD, Unset), k8s |-> Unset, users |-> << >>,
   maxPods |-> Unset, kube |-> << >>, system |-> << >>]

\* Managed volumes that look like the default one and like user volumes.
Disks ==
  {[Basic EXCEPT !.root = r, !.k8s = k, !.users = u] :
     r \in {Disk(40, SSD, Unset), Disk(50, SAS, 0)},
     k \in {Unset, Disk(100, SSD, Unset), Disk(100, SSD, 3), Disk(20, SAS, 0)},
     u \in {<< >>, <<Disk(100, SSD, 3)>>,
            <<Disk(100, SSD, 3), Disk(10, SAS, Unset)>>, <<Disk(10, SAS, Unset), Disk(100, SSD, 3)>>,
            <<Disk(10, SAS, Unset), Disk(10, SAS, 0)>>}}

Quantity(form, value) == [form |-> form, value |-> value]

\* A whole Mi, one written in bytes, half a byte more, the largest that fits, and
\* the first that does not.
MemoryAmounts == {Quantity("suffixed", 8), Quantity("integer", 16), Quantity("suffixed", 7),
                  Quantity("suffixed", 72), Quantity("integer", 80)}

Reservations ==
  {<< >>} \cup {[r \in {"memory"} |-> a] : a \in MemoryAmounts}
    \cup {[r \in {"cpu", "pid"} |-> Quantity(form, 4)] : form \in {"integer", "suffixed", "malformed"}}
    \cup {[r \in {"ephemeral-storage", "cpu"} |-> Quantity("suffixed", v)] : v \in {16, 15}}
    \cup {[r \in {"hugepages"} |-> Quantity("integer", 2)]}

Kubelets ==
  {[Basic EXCEPT !.runtime = t, !.kube = m] : t \in {Unset, "docker", "containerd"}, m \in Reservations}
    \cup {[Basic EXCEPT !.maxPods = n, !.system = m] : n \in {Unset, 16, 257}, m \in Reservations}

Others ==
  {[Basic EXCEPT !.group = group], [Basic EXCEPT !.ims = euler], [Basic EXCEPT !.ims = Unset],
   [Basic EXCEPT !.sshKey = Unset], [Basic EXCEPT !.root.size = 39], [Basic EXCEPT !.root.type = Unset],
   [Basic EXCEPT !.k8s = Disk(0, SSD, Unset)], [Basic EXCEPT !.users = <<Disk(9, SSD, Unset)>>]}
    \cup {[Basic EXCEPT !.sshKey = k, !.userPassword = [username |-> u, password |-> p]] :
            k \in {Unset, key}, u \in {Unset, "root"}, p \in {Unset, secret}}

MCSpecs == Disks \cup Kubelets \cup Others

\* The computed capacities are those the tests expect, in blocks of 4 KiB.
ASSUME TestedCapacities ==
  \A p \in {<<100, 10214676>>, <<120, 12274824>>, <<150, 15371208>>, <<190, 19430032>>,
            <<230, 23558544>>, <<320, 32843536>>, <<450, 46125908>>} :
    EphemeralStorage(p[1]) * 4 = p[2]

\* The copies of the superblock are in groups 0 and 1 and in those whose number
\* is a power of 3, 5 or 7, as ext4 defines them, for volumes up to 12 TiB.
ASSUME SparseGroups ==
  \A groups \in (2..300) \cup {729, 730, 2401, 2402, 9999} :
    SparseSuperGroupCopies(groups)
      = Cardinality({0, 1} \cup {g \in 2..(groups - 1) :
                                   \E b \in {3, 5, 7} : \E k \in 1..8 : b^k = g})

\* Every volume a NodeClass may ask for leaves some storage to pods, and no more
\* than its logical volume.
ASSUME StorageIsPositive ==
  \A size \in (20..1200) \cup {4096, 16384, 32768} :
    EphemeralStorage(size) \in 1..(KubernetesLVExtents(size) * BlocksPerExtent)
=============================================================================
