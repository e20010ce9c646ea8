------------------------------ MODULE Capacity ------------------------------
(***************************************************************************)
(* What a node of some flavor offers to pods, as computed for the          *)
(* scheduler before there is a node                                        *)
(* (src/pkg/providers/instancetype/types.go): pods, the memory and CPU     *)
(* that CCE reserves by default, and what ext4 leaves of the volume that   *)
(* kubelet reports as its ephemeral storage.                               *)
(*                                                                         *)
(* Memory is in MiB, CPU in millicores, volumes in GiB, logical volumes in *)
(* LVM extents of 4 MiB and file systems in blocks of 4 KiB.  The code     *)
(* computes volumes in bytes; every quantity here is a whole number of     *)
(* these units there, so nothing is lost but the range: in bytes, ten      *)
(* times the size of a volume leaves 64 bits above 858,993,459 GiB.        *)
(*                                                                         *)
(* No RECURSIVE operator is declared, so that proofs can use the module.   *)
(***************************************************************************)
EXTENDS Integers, FiniteSets

CeilDiv(a, b) == IF a <= 0 THEN 0 ELSE (a + b - 1) \div b

AtMost(a, b) == IF a < b THEN a ELSE b

-----------------------------------------------------------------------------
(* Pods and default reservations *)

DefaultMaxPodsByMemoryMiB(memory) ==
  IF memory >= 65536 THEN 110
  ELSE IF memory >= 32768 THEN 80
  ELSE IF memory >= 16384 THEN 60
  ELSE IF memory >= 8192 THEN 40
  ELSE 20

\* The number of network interfaces caps the pods, where the flavor has one
\* that is a positive number; nicCap is 0 where it has not.
DefaultMaxPods(memory, nicCap) ==
  IF nicCap > 0 THEN AtMost(DefaultMaxPodsByMemoryMiB(memory), nicCap)
  ELSE DefaultMaxPodsByMemoryMiB(memory)

SystemReservedMemoryMiB(memory) == 400 + (memory * 25) \div 1024

\* The formula counts the default number of pods, not the node's.
KubeReservedMemoryMiB(memory, perPod) == 500 + perPod * DefaultMaxPodsByMemoryMiB(memory)

\* A tier reserves so many ten-thousandths of the part of cpu that lies in it.
CPUTier(cpu, start, end, share) ==
  IF cpu >= start THEN ((AtMost(cpu, end) - start) * share) \div 10000 ELSE 0

\* 6%, 1%, 0.5% and 0.25%, added up; the last tier ends at 2^31 millicores,
\* beyond every flavor.
KubeReservedCPU(cpu) ==
  CPUTier(cpu, 0, 1000, 600) + CPUTier(cpu, 1000, 2000, 100)
    + CPUTier(cpu, 2000, 4000, 50) + CPUTier(cpu, 4000, cpu, 25)

-----------------------------------------------------------------------------
(* Ephemeral storage *)

ExtentsPerGiB == 256
BlocksPerExtent == 1024
BlocksPerGroup == 32768

\* The managed volume loses 4 MiB to metadata; a tenth of what is left, in whole
\* extents, is the logical volume of kubelet.
KubernetesLVExtents(sizeGiB) ==
  IF sizeGiB * ExtentsPerGiB - 1 <= 0 THEN 0
  ELSE ((sizeGiB * ExtentsPerGiB - 1) * 10) \div 100

\* Powers of base below groups; the guard of the loop keeps the next power from
\* exceeding what can be represented.
Powers(base, groups) ==
  LET count[group \in Nat \ {0}] ==
        IF group >= groups THEN 0
        ELSE IF group > (groups - 1) \div base THEN 1
        ELSE 1 + count[group * base]
  IN  count[base]

SparseSuperGroupCopies(groups) ==
  IF groups <= 0 THEN 0 ELSE 2 + Powers(3, groups) + Powers(5, groups) + Powers(7, groups)

\* A file system may grow to 1024 times its size and at most 2^32 - 1 blocks,
\* which are 131,072 groups.
ReservedGDTBlocks(blocks, descriptors) ==
  LET growth == IF blocks < 4194303 THEN CeilDiv(blocks, 32) ELSE 131072
      reserved == CeilDiv(growth, 64) - descriptors
  IN  IF reserved < 0 THEN 0 ELSE AtMost(reserved, 1024)

DefaultJournalBlocks(blocks) ==
  IF blocks < 2048 THEN 0
  ELSE IF blocks < 32768 THEN 1024
  ELSE IF blocks < 256 * 1024 THEN 4096
  ELSE IF blocks < 512 * 1024 THEN 8192
  ELSE IF blocks < 4096 * 1024 THEN 16384
  ELSE IF blocks < 8192 * 1024 THEN 32768
  ELSE IF blocks < 16384 * 1024 THEN 65536
  ELSE IF blocks < 32768 * 1024 THEN 131072
  ELSE 262144

\* The blocks of the file system that ext4 keeps for itself, with so many groups
\* that hold a copy of the superblock.
OverheadBlocks(blocks, copies) ==
  LET groups == CeilDiv(blocks, BlocksPerGroup)
      descriptors == CeilDiv(groups, 64)
  IN  groups * (2 + 512) + copies * (1 + descriptors + ReservedGDTBlocks(blocks, descriptors))
        + DefaultJournalBlocks(blocks)

FilesystemBlocks(blocks) ==
  IF blocks <= 0 THEN 0
  ELSE blocks - OverheadBlocks(blocks, SparseSuperGroupCopies(CeilDiv(blocks, BlocksPerGroup)))

\* What a managed volume of so many GiB leaves to pods, in blocks.
EphemeralStorage(sizeGiB) == FilesystemBlocks(KubernetesLVExtents(sizeGiB) * BlocksPerExtent)
=============================================================================
