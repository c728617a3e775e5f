-------------------------- MODULE VolumeGeometry --------------------------
(***************************************************************************)
(* The layout of a volume: formatFat (src/src/fat/format.c) computes it    *)
(* from the size of the image and leaves it in the boot sector, and        *)
(* _FAT_partition_mount (partition.c) computes it again from there.        *)
(* fatfs::create does both, fatfs::mount loads a saved image.              *)
(*                                                                         *)
(* Numbers are sectors unless they say otherwise.  Unsigned differences    *)
(* that fall below zero wrap to a number near the type's maximum; all that *)
(* is said of such a number here is that it is Huge.                       *)
(***************************************************************************)
EXTENDS Integers, FiniteSetsExt

CONSTANT Volumes    \* what create is called with: block size and sectors

Huge == 2147483647

\* An image is held in memory, so it has fewer sectors than that.
ASSUME VolumesAssumption ==
    \A v \in Volumes :
        /\ v.block \in Nat /\ 512 <= v.block /\ v.block <= 4096
        /\ v.sectors \in Nat /\ 1 <= v.sectors /\ v.sectors <= Huge

\* Mutant: signed numbers, which do not wrap.
DifferenceMut(a, b) == a - b

Difference(a, b) == IF a >= b THEN a - b ELSE Huge

CeilDiv(a, b) == (a + b - 1) \div b

Types == {"FAT12", "FAT16", "FAT32"}

BitsOf(type) == CASE type = "FAT12" -> 12 [] type = "FAT16" -> 16 [] OTHER -> 32

RootDirEntries(type) == IF type = "FAT32" THEN 0 ELSE 112

Reserved(type) == IF type = "FAT32" THEN 32 ELSE 1

------------------------------------------------------------------------
(* formatFat.                                                              *)

\* The type by the size in bytes, scaled to blocks of 512 bytes.
FatType(v) ==
    LET normed == (v.block * v.sectors) \div (v.block \div 512)
    IN  CASE normed <= 4300800  -> "FAT12"
          [] normed > 4300800 /\ normed <= 34099200 -> "FAT16"
          [] OTHER -> "FAT32"

RootDirSectors(v) == CeilDiv(RootDirEntries(FatType(v)) * 32, v.block)

\* Mutant: a table that does not fill its last sector goes without it.
TableSectorsMut(v, k) == (k * BitsOf(FatType(v))) \div (8 * v.block)

\* The sectors a table with one element for each of k sectors takes.
TableSectors(v, k) == CeilDiv(k * BitsOf(FatType(v)), 8 * v.block)

\* The search counts sectors up until they and their table fill what is left
\* behind the reserved ones.  It ends no earlier than the table of all of them
\* would allow.
Counted(v) ==
    LET all == v.sectors - Reserved(FatType(v))
        least == Max({1, all - TableSectors(v, all)})
    IN  Min({k \in least .. Max({1, all}) : k + TableSectors(v, k) >= all})

FatSectors(v) == TableSectors(v, Counted(v))

\* Clusters of n sectors, rounded up.
Clusters(v, n) ==
    LET left == v.sectors - Reserved(FatType(v)) - FatSectors(v) - RootDirSectors(v)
    IN  Difference(left + n - 1, 0) \div n

MinClusters(type) == IF type = "FAT16" THEN 4085 ELSE 0

MaxClusters(type) ==
    CASE type = "FAT12" -> 4084 [] type = "FAT16" -> 65524 [] OTHER -> 268435440

\* The powers of two that give a number of clusters in the type's range.
ClusterSizes(v) ==
    {n \in {1, 2, 4, 8, 16, 32, 64} :
        /\ n * v.block <= 32768
        /\ Clusters(v, n) \in MinClusters(FatType(v)) .. MaxClusters(FatType(v))}

SectorsPerCluster(v) == Min(ClusterSizes(v))

FirstRootDirSector(v) == Reserved(FatType(v)) + FatSectors(v)

\* Where the sectors counted for the root directory end, or the one sector a
\* volume has that counts none.
RootDirEnd(v) == FirstRootDirSector(v) + Max({1, RootDirSectors(v)})

\* initRootDir writes at least one sector, and counts whole entries in each: in
\* blocks that are no multiple of an entry it writes more sectors than were
\* counted.
RootDirWritten(v) == Max({1, CeilDiv(RootDirEntries(FatType(v)), v.block \div 32)})

\* Every sector formatFat writes must be one of the image's.
Formattable(v) ==
    ClusterSizes(v) # {} /\ FirstRootDirSector(v) + RootDirWritten(v) <= v.sectors

\* The size goes into 16 bits on FAT12 and FAT16.  There, the volume's id lies
\* where FAT32 has its flags ("b" of the id).
BootSector(v) ==
    LET wide == FatType(v) = "FAT32"
    IN  [bytesPerSector    |-> v.block,
         sectorsPerCluster |-> SectorsPerCluster(v),
         reserved          |-> Reserved(FatType(v)),
         rootEntries       |-> RootDirEntries(FatType(v)),
         totSec16          |-> IF wide THEN 0 ELSE v.sectors % 65536,
         totSec32          |-> IF wide THEN v.sectors ELSE 0,
         fatSz16           |-> IF wide THEN 0 ELSE FatSectors(v) % 65536,
         fatSz32           |-> IF wide THEN FatSectors(v) ELSE 0,
         extFlags          |-> IF wide THEN 128 ELSE 98]

------------------------------------------------------------------------
(* _FAT_partition_mount.                                                   *)

TotalSectors(b) == IF b.totSec16 # 0 THEN b.totSec16 ELSE b.totSec32

SectorsPerFat(b) == IF b.fatSz16 # 0 THEN b.fatSz16 ELSE b.fatSz32

RootDirStart(b) == b.reserved + SectorsPerFat(b)

DataStart(b) == RootDirStart(b) + CeilDiv(b.rootEntries * 32, b.bytesPerSector)

\* Mutant: clusters are rounded up as format does.
LastClusterMut(b) ==
    CeilDiv(Difference(TotalSectors(b), DataStart(b)), b.sectorsPerCluster)

LastCluster(b) ==
    Difference(TotalSectors(b), DataStart(b)) \div b.sectorsPerCluster

\* Mutant: the largest FAT12 volume is taken for FAT16.
MountedTypeMut(last) ==
    CASE last < 4084 -> "FAT12"
      [] last >= 4084 /\ last < 65525 -> "FAT16"
      [] OTHER -> "FAT32"

\* The type by the number of clusters.
MountedType(last) ==
    CASE last < 4085 -> "FAT12"
      [] last >= 4085 /\ last < 65525 -> "FAT16"
      [] OTHER -> "FAT32"

\* The table that is used, when FAT32's flags name one.
ActiveFat(b) ==
    IF MountedType(LastCluster(b)) = "FAT32" /\ b.extFlags < 128
    THEN b.extFlags % 16 ELSE 0

Partition(b) ==
    [type              |-> MountedType(LastCluster(b)),
     numberOfSectors   |-> TotalSectors(b),
     bytesPerSector    |-> b.bytesPerSector,
     sectorsPerCluster |-> b.sectorsPerCluster,
     fatStart          |-> b.reserved + ActiveFat(b) * SectorsPerFat(b),
     sectorsPerFat     |-> SectorsPerFat(b),
     rootDirStart      |-> RootDirStart(b),
     dataStart         |-> DataStart(b),
     lastCluster       |-> LastCluster(b)]

ClusterToSector(p, c) ==
    IF c >= 2 THEN (c - 2) * p.sectorsPerCluster + p.dataStart ELSE p.rootDirStart

------------------------------------------------------------------------
(* The life of an image.                                                   *)

VARIABLES
    volume, \* what create was called with
    stage,  \* "blank", "formatted", "mounted", "saved", or "failed"
    disc,   \* the sectors the ram disc lets the library use
    boot,   \* the boot sector
    part    \* the PARTITION mount fills in

vars == <<volume, stage, disc, boot, part>>

None == [none |-> TRUE]

Init ==
    /\ volume \in Volumes
    /\ stage = "blank"
    /\ disc = volume.sectors
    /\ boot = None
    /\ part = None

Format ==
    /\ stage = "blank"
    /\ Formattable(volume)
    /\ stage' = "formatted"
    /\ boot' = BootSector(volume)
    /\ UNCHANGED <<volume, disc, part>>

FormatFails ==
    /\ stage = "blank"
    /\ ~Formattable(volume)
    /\ stage' = "failed"
    /\ UNCHANGED <<volume, disc, boot, part>>

Mount ==
    /\ stage \in {"formatted", "saved"}
    /\ disc > 0
    /\ stage' = "mounted"
    /\ part' = Partition(boot)
    /\ UNCHANGED <<volume, disc, boot>>

\* There is no first sector to read.
MountFails ==
    /\ stage \in {"formatted", "saved"}
    /\ disc = 0
    /\ stage' = "failed"
    /\ UNCHANGED <<volume, disc, boot, part>>

\* Mutant: the size is read from the 32 bit field alone.
SavedSectorsMut(b) == b.totSec32

\* The size recognize finds in the boot sector of a saved image.
SavedSectors(b) == IF b.totSec16 # 0 THEN b.totSec16 ELSE b.totSec32

\* fatfs::mount of the image a mounted volume was saved to.
Load ==
    /\ stage = "mounted"
    /\ stage' = "saved"
    /\ disc' = SavedSectors(boot)
    /\ part' = None
    /\ UNCHANGED <<volume, boot>>

Next == Format \/ FormatFails \/ Mount \/ MountFails \/ Load

Spec == Init /\ [][Next]_vars

------------------------------------------------------------------------
(* Properties.                                                             *)

\* The values the variables range over.
TypeOK ==
    /\ volume \in Volumes
    /\ stage \in {"blank", "formatted", "mounted", "saved", "failed"}
    /\ disc \in Nat /\ disc <= Huge
    /\ boot = None \/
       /\ boot.sectorsPerCluster \in Nat \ {0} /\ boot.sectorsPerCluster < 256
       /\ boot.totSec16 \in Nat /\ boot.totSec16 < 65536
       /\ boot.fatSz16 \in Nat /\ boot.fatSz16 < 65536
    /\ stage = "mounted" =>
        part.type \in Types /\ part.lastCluster \in Nat /\ part.lastCluster <= Huge

\* A volume of FAT12 or FAT16 whose size fits the boot sector's 16 bits.
Ordinary == FatType(volume) # "FAT32" /\ volume.sectors < 65536

\* mount finds the volume format made: type, size, and where the clusters
\* begin.  Format goes by bytes and mount by clusters, format rounds the number
\* of clusters up and mount rounds it down.
MountFindsFormat ==
    (stage = "mounted" /\ Ordinary) =>
        /\ part.type = FatType(volume)
        /\ part.numberOfSectors = volume.sectors
        /\ part.dataStart = RootDirEnd(volume)

\* The clusters up to the one past lastCluster, which linkFreeCluster may hand
\* out, lie behind the root directory and inside the image.
ClustersAreOnDisc ==
    (stage = "mounted" /\ Ordinary) =>
        LET end == RootDirEnd(volume)
        IN  \A c \in 2 .. part.lastCluster + 1 :
                /\ ClusterToSector(part, c) >= end
                /\ ClusterToSector(part, c) + part.sectorsPerCluster <= disc

\* Whether the table's sectors hold an element for cluster c, read in the width
\* of the mounted type.
HasElement(p, c) ==
    (c + 1) * BitsOf(p.type) <= p.sectorsPerFat * 8 * p.bytesPerSector

\* The clusters have their elements inside the table: none is read from or
\* written to the root directory behind it.  The same holds of the cluster past
\* the last where the root directory takes more than one sector: those are
\* counted for the table and hold no cluster, which makes up for the two
\* elements of the table that belong to none.
TableIsLargeEnough ==
    (stage = "mounted" /\ Ordinary) =>
        /\ HasElement(part, part.lastCluster)
        /\ RootDirSectors(volume) > 1 => HasElement(part, part.lastCluster + 1)

\* A saved image is loaded as the volume it was saved from, from the boot
\* sector alone and with the size found there.
LoadedAsSaved ==
    [][(stage = "saved" /\ Ordinary) =>
        /\ stage' = "mounted"
        /\ disc' = volume.sectors
        /\ part' = Partition(BootSector(volume))]_vars

\* "16 bit total count of sectors": the boot sector of a volume says how many
\* sectors it has.
BootSectorHasTheSize ==
    stage = "mounted" => part.numberOfSectors = volume.sectors

\* "the rest is FAT32": what is formatted as FAT32 is FAT32.
RestIsFat32 ==
    (stage = "mounted" /\ FatType(volume) = "FAT32") => part.type = "FAT32"

\* "root dir is in fat area": the sectors of the root directory belong to no
\* other cluster.
RootDirHasItsCluster ==
    stage = "mounted" => ClusterToSector(part, 2) >= RootDirEnd(volume)

\* "If an error occurs, return CLUSTER_FREE": linkFreeCluster, which reads the
\* element of the cluster past the last, finds it in the table.  With blocks
\* of 3584 bytes or more, and a table that is exactly full, it reads the first
\* bytes of the root directory.
ElementPastLastIsInTable ==
    (stage = "mounted" /\ Ordinary) => HasElement(part, part.lastCluster + 1)

\* "this sector takes up one more fat element": every cluster of the volume has
\* an element in the table.
EverySectorHasAnElement ==
    stage = "mounted" => HasElement(part, part.lastCluster)
=============================================================================
