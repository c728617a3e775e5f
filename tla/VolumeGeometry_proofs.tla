---------------------- MODULE VolumeGeometry_proofs ----------------------
(***************************************************************************)
(* Proofs about VolumeGeometry for images of any size and blocks of 512 to *)
(* 4096 bytes.  What the loops of formatFat compute enters by two facts:   *)
(* the sectors counted and the table for them fill what lies behind the    *)
(* reserved ones (CountedFacts), and a volume of FAT16 below 65,536        *)
(* sectors has clusters of one sector (SmallFat16).  From there on it is   *)
(* the arithmetic of quotients rounded up by format and down by mount.     *)
(***************************************************************************)
EXTENDS VolumeGeometry, WellFoundedInduction, TLAPS

------------------------------------------------------------------------
(* Numbers.                                                                *)

LEMMA Division ==
    ASSUME NEW n \in Int, NEW m \in Nat, m > 0
    PROVE  /\ n \div m \in Int
           /\ m * (n \div m) <= n /\ n < m * (n \div m) + m
           /\ n >= 0 => n \div m \in Nat /\ n \div m <= n
OBVIOUS

LEMMA RoundedUp ==
    ASSUME NEW a \in Nat, NEW b \in Nat, b > 0
    PROVE  /\ CeilDiv(a, b) \in Nat
           /\ a <= b * CeilDiv(a, b)
           /\ a > 0 => CeilDiv(a, b) >= 1
           /\ a <= b => CeilDiv(a, b) <= 1
           /\ CeilDiv(a, b) <= a
<1> DEFINE q == CeilDiv(a, b)
<1>1. q \in Nat /\ b * q <= a + b - 1 /\ a + b - 1 < b * q + b
  BY Division DEF CeilDiv
<1> HIDE DEF q
<1>2. a <= b * q
  BY <1>1
<1>3. a > 0 => q >= 1
  BY <1>1
<1>4. a <= b => q <= 1
  <2> SUFFICES ASSUME a <= b, q >= 2 PROVE FALSE
    BY <1>1
  <2>1. b * q >= b * 2
    BY <1>1
  <2> QED
    BY <1>1, <2>1
<1>5. q <= a
  <2> SUFFICES ASSUME q >= a + 1 PROVE FALSE
    BY <1>1
  <2>1. b * q >= b * (a + 1) /\ b * (a + 1) = b * a + b /\ b * a >= a
    BY <1>1
  <2> QED
    BY <1>1, <2>1
<1> QED
  BY <1>1, <1>2, <1>3, <1>4, <1>5 DEF q

LEMMA MaxOfTwo ==
    ASSUME NEW x \in Int
    PROVE  Max({1, x}) = IF x > 1 THEN x ELSE 1
<1> DEFINE m == IF x > 1 THEN x ELSE 1
<1>1. m \in {1, x} /\ \A y \in {1, x} : m >= y
  OBVIOUS
<1>2. \A n \in {1, x} : (\A y \in {1, x} : n >= y) => n = m
  OBVIOUS
<1> HIDE DEF m
<1> QED
  BY <1>1, <1>2 DEF Max, m

LEMMA MinIsLeast ==
    ASSUME NEW S \in SUBSET Nat, S # {}
    PROVE  Min(S) \in S /\ \A m \in S : Min(S) <= m
<1> DEFINE R == OpToRel(<, Nat)
<1>1. IsWellFoundedOn(R, Nat)
  BY NatLessThanWellFounded
<1>2. PICK n \in S : \A m \in S : <<m, n>> \notin R
  <2> HIDE DEF R
  <2> QED
    BY <1>1, WFMin
<1>3. ASSUME NEW m \in S, m < n
      PROVE  FALSE
  <2>1. <<m, n>> \in Nat \X Nat /\ <<m, n>>[1] < <<m, n>>[2]
    BY <1>3
  <2> QED
    BY <1>2, <2>1 DEF OpToRel
<1>4. \A m \in S : n <= m
  BY <1>3
<1> QED
  BY <1>4 DEF Min

------------------------------------------------------------------------
(* Format.                                                                 *)

LEMMA VolumeFacts ==
    ASSUME NEW v \in Volumes
    PROVE  /\ v.block \in Nat /\ 512 <= v.block /\ v.block <= 4096
           /\ v.sectors \in Nat /\ 1 <= v.sectors /\ v.sectors <= Huge
           /\ FatType(v) \in Types
           /\ BitsOf(FatType(v)) \in Nat /\ BitsOf(FatType(v)) >= 12
           /\ BitsOf(FatType(v)) <= 32
           /\ Reserved(FatType(v)) \in {1, 32}
           /\ RootDirSectors(v) \in Nat
           /\ FatType(v) # "FAT32" => RootDirSectors(v) >= 1
<1>1. /\ v.block \in Nat /\ 512 <= v.block /\ v.block <= 4096
      /\ v.sectors \in Nat /\ 1 <= v.sectors /\ v.sectors <= Huge
  BY VolumesAssumption
<1>2. FatType(v) \in Types
  BY DEF FatType, Types
<1>3. /\ BitsOf(FatType(v)) \in Nat /\ BitsOf(FatType(v)) >= 12
      /\ BitsOf(FatType(v)) <= 32
      /\ Reserved(FatType(v)) \in {1, 32}
  BY <1>2 DEF Types, BitsOf, Reserved
<1>4. /\ RootDirEntries(FatType(v)) * 32 \in Nat
      /\ FatType(v) # "FAT32" => RootDirEntries(FatType(v)) * 32 > 0
  BY DEF RootDirEntries
<1>5. RootDirSectors(v) \in Nat /\ (FatType(v) # "FAT32" => RootDirSectors(v) >= 1)
  <2> DEFINE bytes == RootDirEntries(FatType(v)) * 32
  <2>1. bytes \in Nat /\ (FatType(v) # "FAT32" => bytes > 0)
    BY <1>4
  <2>2. RootDirSectors(v) = CeilDiv(bytes, v.block)
    BY DEF RootDirSectors
  <2> HIDE DEF bytes
  <2>3. v.block \in Nat /\ v.block > 0 /\ bytes \in Nat
    BY <1>1, <2>1
  <2>4. CeilDiv(bytes, v.block) \in Nat /\ (bytes > 0 => CeilDiv(bytes, v.block) >= 1)
    BY <2>3, RoundedUp, Zenon
  <2> QED
    BY <2>1, <2>2, <2>4
<1> QED
  BY <1>1, <1>2, <1>3, <1>5

\* The sectors counted and their table fill what is left behind the reserved
\* ones, and the table has an element for each of them.
LEMMA CountedFacts ==
    ASSUME NEW v \in Volumes
    PROVE  /\ Counted(v) \in Nat /\ Counted(v) >= 1
           /\ FatSectors(v) \in Nat /\ FatSectors(v) >= 1
           /\ v.sectors - Reserved(FatType(v)) <= Counted(v) + FatSectors(v)
           /\ Counted(v) * BitsOf(FatType(v)) <= (8 * v.block) * FatSectors(v)
<1> DEFINE all == v.sectors - Reserved(FatType(v))
<1> DEFINE bits == BitsOf(FatType(v))
<1> DEFINE bytes == 8 * v.block
<1> DEFINE least == Max({1, all - TableSectors(v, all)})
<1> DEFINE most == Max({1, all})
<1> DEFINE S == {k \in least .. most : k + TableSectors(v, k) >= all}
<1>1. /\ all \in Int /\ bits \in Nat /\ bits >= 1
      /\ bytes \in Nat /\ bytes > 0 /\ bits <= bytes
  BY VolumeFacts
<1> HIDE DEF all, bits, bytes
<1>2. TableSectors(v, all) = CeilDiv(all * bits, bytes)
      /\ \A k : TableSectors(v, k) = CeilDiv(k * bits, bytes)
  BY DEF TableSectors, bits, bytes
<1>3. TableSectors(v, all) \in Int /\ (all <= 0 => TableSectors(v, all) >= all)
  <2> DEFINE q == TableSectors(v, all)
  <2>1. all * bits + bytes - 1 \in Int
    BY <1>1
  <2>2. q \in Int /\ all * bits + bytes - 1 < bytes * q + bytes
    BY <1>1, <1>2, <2>1, Division DEF CeilDiv
  <2> HIDE DEF q
  <2>3. ASSUME all <= 0, q <= all - 1
        PROVE  FALSE
    <3>1. bytes * q <= bytes * (all - 1) /\ bytes * (all - 1) = all * bytes - bytes
      BY <1>1, <2>2, <2>3
    <3>2. all * bytes <= all * bits
      BY <1>1, <2>3
    <3> QED
      BY <1>1, <2>2, <2>3, <3>1, <3>2
  <2> QED
    BY <1>1, <2>2, <2>3 DEF q
<1>4. least \in Nat /\ least >= 1 /\ most \in Nat /\ most >= 1 /\ most >= all
  BY <1>1, <1>3, MaxOfTwo
<1>5. \A k \in Nat : k >= 1 =>
        /\ TableSectors(v, k) \in Nat /\ TableSectors(v, k) >= 1
        /\ k * bits <= bytes * TableSectors(v, k)
  <2> SUFFICES ASSUME NEW k \in Nat, k >= 1
               PROVE  /\ TableSectors(v, k) \in Nat /\ TableSectors(v, k) >= 1
                      /\ k * bits <= bytes * TableSectors(v, k)
    OBVIOUS
  <2>1. k * bits \in Nat /\ k * bits > 0
    BY <1>1
  <2> QED
    BY <1>1, <1>2, <2>1, RoundedUp
<1>6. S \in SUBSET Nat
  BY <1>4
<1>7. S # {}
  <2>1. all - TableSectors(v, all) <= most
    <3>1. CASE all >= 1
      BY <1>1, <1>3, <1>4, <1>5, <3>1
    <3>2. CASE all <= 0
      <4> HIDE DEF most
      <4> QED
        BY <1>1, <1>3, <1>4, <3>2
    <3> QED
      BY <1>1, <3>1, <3>2
  <2>2. least <= most
    BY <1>1, <1>3, <1>4, <2>1, MaxOfTwo
  <2>3. TableSectors(v, most) \in Nat
    BY <1>4, <1>5
  <2> HIDE DEF least, most
  <2>4. most \in S
    BY <1>1, <1>4, <2>2, <2>3
  <2> QED
    BY <2>4
<1>8. Counted(v) = Min(S)
  BY DEF Counted, all
<1>9. Counted(v) \in S
  <2> HIDE DEF S
  <2> QED
    BY <1>6, <1>7, <1>8, MinIsLeast
<1>10. /\ Counted(v) \in Nat /\ Counted(v) >= 1
       /\ Counted(v) + TableSectors(v, Counted(v)) >= all
  BY <1>4, <1>9
<1>11. FatSectors(v) = TableSectors(v, Counted(v))
  BY DEF FatSectors
<1> QED
  BY <1>1, <1>5, <1>10, <1>11 DEF all, bits, bytes

\* Clusters have the least size that is accepted.
LEMMA ClusterSizeFacts ==
    ASSUME NEW v \in Volumes, ClusterSizes(v) # {}
    PROVE  /\ SectorsPerCluster(v) \in ClusterSizes(v)
           /\ \A n \in ClusterSizes(v) : SectorsPerCluster(v) <= n
           /\ SectorsPerCluster(v) \in {1, 2, 4, 8, 16, 32, 64}
<1>1. ClusterSizes(v) \subseteq {1, 2, 4, 8, 16, 32, 64}
  BY DEF ClusterSizes
<1>2. ClusterSizes(v) \in SUBSET Nat
  BY <1>1
<1>3. SectorsPerCluster(v) \in ClusterSizes(v)
      /\ \A n \in ClusterSizes(v) : SectorsPerCluster(v) <= n
  BY <1>2, MinIsLeast DEF SectorsPerCluster
<1> QED
  BY <1>1, <1>3

\* The fields of the boot sector, of a volume of any type.
LEMMA BootSectorFields ==
    ASSUME NEW v \in Volumes, Formattable(v)
    PROVE  LET b == BootSector(v)
           IN  /\ b.bytesPerSector = v.block
               /\ b.sectorsPerCluster = SectorsPerCluster(v)
               /\ b.sectorsPerCluster \in Nat /\ 1 <= b.sectorsPerCluster /\ b.sectorsPerCluster <= 64
               /\ b.reserved = Reserved(FatType(v))
               /\ b.rootEntries = RootDirEntries(FatType(v))
               /\ b.totSec16 \in Nat /\ b.totSec16 < 65536 /\ b.totSec16 <= v.sectors
               /\ b.totSec32 \in Nat /\ b.totSec32 <= v.sectors
               /\ b.fatSz16 \in Nat /\ b.fatSz16 < 65536
               /\ b.fatSz32 \in Nat
<1> DEFINE b == BootSector(v)
<1>1. /\ v.sectors \in Nat /\ FatSectors(v) \in Nat
  BY VolumeFacts, CountedFacts
<1>2. /\ v.sectors % 65536 \in Nat /\ v.sectors % 65536 < 65536 /\ v.sectors % 65536 <= v.sectors
      /\ FatSectors(v) % 65536 \in Nat /\ FatSectors(v) % 65536 < 65536
  BY <1>1, SMT
<1>3. SectorsPerCluster(v) \in {1, 2, 4, 8, 16, 32, 64}
  BY ClusterSizeFacts DEF Formattable
<1>4. /\ b.bytesPerSector = v.block
      /\ b.sectorsPerCluster = SectorsPerCluster(v)
      /\ b.reserved = Reserved(FatType(v))
      /\ b.rootEntries = RootDirEntries(FatType(v))
      /\ b.totSec16 = IF FatType(v) = "FAT32" THEN 0 ELSE v.sectors % 65536
      /\ b.totSec32 = IF FatType(v) = "FAT32" THEN v.sectors ELSE 0
      /\ b.fatSz16 = IF FatType(v) = "FAT32" THEN 0 ELSE FatSectors(v) % 65536
      /\ b.fatSz32 = IF FatType(v) = "FAT32" THEN FatSectors(v) ELSE 0
  BY DEF BootSector
<1> HIDE DEF b
<1>5. b.sectorsPerCluster \in Nat /\ 1 <= b.sectorsPerCluster /\ b.sectorsPerCluster <= 64
  BY <1>3, <1>4
<1>6. /\ b.totSec16 \in Nat /\ b.totSec16 < 65536 /\ b.totSec16 <= v.sectors
      /\ b.totSec32 \in Nat /\ b.totSec32 <= v.sectors
      /\ b.fatSz16 \in Nat /\ b.fatSz16 < 65536
      /\ b.fatSz32 \in Nat
  BY <1>1, <1>2, <1>4, SMT
<1> QED
  BY <1>4, <1>5, <1>6 DEF b

------------------------------------------------------------------------
(* Mount.                                                                  *)

\* A mounted volume of any type has a type and a number of clusters.
LEMMA MountedFields ==
    ASSUME NEW v \in Volumes, Formattable(v)
    PROVE  LET p == Partition(BootSector(v))
           IN  p.type \in Types /\ p.lastCluster \in Nat /\ p.lastCluster <= Huge
<1> DEFINE b == BootSector(v)
<1> DEFINE d == Difference(TotalSectors(b), DataStart(b))
<1>1. /\ v.block \in Nat /\ v.block > 0 /\ v.sectors \in Nat /\ v.sectors <= Huge
      /\ Reserved(FatType(v)) \in Nat
      /\ RootDirEntries(FatType(v)) * 32 \in Nat
  <2>1. RootDirEntries(FatType(v)) * 32 \in Nat
    BY DEF RootDirEntries
  <2> QED
    BY <2>1, VolumeFacts
<1>2. /\ TotalSectors(b) \in Nat /\ TotalSectors(b) <= v.sectors
      /\ SectorsPerFat(b) \in Nat
      /\ b.sectorsPerCluster \in Nat /\ b.sectorsPerCluster > 0
  BY <1>1, BootSectorFields DEF TotalSectors, SectorsPerFat
<1>3. DataStart(b) \in Nat
  <2>1. RootDirStart(b) \in Nat
    BY <1>1, <1>2, BootSectorFields DEF RootDirStart
  <2>2. CeilDiv(b.rootEntries * 32, b.bytesPerSector) \in Nat
    <3>1. b.rootEntries * 32 \in Nat /\ b.bytesPerSector \in Nat /\ b.bytesPerSector > 0
      BY <1>1, BootSectorFields
    <3> HIDE DEF b
    <3> QED
      BY <3>1, RoundedUp, Zenon
  <2> QED
    BY <2>1, <2>2 DEF DataStart
<1>4. d \in Nat /\ d <= Huge
  BY <1>1, <1>2, <1>3, SMT DEF Difference, Huge
<1> HIDE DEF d, b
<1>5. d \div b.sectorsPerCluster \in Nat /\ d \div b.sectorsPerCluster <= d
  BY <1>2, <1>4, Division
<1>6. LastCluster(b) \in Nat /\ LastCluster(b) <= Huge
  BY <1>4, <1>5, SMT DEF LastCluster, d, Huge
<1>7. MountedType(LastCluster(b)) \in Types
  BY DEF MountedType, Types
<1> QED
  BY <1>6, <1>7 DEF Partition, b

\* No more sectors are counted for the root directory than are written.
LEMMA RootDirIsWritten ==
    ASSUME NEW v \in Volumes
    PROVE  RootDirWritten(v) \in Nat /\ RootDirWritten(v) >= Max({1, RootDirSectors(v)})
<1> DEFINE n == RootDirEntries(FatType(v))
           b == v.block
           d == v.block \div 32
           q == CeilDiv(n, d)
           r == CeilDiv(n * 32, b)
<1>1. b \in Nat /\ 512 <= b /\ n \in Nat /\ RootDirSectors(v) = r
  BY VolumeFacts DEF RootDirEntries, RootDirSectors
<1>2. RootDirWritten(v) = Max({1, q})
  BY DEF RootDirWritten
<1> HIDE DEF n, b
<1>3. b = v.block
  BY DEF b
<1>4. d \in Nat /\ d >= 16 /\ 32 * d <= b
  BY <1>1, <1>3
<1>5. q \in Nat /\ n <= d * q
  <2> HIDE DEF d
  <2> QED
    BY <1>1, <1>4, RoundedUp
<1>6. r \in Nat /\ b * r <= n * 32 + b - 1
  <2> DEFINE a == n * 32 + b - 1
  <2>1. a \in Nat /\ b \in Nat /\ b > 0
    BY <1>1
  <2>2. r = a \div b
    BY DEF CeilDiv
  <2> HIDE DEF a, r
  <2>3. r \in Nat /\ b * r <= a
    BY <2>1, <2>2, Division
  <2> QED
    BY <2>3 DEF a
<1> HIDE DEF d, q, r
<1>7. n * 32 <= b * q
  <2>1. (32 * d) * q <= b * q
    BY <1>1, <1>4, <1>5
  <2>2. n * 32 <= (d * q) * 32
    BY <1>1, <1>4, <1>5
  <2>3. (d * q) * 32 = (32 * d) * q
    BY <1>4, <1>5
  <2> QED
    BY <2>1, <2>2, <2>3, <1>1, <1>4, <1>5
<1>8. r <= q
  <2> SUFFICES ASSUME r >= q + 1 PROVE FALSE
    BY <1>5, <1>6
  <2>1. b * r >= b * (q + 1) /\ b * (q + 1) = b * q + b
    BY <1>1, <1>5, <1>6
  <2>2. b * r \in Int /\ b * q \in Int
    BY <1>1, <1>5, <1>6
  <2> QED
    BY <1>1, <1>6, <1>7, <2>1, <2>2
<1> QED
  BY <1>1, <1>2, <1>5, <1>6, <1>8, MaxOfTwo

\* A volume of FAT12 or FAT16 with less than 65,536 sectors: what mount finds
\* in the boot sector is what format computed.
LEMMA OrdinaryLayout ==
    ASSUME NEW v \in Volumes, Formattable(v), FatType(v) # "FAT32", v.sectors < 65536
    PROVE  LET p == Partition(BootSector(v))
               left == v.sectors - RootDirEnd(v)
           IN  /\ left \in Nat
               /\ RootDirEnd(v) = 1 + FatSectors(v) + RootDirSectors(v)
               /\ BootSector(v).totSec16 = v.sectors
               /\ p.numberOfSectors = v.sectors
               /\ p.dataStart = RootDirEnd(v)
               /\ p.sectorsPerFat = FatSectors(v)
               /\ p.bytesPerSector = v.block
               /\ p.sectorsPerCluster = SectorsPerCluster(v)
               /\ p.lastCluster = left \div SectorsPerCluster(v)
               /\ p.type = MountedType(left \div SectorsPerCluster(v))
<1> DEFINE b == BootSector(v)
<1> DEFINE left == v.sectors - RootDirEnd(v)
<1>1. /\ v.sectors \in Nat /\ v.sectors >= 1
      /\ RootDirSectors(v) \in Nat /\ RootDirSectors(v) >= 1
      /\ FatSectors(v) \in Nat /\ FatSectors(v) >= 1
      /\ Reserved(FatType(v)) = 1
  BY VolumeFacts, CountedFacts DEF Reserved
<1>2. RootDirEnd(v) = 1 + FatSectors(v) + RootDirSectors(v)
  <2>1. Max({1, RootDirSectors(v)}) = RootDirSectors(v)
    BY <1>1, MaxOfTwo
  <2> QED
    BY <1>1, <2>1 DEF RootDirEnd, FirstRootDirSector
<1>3. RootDirEnd(v) <= v.sectors
  <2>1. FirstRootDirSector(v) + RootDirWritten(v) <= v.sectors
    BY DEF Formattable
  <2>2. FirstRootDirSector(v) \in Nat
    BY <1>1 DEF FirstRootDirSector
  <2> QED
    BY <1>1, <2>1, <2>2, RootDirIsWritten, MaxOfTwo DEF RootDirEnd
<1>4. FatSectors(v) < 65536
  BY <1>1, <1>2, <1>3, SMT
<1>5. v.sectors % 65536 = v.sectors /\ FatSectors(v) % 65536 = FatSectors(v)
  BY <1>1, <1>4, SMT
<1>6. /\ b.bytesPerSector = v.block
      /\ b.sectorsPerCluster = SectorsPerCluster(v)
      /\ b.reserved = 1
      /\ b.rootEntries = RootDirEntries(FatType(v))
      /\ b.totSec16 = v.sectors
      /\ b.fatSz16 = FatSectors(v)
  BY <1>1, <1>5 DEF BootSector
<1> HIDE DEF b
<1>7. TotalSectors(b) = v.sectors /\ SectorsPerFat(b) = FatSectors(v)
  BY <1>1, <1>6 DEF TotalSectors, SectorsPerFat
<1>8. DataStart(b) = RootDirEnd(v)
  BY <1>1, <1>2, <1>6, <1>7 DEF DataStart, RootDirStart, RootDirSectors
<1>9. left \in Nat
  BY <1>1, <1>2, <1>3
<1>10. LastCluster(b) = left \div SectorsPerCluster(v)
  <2>1. Difference(TotalSectors(b), DataStart(b)) = left
    BY <1>3, <1>7, <1>8 DEF Difference
  <2> QED
    BY <1>6, <2>1 DEF LastCluster
<1>11. /\ Partition(b).numberOfSectors = TotalSectors(b)
       /\ Partition(b).dataStart = DataStart(b)
       /\ Partition(b).sectorsPerFat = SectorsPerFat(b)
       /\ Partition(b).bytesPerSector = b.bytesPerSector
       /\ Partition(b).sectorsPerCluster = b.sectorsPerCluster
       /\ Partition(b).lastCluster = LastCluster(b)
       /\ Partition(b).type = MountedType(LastCluster(b))
  BY DEF Partition
<1> QED
  BY <1>2, <1>6, <1>7, <1>8, <1>9, <1>10, <1>11 DEF b

\* The clusters format counts there: the sectors left, in clusters, rounded up.
LEMMA OrdinaryClusters ==
    ASSUME NEW v \in Volumes, Formattable(v), FatType(v) # "FAT32", v.sectors < 65536,
           NEW n \in Nat, n > 0
    PROVE  Clusters(v, n) = CeilDiv(v.sectors - RootDirEnd(v), n)
<1> DEFINE left == v.sectors - RootDirEnd(v)
<1>1. left \in Nat /\ RootDirEnd(v) = 1 + FatSectors(v) + RootDirSectors(v)
  BY OrdinaryLayout
<1>2. v.sectors \in Nat /\ FatSectors(v) \in Nat /\ RootDirSectors(v) \in Nat
  BY VolumeFacts, CountedFacts
<1>3. left = v.sectors - Reserved(FatType(v)) - FatSectors(v) - RootDirSectors(v)
  BY <1>1, <1>2 DEF Reserved
<1> HIDE DEF left
<1>4. Difference(left + n - 1, 0) = left + n - 1
  <2>1. left + n - 1 \in Nat
    BY <1>1
  <2> QED
    BY <2>1 DEF Difference
<1> QED
  BY <1>3, <1>4 DEF Clusters, CeilDiv, left

\* FAT16 below 65,536 sectors: one sector to a cluster, so rounding up and
\* down are the same.
LEMMA SmallFat16 ==
    ASSUME NEW v \in Volumes, Formattable(v), FatType(v) = "FAT16", v.sectors < 65536
    PROVE  LET left == v.sectors - RootDirEnd(v)
           IN  SectorsPerCluster(v) = 1 /\ 4085 <= left /\ left <= 65524
<1> DEFINE left == v.sectors - RootDirEnd(v)
<1> DEFINE n == SectorsPerCluster(v)
<1> DEFINE low == MinClusters(FatType(v))
<1> DEFINE high == MaxClusters(FatType(v))
<1>1. left \in Nat /\ RootDirEnd(v) = 1 + FatSectors(v) + RootDirSectors(v)
  BY OrdinaryLayout
<1>2. /\ v.sectors \in Nat /\ v.block \in Nat /\ v.block <= 4096 /\ v.block >= 512
      /\ RootDirSectors(v) \in Nat /\ RootDirSectors(v) >= 1
      /\ FatSectors(v) \in Nat /\ Counted(v) \in Nat
      /\ v.sectors - 1 <= Counted(v) + FatSectors(v)
      /\ Counted(v) * 16 <= (8 * v.block) * FatSectors(v)
  BY VolumeFacts, CountedFacts DEF Reserved, BitsOf
<1>3. low = 4085 /\ high = 65524
  BY SMT DEF MinClusters, MaxClusters
<1>4. /\ n \in ClusterSizes(v) /\ n \in Nat /\ n > 0
      /\ \A m \in ClusterSizes(v) : n <= m
  BY ClusterSizeFacts DEF Formattable
<1>5. low <= left
  <2> HIDE DEF left, n, low, high
  <2>1. low <= Clusters(v, n) /\ Clusters(v, n) = CeilDiv(left, n)
    <3>1. Clusters(v, n) \in low .. high
      BY <1>4 DEF ClusterSizes, low, high
    <3>2. Clusters(v, n) = CeilDiv(left, n)
      BY <1>4, OrdinaryClusters DEF left
    <3> QED
      BY <3>1, <3>2
  <2>2. CeilDiv(left, n) <= left /\ CeilDiv(left, n) \in Nat
    <3>1. left \in Nat /\ n \in Nat /\ n > 0
      BY <1>1, <1>4
    <3> QED
      BY <3>1, RoundedUp
  <2> QED
    BY <1>1, <1>3, <2>1, <2>2, SMT
<1>6. left <= high
  <2>1. v.block * FatSectors(v) <= 4096 * FatSectors(v)
        /\ (8 * v.block) * FatSectors(v) = 8 * (v.block * FatSectors(v))
    BY <1>2
  <2>2. Counted(v) <= 2048 * FatSectors(v)
    BY <1>2, <2>1
  <2> QED
    BY <1>1, <1>2, <1>3, <2>2, SMT
<1>7. 1 \in ClusterSizes(v)
  <2> HIDE DEF left, low, high
  <2>1. Clusters(v, 1) = left
    BY <1>1, OrdinaryClusters DEF left, CeilDiv
  <2>2. Clusters(v, 1) \in low .. high
    <3>1. low \in Nat /\ high \in Nat
      BY <1>3, SMT
    <3> QED
      BY <1>1, <1>5, <1>6, <2>1, <3>1
  <2>3. 1 * v.block <= 32768
    BY <1>2, SMT
  <2> QED
    BY <2>2, <2>3 DEF ClusterSizes, low, high
<1>8. n = 1
  BY <1>4, <1>7
<1> QED
  BY <1>3, <1>5, <1>6, <1>8

\* format goes by bytes and mount by clusters, and they agree.
LEMMA TypesAgree ==
    ASSUME NEW v \in Volumes, Formattable(v), FatType(v) # "FAT32", v.sectors < 65536
    PROVE  Partition(BootSector(v)).type = FatType(v)
<1> DEFINE left == v.sectors - RootDirEnd(v)
<1> DEFINE n == SectorsPerCluster(v)
<1>1. left \in Nat /\ Partition(BootSector(v)).type = MountedType(left \div n)
  BY OrdinaryLayout
<1>2. n \in ClusterSizes(v) /\ n \in Nat /\ n > 0
  BY ClusterSizeFacts DEF Formattable
<1>3. CASE FatType(v) = "FAT12"
  <2>1. Clusters(v, n) = CeilDiv(left, n)
    BY <1>2, <1>3, OrdinaryClusters
  <2>2. Clusters(v, n) \in MinClusters(FatType(v)) .. MaxClusters(FatType(v))
    BY <1>2 DEF ClusterSizes
  <2>3. MinClusters(FatType(v)) = 0 /\ MaxClusters(FatType(v)) = 4084
    BY <1>3, SMT DEF MinClusters, MaxClusters
  <2> DEFINE up == CeilDiv(left, n)
  <2> DEFINE down == left \div n
  <2> HIDE DEF left, n
  <2>4. up \in Nat /\ down \in Nat /\ down <= up
    <3>1. left <= n * CeilDiv(left, n) /\ CeilDiv(left, n) \in Nat
      <4>1. left \in Nat /\ n \in Nat /\ n > 0
        BY <1>1, <1>2
      <4> QED
        BY <4>1, RoundedUp
    <3>2. n * (left \div n) <= left /\ left \div n \in Nat
      BY <1>1, <1>2, Division
    <3> HIDE DEF up, down
    <3>3. up \in Nat /\ down \in Nat /\ n * down <= n * up
      BY <1>1, <1>2, <3>1, <3>2 DEF up, down
    <3>4. down <= up
      <4> SUFFICES ASSUME down >= up + 1 PROVE FALSE
        BY <3>3
      <4>1. n * down >= n * (up + 1) /\ n * (up + 1) = n * up + n
        BY <1>2, <3>3
      <4> QED
        BY <1>2, <3>3, <4>1
    <3> QED
      BY <3>3, <3>4
  <2>5. down <= MaxClusters(FatType(v))
    <3> DEFINE high == MaxClusters(FatType(v))
    <3>1. up \in 0 .. high /\ high \in Nat
      BY <2>1, <2>2, <2>3, SMT
    <3> HIDE DEF up, down, high
    <3>2. down <= high
      BY <2>4, <3>1
    <3> QED
      BY <3>2 DEF high
  <2> QED
    BY <1>1, <1>3, <2>3, <2>4, <2>5, SMT DEF MountedType
<1>4. CASE FatType(v) = "FAT16"
  <2>1. n = 1 /\ 4085 <= left /\ left <= 65524
    BY <1>4, SmallFat16
  <2>2. left \div n = left
    BY <1>1, <2>1
  <2> HIDE DEF left, n
  <2> QED
    BY <1>1, <1>4, <2>1, <2>2, SMT DEF MountedType
<1> QED
  BY <1>3, <1>4, VolumeFacts DEF Types

------------------------------------------------------------------------
(* The properties.                                                         *)

\* The boot sector is the one format wrote, what is mounted was read from it,
\* and the disc of an ordinary volume has all of its sectors.
IInv ==
    /\ volume \in Volumes
    /\ stage \in {"blank", "formatted", "mounted", "saved", "failed"}
    /\ disc \in Nat /\ disc <= Huge
    /\ Ordinary => disc = volume.sectors
    /\ boot = None \/ (Formattable(volume) /\ boot = BootSector(volume))
    /\ stage \in {"formatted", "mounted", "saved"} =>
            Formattable(volume) /\ boot = BootSector(volume)
    /\ stage = "mounted" => part = Partition(boot)

\* The size recognize finds.
LEMMA SavedSize ==
    ASSUME NEW v \in Volumes, Formattable(v)
    PROVE  /\ SavedSectors(BootSector(v)) \in Nat /\ SavedSectors(BootSector(v)) <= Huge
           /\ FatType(v) # "FAT32" /\ v.sectors < 65536 => SavedSectors(BootSector(v)) = v.sectors
<1> DEFINE size == SavedSectors(BootSector(v))
<1>1. v.sectors \in Nat /\ 1 <= v.sectors /\ v.sectors <= Huge /\ Huge \in Nat
  BY VolumeFacts, SMT DEF Huge
<1>2. size \in Nat /\ size <= v.sectors
  BY BootSectorFields DEF SavedSectors
<1>3. FatType(v) # "FAT32" /\ v.sectors < 65536 => size = v.sectors
  <2> SUFFICES ASSUME FatType(v) # "FAT32", v.sectors < 65536
               PROVE  size = v.sectors
    OBVIOUS
  <2>1. BootSector(v).totSec16 = v.sectors
    BY OrdinaryLayout
  <2> QED
    BY <1>1, <2>1 DEF SavedSectors
<1> HIDE DEF size
<1>4. size <= Huge
  BY <1>1, <1>2
<1> QED
  BY <1>2, <1>3, <1>4 DEF size

LEMMA InitEstablishes == Init => IInv
BY VolumeFacts DEF Init, IInv

LEMMA StepKeeps == IInv /\ [Next]_vars => IInv'
<1> SUFFICES ASSUME IInv, [Next]_vars PROVE IInv'
  OBVIOUS
<1>1. CASE Format
  BY <1>1 DEF IInv, Format, Ordinary
<1>2. CASE FormatFails
  BY <1>2 DEF IInv, FormatFails, Ordinary
<1>3. CASE Mount
  BY <1>3 DEF IInv, Mount, Ordinary
<1>4. CASE MountFails
  BY <1>4 DEF IInv, MountFails, Ordinary
<1>5. CASE Load
  <2>1. /\ volume \in Volumes /\ Formattable(volume) /\ boot = BootSector(volume)
        /\ volume' = volume /\ boot' = boot /\ stage' = "saved"
        /\ disc' = SavedSectors(BootSector(volume))
    BY <1>5 DEF IInv, Load
  <2>2. /\ disc' \in Nat /\ disc' <= Huge
        /\ Ordinary => disc' = volume.sectors
    BY <2>1, SavedSize DEF Ordinary
  <2> QED
    BY <2>1, <2>2 DEF IInv, Ordinary
<1>6. CASE UNCHANGED vars
  BY <1>6 DEF IInv, vars, Ordinary
<1> QED
  BY <1>1, <1>2, <1>3, <1>4, <1>5, <1>6 DEF Next

LEMMA TypesHold == IInv => TypeOK
<1> SUFFICES ASSUME IInv PROVE TypeOK
  OBVIOUS
<1>1. ASSUME Formattable(volume), boot = BootSector(volume)
      PROVE  /\ boot.sectorsPerCluster \in Nat \ {0} /\ boot.sectorsPerCluster < 256
             /\ boot.totSec16 \in Nat /\ boot.totSec16 < 65536
             /\ boot.fatSz16 \in Nat /\ boot.fatSz16 < 65536
  <2>1. /\ boot.sectorsPerCluster \in Nat /\ 1 <= boot.sectorsPerCluster
        /\ boot.sectorsPerCluster <= 64
        /\ boot.totSec16 \in Nat /\ boot.totSec16 < 65536
        /\ boot.fatSz16 \in Nat /\ boot.fatSz16 < 65536
    BY <1>1, BootSectorFields DEF IInv
  <2> QED
    BY <2>1, SMT
<1>2. stage = "mounted" =>
        part.type \in Types /\ part.lastCluster \in Nat /\ part.lastCluster <= Huge
  BY MountedFields DEF IInv
<1> QED
  BY <1>1, <1>2 DEF IInv, TypeOK

LEMMA FormatIsFound == IInv => MountFindsFormat
<1> SUFFICES ASSUME IInv, stage = "mounted", Ordinary
             PROVE  /\ part.type = FatType(volume)
                    /\ part.numberOfSectors = volume.sectors
                    /\ part.dataStart = RootDirEnd(volume)
  BY DEF MountFindsFormat
<1> QED
  BY TypesAgree, OrdinaryLayout DEF IInv, Ordinary

LEMMA ClustersLieOnDisc == IInv => ClustersAreOnDisc
<1> DEFINE left == volume.sectors - RootDirEnd(volume)
<1> DEFINE end == RootDirEnd(volume)
<1> DEFINE n == part.sectorsPerCluster
<1> DEFINE last == part.lastCluster
<1> SUFFICES ASSUME IInv, stage = "mounted", Ordinary, NEW c \in 2 .. last + 1
             PROVE  /\ ClusterToSector(part, c) >= end
                    /\ ClusterToSector(part, c) + n <= disc
  BY DEF ClustersAreOnDisc
<1>1. /\ left \in Nat /\ n = SectorsPerCluster(volume) /\ last = left \div n
      /\ part.dataStart = end
  BY OrdinaryLayout DEF IInv, Ordinary
<1>2. n \in Nat /\ n > 0
  BY <1>1, ClusterSizeFacts DEF IInv, Formattable
<1>3. disc = end + left /\ end \in Nat
  <2>1. disc = volume.sectors
    BY DEF IInv
  <2>2. end = 1 + FatSectors(volume) + RootDirSectors(volume)
    BY OrdinaryLayout DEF IInv, Ordinary
  <2>3. volume.sectors \in Nat /\ FatSectors(volume) \in Nat /\ RootDirSectors(volume) \in Nat
    BY VolumeFacts, CountedFacts DEF IInv
  <2> QED
    BY <2>1, <2>2, <2>3
<1>4. last \in Nat /\ n * last <= left
  <2> HIDE DEF left, n
  <2> QED
    BY <1>1, <1>2, Division
<1>5. ClusterToSector(part, c) = (c - 2) * n + end
  BY <1>1, <1>4 DEF ClusterToSector
<1> HIDE DEF left, end, n, last
<1>6. (c - 2) * n >= 0 /\ (c - 2) * n + n = n * (c - 1) /\ n * (c - 1) <= n * last
  BY <1>2, <1>4
<1> QED
  BY <1>1, <1>2, <1>3, <1>4, <1>5, <1>6

LEMMA TableHolds == IInv => TableIsLargeEnough
<1> DEFINE left == volume.sectors - RootDirEnd(volume)
<1> DEFINE n == SectorsPerCluster(volume)
<1> DEFINE last == part.lastCluster
<1> DEFINE root == RootDirSectors(volume)
<1> DEFINE k == Counted(volume)
<1> DEFINE fat == FatSectors(volume)
<1> DEFINE bits == BitsOf(FatType(volume))
<1> DEFINE block == volume.block
<1> SUFFICES ASSUME IInv, stage = "mounted", Ordinary
             PROVE  /\ HasElement(part, last)
                    /\ root > 1 => HasElement(part, last + 1)
  BY DEF TableIsLargeEnough
<1>1. /\ left \in Nat /\ last = left \div n
      /\ RootDirEnd(volume) = 1 + fat + root
      /\ part.sectorsPerFat = fat /\ part.bytesPerSector = block
  BY OrdinaryLayout DEF IInv, Ordinary
<1>2. part.type = FatType(volume)
  BY TypesAgree DEF IInv, Ordinary
<1>3. /\ k \in Nat /\ fat \in Nat /\ volume.sectors - 1 <= k + fat
      /\ k * bits <= (8 * block) * fat
      /\ volume.sectors \in Nat /\ block \in Nat /\ bits \in Nat
      /\ root \in Nat /\ root >= 1
  BY CountedFacts, VolumeFacts DEF IInv, Ordinary, Reserved
<1>4. n \in Nat /\ n > 0
  BY ClusterSizeFacts DEF IInv, Formattable
<1>5. left + root <= k
  BY <1>1, <1>3
<1>6. last \in Nat /\ last <= left
  <2> HIDE DEF left, n
  <2> QED
    BY <1>1, <1>4, Division
<1>7. \A c : HasElement(part, c) <=> (c + 1) * bits <= fat * 8 * block
  BY <1>1, <1>2 DEF HasElement
<1> HIDE DEF left, n, last, root, k, fat, bits, block
<1>8. ASSUME NEW c \in Nat, c + 1 <= k
      PROVE  HasElement(part, c)
  <2>1. (c + 1) * bits <= k * bits
    BY <1>3, <1>8
  <2>2. (8 * block) * fat = fat * 8 * block
    BY <1>3
  <2>3. (c + 1) * bits <= fat * 8 * block
    BY <1>3, <2>1, <2>2
  <2> QED
    BY <1>7, <2>3
<1>9. last + 1 <= k /\ (root > 1 => last + 2 <= k) /\ last + 1 \in Nat
  BY <1>1, <1>3, <1>5, <1>6
<1>10. root > 1 => (last + 1) + 1 <= k
  BY <1>3, <1>6, <1>9
<1> QED
  BY <1>6, <1>8, <1>9, <1>10

\* Every volume that format accepts, of any size: the invariant the others
\* follow from.
THEOREM VolumeInvariant == Spec => []IInv
<1> QED
  BY InitEstablishes, StepKeeps, PTL DEF Spec

\* TypeOK: unsigned differences included, mount finds a type and a number of
\* clusters on every volume format makes.
THEOREM TypeCorrect == Spec => []TypeOK
<1> QED
  BY VolumeInvariant, TypesHold, PTL

\* MountFindsFormat: formatFat and _FAT_partition_mount agree on type, size and
\* layout of every volume of FAT12 or FAT16 below 65,536 sectors.
THEOREM MountAgrees == Spec => []MountFindsFormat
<1> QED
  BY VolumeInvariant, FormatIsFound, PTL

\* ClustersAreOnDisc: no cluster overlaps the root directory or the image's end.
THEOREM ClustersFit == Spec => []ClustersAreOnDisc
<1> QED
  BY VolumeInvariant, ClustersLieOnDisc, PTL

\* TableIsLargeEnough: no cluster's element lies behind the table.
THEOREM ElementsFit == Spec => []TableIsLargeEnough
<1> QED
  BY VolumeInvariant, TableHolds, PTL

\* LoadedAsSaved: a saved image can be mounted, and as the volume it was.
THEOREM ImagesLoad == Spec => LoadedAsSaved
<1>1. IInv /\ [Next]_vars =>
        [(stage = "saved" /\ Ordinary) =>
            /\ stage' = "mounted"
            /\ disc' = volume.sectors
            /\ part' = Partition(BootSector(volume))]_vars
  <2> SUFFICES ASSUME IInv, Next, stage = "saved", Ordinary
               PROVE  /\ stage' = "mounted"
                      /\ disc' = volume.sectors
                      /\ part' = Partition(BootSector(volume))
    OBVIOUS
  <2>1. disc = volume.sectors /\ disc > 0 /\ boot = BootSector(volume)
    BY VolumeFacts DEF IInv
  <2>2. Mount
    BY <2>1 DEF Next, Format, FormatFails, MountFails, Load
  <2> QED
    BY <2>1, <2>2 DEF Mount
<1> QED
  BY <1>1, VolumeInvariant, PTL DEF Spec, LoadedAsSaved
=============================================================================
