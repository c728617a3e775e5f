------------------------- MODULE MCVolumeGeometry -------------------------
(* Sizes around every limit of formatFat and mount.                        *)
EXTENDS VolumeGeometry

Around(n, d) == n - d .. n + d

Sizes(blocks, sectors) == [block : blocks, sectors : sectors]

\* Too small and just large enough; one and two sectors to a cluster on FAT12;
\* FAT12 or FAT16 for blocks of 512 and of 528 bytes; one and two sectors to a
\* cluster on FAT16 are decided by 16 bits.  Blocks of 3584 and 4096 bytes have
\* tables that are exactly full with a root directory of one sector; in those
\* of 600 one sector more is written for the root directory than is counted.
OrdinaryVolumes ==
    Sizes({512, 528, 1024, 1056, 2048, 4096},
          (1 .. 40) \cup Around(4104, 8) \cup Around(8145, 4) \cup Around(8400, 4)
            \cup {1000, 6000, 20000, 40000} \cup Around(65532, 3))
    \cup Sizes({3584}, Around(2391, 2) \cup Around(8966, 2))
    \cup Sizes({4096}, Around(10246, 2))
    \cup Sizes({600}, 1 .. 20)

\* Sizes beyond 16 bits, still FAT16.
LargeVolumes == Sizes({512, 1024}, Around(65535, 20) \cup Around(65800, 20))

\* The smallest sizes formatted as FAT32, with blocks of 528 bytes.
Rest528 == Sizes({528}, Around(64600, 60) \cup Around(66060, 60))

\* The same with blocks of 512 bytes, up to where the table is exactly full.
Rest512 == Sizes({512}, Around(66620, 110))

AllVolumes == OrdinaryVolumes \cup LargeVolumes \cup Rest528 \cup Rest512
=============================================================================
