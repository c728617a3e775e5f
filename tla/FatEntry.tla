----------------------------- MODULE FatEntry -----------------------------
(***************************************************************************)
(* How the entries of the table lie in the bytes of its sectors:           *)
(* nextCluster and writeFatEntry of src/src/fat/file_allocation_table.c.   *)
(* Every other module takes the table for a function from cluster numbers  *)
(* to values; here the bytes are shown to be one.                          *)
(*                                                                         *)
(* Two FAT12 entries share three bytes, and an entry may lie in two        *)
(* sectors.  The sectors are shorter here, which only moves the places     *)
(* where they meet.                                                        *)
(***************************************************************************)
EXTENDS Integers, Sequences

CONSTANTS
    Types,          \* the types of volume, out of 12, 16 and 32 bits
    SectorSize,     \* partition->bytesPerSector
    LastCluster,    \* partition->fat.lastCluster
    Links           \* cluster numbers that are written, of larger volumes too

VARIABLES
    type,       \* partition->filesysType
    bytes,      \* the sectors of the table and the one behind it
    wrote       \* the last call of writeFatEntry: cluster and value

entryVars == <<type, bytes, wrote>>

\* The table as the other modules have it; only its operators are used.
Table == INSTANCE FileAllocationTable
    WITH table <- [c \in 0 .. LastCluster + 1 |-> 0], firstFree <- 2, heads <- {}, orphans <- {}

FREE == Table!CLUSTER_FREE
EOF  == Table!CLUSTER_EOF

\* Block sizes are even, and a multiple of four where entries have four bytes:
\* with others "cluster % (sectorsize >> 1)" gives two clusters one place.
ASSUME EntryAssumption ==
    /\ Types \subseteq {12, 16, 32}
    /\ SectorSize \in Nat /\ SectorSize >= 2
    /\ SectorSize % 2 = 0
    /\ 32 \in Types => SectorSize % 4 = 0
    /\ LastCluster \in Nat /\ 2 <= LastCluster /\ LastCluster <= Table!MaxLastCluster
    /\ \A c \in Links : c \in Nat /\ c < 268435447

------------------------------------------------------------------------
(* Sectors, and the reads and writes of the cache: a place is a sector and *)
(* an offset, and numbers are stored with their low byte first.            *)

Byte(b, p) == b[p.sector][p.offset]
PutByte(b, p, x) == [b EXCEPT ![p.sector][p.offset] = x]

NextByte(p) ==
    IF p.offset + 1 >= SectorSize THEN [sector |-> p.sector + 1, offset |-> 0]
    ELSE [p EXCEPT !.offset = @ + 1]

\* Where the entry of cluster c begins.
Place(t, c) ==
    LET size == IF t = 16 THEN 2 ELSE 4
    IN  IF t = 12 THEN [sector |-> ((c * 3) \div 2) \div SectorSize,
                        offset |-> ((c * 3) \div 2) % SectorSize]
        ELSE [sector |-> (c * size) \div SectorSize,
              offset |-> (c % (SectorSize \div size)) * size]

PastEnd == LastCluster + 1
TableSectors(t) == 0 .. NextByte(Place(t, PastEnd)).sector
SectorBehind(t) == NextByte(Place(t, PastEnd)).sector + 1

------------------------------------------------------------------------
(* The functions.                                                          *)

\* The values from 0x..f7 on end a chain.
EndsFrom(t) == IF t = 12 THEN 4087 ELSE IF t = 16 THEN 65527 ELSE 268435447

Low(t, b, p) == Byte(b, p) + 256 * Byte(b, [p EXCEPT !.offset = @ + 1])

RawEntry(t, b, c) ==
    LET p == Place(t, c)
        both == Byte(b, p) + 256 * Byte(b, NextByte(p))
    IN  IF t = 12 THEN (IF c % 2 = 1 THEN both \div 16 ELSE both % 4096)
        ELSE IF t = 16 THEN Low(t, b, p)
        ELSE Low(t, b, p) + 65536 * Low(t, b, [p EXCEPT !.offset = @ + 2])

NextCluster(t, b, c) ==
    LET v == RawEntry(t, b, c) IN IF v >= EndsFrom(t) THEN EOF ELSE v

\* Mutant: the half of the byte that belongs to the other entry is cleared.
SharedMut(t, b, c, v) ==
    LET p == Place(t, c)
        q == NextByte(p)
    IN  IF c % 2 = 1
        THEN PutByte(PutByte(b, p, (v % 16) * 16), q, (v \div 16) % 256)
        ELSE PutByte(PutByte(b, p, v % 256), q, (v \div 256) % 16)

\* A FAT12 entry: the byte it shares with its neighbour is read first.  Only 16
\* bits of the shifted value are written.
Shared(t, b, c, v) ==
    LET p == Place(t, c)
        q == NextByte(p)
    IN  IF c % 2 = 1
        THEN PutByte(PutByte(b, p, ((v % 16) * 16) + (Byte(b, p) % 16)), q, (v \div 16) % 256)
        ELSE PutByte(PutByte(b, p, v % 256), q,
                     ((v \div 256) % 16) + ((Byte(b, q) \div 16) * 16))

\* Byte i of a value as it is stored.
ByteOf(v, i) ==
    (CASE i = 0 -> v [] i = 1 -> v \div 256
       [] i = 2 -> v \div 65536 [] i = 3 -> v \div 16777216) % 256

\* The low bytes of the value.
Whole(t, b, c, v) ==
    LET p == Place(t, c)
        size == IF t = 16 THEN 2 ELSE 4
    IN  [b EXCEPT ![p.sector] = [o \in DOMAIN @ |->
            IF o \in p.offset .. (p.offset + size - 1) THEN ByteOf(v, o - p.offset) ELSE @[o]]]

\* Mutant: entry 1 and the ones past the table can be written.
RefusedMut(c) == c < 1

Refused(c) == c < Table!CLUSTER_FIRST \/ c > LastCluster

WriteFatEntry(t, b, c, v) ==
    IF Refused(c) THEN b ELSE IF t = 12 THEN Shared(t, b, c, v) ELSE Whole(t, b, c, v)

\* The table that format writes.
FirstBytes(t) ==
    CASE t = 12 -> <<248, 255, 255>>
      [] t = 16 -> <<248, 255, 255, 255>>
      [] t = 32 -> <<248, 255, 255, 15, 255, 255, 255, 15>>

InitFat(t) ==
    [s \in TableSectors(t) \cup {SectorBehind(t)} |->
        [o \in 0 .. SectorSize - 1 |->
            LET i == s * SectorSize + o + 1
            IN  IF i <= Len(FirstBytes(t)) THEN FirstBytes(t)[i] ELSE 0]]

------------------------------------------------------------------------

\* The callers write links the type has room for, end marks and free entries.
Values == {v \in Links : v < EndsFrom(type)} \cup {FREE, EOF}

Init ==
    /\ type \in Types
    /\ bytes = InitFat(type)
    /\ wrote = <<0, FREE>>

Write(c, v) ==
    /\ bytes' = WriteFatEntry(type, bytes, c, v)
    /\ wrote' = <<c, v>>
    /\ UNCHANGED type

Next == \E c \in 0 .. PastEnd, v \in Values : Write(c, v)

Spec == Init /\ [][Next]_entryVars

------------------------------------------------------------------------
(* Properties.                                                             *)

\* What nextCluster shows of the bytes.
Shown == [c \in 0 .. PastEnd |-> NextCluster(type, bytes, c)]

\* writeFatEntry changes the entry it was asked to write and none of the
\* others, whichever bytes they share, and what it has written reads back.
EntriesAreIndependent ==
    [][Shown' = Table!WriteFatEntry(Shown, wrote'[1], wrote'[2])]_entryVars

\* The sector behind the table and the entry past the last cluster keep their
\* contents, and the entries of the first two stay end marks.
NothingElseIsWritten ==
    /\ bytes[SectorBehind(type)] = [o \in 0 .. SectorSize - 1 |-> 0]
    /\ NextCluster(type, bytes, 0) = EOF /\ NextCluster(type, bytes, 1) = EOF
    /\ NextCluster(type, bytes, PastEnd) = FREE
=============================================================================
