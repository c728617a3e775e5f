-------------------------- MODULE Encoding_proofs --------------------------
(***************************************************************************)
(* Proofs about what is stored in bytes and has to be read back: FatEntry, *)
(* for sectors and volumes of any size, and ShortName, for any names, any  *)
(* lengths of the fields and any number of places.                         *)
(*                                                                         *)
(* The bytes of the table are numbered through its sectors: At(n) is the   *)
(* place of byte n, and the entry of cluster c begins with byte            *)
(* Start(t, c), wherever sectors end.  A write is then a change of two to  *)
(* four numbered bytes, and only FAT12 entries have a byte in common.      *)
(*                                                                         *)
(* What a directory entry says is a function of the name it was given; the *)
(* lemmas say what that function does to a plain name: the name is read    *)
(* back from the fields it was put into.                                   *)
(***************************************************************************)
EXTENDS FatEntry, ShortName, WellFoundedInduction, TLAPS

At(n) == [sector |-> n \div SectorSize, offset |-> n % SectorSize]

Start(t, c) == IF t = 12 THEN (3 * c) \div 2 ELSE IF t = 16 THEN 2 * c ELSE 4 * c

\* How many bytes belong to an entry.
Width(t) == IF t = 32 THEN 4 ELSE 2

LastByte(t) == Start(t, PastEnd) + Width(t) - 1

Get(b, n) == Byte(b, At(n))

Octet == {x \in Nat : x < 256}

BytesOK(t, b) ==
    b \in [0 .. SectorBehind(t) -> [0 .. SectorSize - 1 -> Octet]]

\* What the entries read as, and the bytes behind them.
IInv ==
    /\ type \in Types
    /\ BytesOK(type, bytes)
    /\ NothingElseIsWritten

------------------------------------------------------------------------
(* Numbers and places.                                                     *)

LEMMA Constants ==
    /\ SectorSize \in Nat /\ SectorSize >= 2
    /\ LastCluster \in Nat /\ LastCluster >= 2
    /\ PastEnd = LastCluster + 1 /\ PastEnd \in Nat
    /\ FREE = 0
    /\ Table!CLUSTER_FIRST = 2 /\ Table!Cluster = 2 .. LastCluster
<1>1. SectorSize \in Nat /\ SectorSize >= 2
  BY EntryAssumption, SMT
<1>2. LastCluster \in Nat /\ LastCluster >= 2
  BY EntryAssumption, SMT DEF Table!MaxLastCluster
<1> QED
  BY <1>1, <1>2 DEF PastEnd, FREE, Table!CLUSTER_FREE, Table!CLUSTER_FIRST, Table!Cluster

\* Division with remainder.
LEMMA Division ==
    ASSUME NEW n \in Nat, NEW m \in Nat, m > 0
    PROVE  n \div m \in Nat /\ n % m \in 0 .. m - 1 /\ n = m * (n \div m) + (n % m)
OBVIOUS

\* Quotient and remainder are unique.
LEMMA DivisionIsUnique ==
    ASSUME NEW q \in Nat, NEW r \in Nat, NEW k \in Nat, NEW l \in Nat,
           NEW m \in Nat, r < m, l < m, m * q + r = m * k + l
    PROVE  q = k /\ r = l
<1>1. ASSUME q < k
      PROVE  FALSE
  <2>1. m * (q + 1) <= m * k
    BY <1>1
  <2>2. m * (q + 1) = m * q + m
    OBVIOUS
  <2> QED
    BY <2>1, <2>2
<1>2. ASSUME k < q
      PROVE  FALSE
  <2>1. m * (k + 1) <= m * q
    BY <1>2
  <2>2. m * (k + 1) = m * k + m
    OBVIOUS
  <2> QED
    BY <2>1, <2>2
<1> QED
  BY <1>1, <1>2

\* The place of a byte, and the byte of a place.
LEMMA AtParts ==
    ASSUME NEW n \in Nat
    PROVE  /\ At(n).sector \in Nat /\ At(n).offset \in 0 .. SectorSize - 1
           /\ n = SectorSize * At(n).sector + At(n).offset
BY Constants, Division DEF At

LEMMA AtOf ==
    ASSUME NEW q \in Nat, NEW r \in 0 .. SectorSize - 1
    PROVE  At(SectorSize * q + r) = [sector |-> q, offset |-> r]
<1> DEFINE n == SectorSize * q + r
<1>1. n \in Nat
  BY Constants
<1>2. n \div SectorSize \in Nat /\ n % SectorSize \in 0 .. SectorSize - 1
      /\ n = SectorSize * (n \div SectorSize) + (n % SectorSize)
  BY <1>1, Constants, Division
<1>3. n \div SectorSize = q /\ n % SectorSize = r
  <2> DEFINE k == n \div SectorSize
  <2> DEFINE l == n % SectorSize
  <2>1. k \in Nat /\ l \in Nat /\ l < SectorSize /\ r \in Nat /\ r < SectorSize
    BY <1>2, Constants
  <2>2. SectorSize * k + l = SectorSize * q + r
    BY <1>2
  <2> HIDE DEF k, l
  <2>3. k = q /\ l = r
    BY <2>1, <2>2, Constants, DivisionIsUnique
  <2> QED
    BY <2>3 DEF k, l
<1> QED
  BY <1>3 DEF At

LEMMA AtIsInjective ==
    ASSUME NEW m \in Nat, NEW n \in Nat, At(m) = At(n)
    PROVE  m = n
<1>1. m = SectorSize * At(m).sector + At(m).offset
  BY AtParts
<1>2. n = SectorSize * At(n).sector + At(n).offset
  BY AtParts
<1> QED
  BY <1>1, <1>2

\* Stepping over the end of a sector leads to the first byte of the next.
LEMMA AtNext ==
    ASSUME NEW n \in Nat
    PROVE  NextByte(At(n)) = At(n + 1)
<1> DEFINE q == At(n).sector
<1> DEFINE r == At(n).offset
<1>1. /\ q \in Nat /\ r \in 0 .. SectorSize - 1 /\ n = SectorSize * q + r
      /\ At(n) = [sector |-> q, offset |-> r]
  BY AtParts DEF At
<1> HIDE DEF q, r
<1>2. CASE r + 1 >= SectorSize
  <2>1. n + 1 = SectorSize * (q + 1) + 0
    <3>1. SectorSize * (q + 1) = SectorSize * q + SectorSize
      BY <1>1, Constants
    <3> QED
      BY <1>1, <1>2, <3>1, Constants
  <2>2. At(n + 1) = [sector |-> q + 1, offset |-> 0]
    BY <1>1, <2>1, AtOf, Constants
  <2> QED
    BY <1>1, <1>2, <2>2 DEF NextByte
<1>3. CASE ~(r + 1 >= SectorSize)
  <2>1. n + 1 = SectorSize * q + (r + 1) /\ r + 1 \in 0 .. SectorSize - 1
    BY <1>1, <1>3, Constants
  <2>2. At(n + 1) = [sector |-> q, offset |-> r + 1]
    BY <1>1, <2>1, AtOf
  <2> QED
    BY <1>1, <1>3, <2>2 DEF NextByte
<1> QED
  BY <1>2, <1>3

LEMMA AtIsMonotone ==
    ASSUME NEW m \in Nat, NEW n \in Nat, m <= n
    PROVE  At(m).sector <= At(n).sector
<1> DEFINE q == At(m).sector
<1> DEFINE k == At(n).sector
<1>1. /\ q \in Nat /\ k \in Nat
      /\ SectorSize * q <= m /\ n < SectorSize * k + SectorSize
  <2>1. /\ q \in Nat /\ At(m).offset \in 0 .. SectorSize - 1
        /\ m = SectorSize * q + At(m).offset
    BY AtParts
  <2>2. /\ k \in Nat /\ At(n).offset \in 0 .. SectorSize - 1
        /\ n = SectorSize * k + At(n).offset
    BY AtParts
  <2> HIDE DEF q, k
  <2> QED
    BY <2>1, <2>2, Constants
<1> HIDE DEF q, k
<1>2. ASSUME k < q
      PROVE  FALSE
  <2>1. SectorSize * (k + 1) <= SectorSize * q
    BY <1>1, <1>2, Constants
  <2>2. SectorSize * (k + 1) = SectorSize * k + SectorSize
    BY <1>1, Constants
  <2>3. SectorSize * q \in Nat /\ SectorSize * k \in Nat
    BY <1>1, Constants
  <2> QED
    BY <1>1, <2>1, <2>2, <2>3, Constants
<1> QED
  BY <1>1, <1>2 DEF q, k

------------------------------------------------------------------------
(* Entries.                                                                *)

\* Two bytes of an entry that do not straddle a sector's end.
LEMMA EvenPair ==
    ASSUME NEW n \in Nat, NEW k \in Nat, NEW w \in {2, 4}, SectorSize % w = 0,
           n = w * k, NEW i \in 0 .. w - 1
    PROVE  /\ At(n) = [sector |-> n \div SectorSize,
                       offset |-> w * (k % (SectorSize \div w))]
           /\ At(n + i) = [sector |-> At(n).sector, offset |-> At(n).offset + i]
<1> DEFINE h == SectorSize \div w
<1>1. h \in Nat /\ h > 0 /\ SectorSize = w * h
  BY Constants
<1> DEFINE q == k \div h
<1> DEFINE r == k % h
<1>2. q \in Nat /\ r \in 0 .. h - 1 /\ k = h * q + r
  BY <1>1, Division
<1>3. w * r + i \in 0 .. SectorSize - 1 /\ w * r \in 0 .. SectorSize - 1
  <2> HIDE DEF h, q, r
  <2>1. CASE w = 2
    BY <1>1, <1>2, <2>1
  <2>2. CASE w = 4
    BY <1>1, <1>2, <2>2
  <2> QED
    BY <2>1, <2>2
<1>4. n = SectorSize * q + w * r
  <2> HIDE DEF h, q, r
  <2>1. CASE w = 2
    BY <1>1, <1>2, <2>1
  <2>2. CASE w = 4
    BY <1>1, <1>2, <2>2
  <2> QED
    BY <2>1, <2>2
<1>5. At(n) = [sector |-> q, offset |-> w * r]
  <2> HIDE DEF h, q, r
  <2> QED BY <1>2, <1>3, <1>4, AtOf
<1>6. At(n + i) = [sector |-> q, offset |-> w * r + i]
  <2> HIDE DEF h, q, r
  <2>1. n + i = SectorSize * q + (w * r + i)
    BY <1>1, <1>2, <1>3, <1>4, Constants
  <2> QED
    BY <1>2, <1>3, <2>1, AtOf
<1>7. n \div SectorSize = q
  BY <1>5 DEF At
<1> HIDE DEF q
<1> QED
  BY <1>5, <1>6, <1>7

\* The code computes the place of byte Start(t, c).
LEMMA PlaceIsAt ==
    ASSUME NEW t \in Types, NEW c \in Nat
    PROVE  /\ Start(t, c) \in Nat
           /\ Place(t, c) = At(Start(t, c))
           /\ t # 12 => \A i \in 0 .. Width(t) - 1 :
                At(Start(t, c) + i) =
                    [sector |-> Place(t, c).sector, offset |-> Place(t, c).offset + i]
<1>1. t \in {12, 16, 32} /\ SectorSize % 2 = 0 /\ (t = 32 => SectorSize % 4 = 0)
  BY EntryAssumption, SMT
<1>2. CASE t = 12
  BY <1>2 DEF Start, Place, At
<1>3. CASE t = 16
  <2>1. Start(t, c) = 2 * c /\ Width(t) = 2 /\ 2 * c \in Nat
    BY <1>3 DEF Start, Width
  <2>2. \A i \in 0 .. 1 :
          /\ At(2 * c) = [sector |-> (2 * c) \div SectorSize,
                          offset |-> 2 * (c % (SectorSize \div 2))]
          /\ At(2 * c + i) = [sector |-> At(2 * c).sector, offset |-> At(2 * c).offset + i]
    <3>1. 0 .. 2 - 1 = 0 .. 1 /\ 2 \in {2, 4} /\ 2 * c \in Nat
      OBVIOUS
    <3> QED
      BY <1>1, <3>1, EvenPair
  <2>3. Place(t, c) = [sector |-> (c * 2) \div SectorSize,
                       offset |-> (c % (SectorSize \div 2)) * 2]
    BY <1>3 DEF Place
  <2>4. Place(t, c) = At(2 * c)
    <3>1. c % (SectorSize \div 2) \in Nat
      BY Constants
    <3>2. (c % (SectorSize \div 2)) * 2 = 2 * (c % (SectorSize \div 2)) /\ c * 2 = 2 * c
      BY <3>1
    <3> QED
      BY <2>2, <2>3, <3>2
  <2> QED
    BY <2>1, <2>2, <2>4
<1>4. CASE t = 32
  <2>1. Start(t, c) = 4 * c /\ Width(t) = 4 /\ 4 * c \in Nat
    BY <1>4 DEF Start, Width
  <2>2. \A i \in 0 .. 3 :
          /\ At(4 * c) = [sector |-> (4 * c) \div SectorSize,
                          offset |-> 4 * (c % (SectorSize \div 4))]
          /\ At(4 * c + i) = [sector |-> At(4 * c).sector, offset |-> At(4 * c).offset + i]
    <3>1. 0 .. 4 - 1 = 0 .. 3 /\ 4 \in {2, 4} /\ 4 * c \in Nat
      OBVIOUS
    <3> QED
      BY <1>1, <1>4, <3>1, EvenPair
  <2>3. Place(t, c) = [sector |-> (c * 4) \div SectorSize,
                       offset |-> (c % (SectorSize \div 4)) * 4]
    BY <1>4 DEF Place
  <2>4. Place(t, c) = At(4 * c)
    <3>1. c % (SectorSize \div 4) \in Nat
      <4>1. SectorSize \div 4 > 0 /\ SectorSize \div 4 \in Nat
        BY <1>1, <1>4, Constants
      <4> QED
        BY <4>1
    <3>2. (c % (SectorSize \div 4)) * 4 = 4 * (c % (SectorSize \div 4)) /\ c * 4 = 4 * c
      BY <3>1
    <3> QED
      BY <2>2, <2>3, <3>2
  <2> QED
    BY <2>1, <2>2, <2>4
<1> QED
  BY <1>1, <1>2, <1>3, <1>4

\* The bytes of the table lie in the sectors before SectorBehind.
LEMMA TableBytes ==
    ASSUME NEW t \in Types
    PROVE  /\ LastByte(t) \in Nat
           /\ SectorBehind(t) \in Nat
           /\ \A n \in 0 .. LastByte(t) :
                /\ At(n).sector \in 0 .. SectorBehind(t) - 1
                /\ At(n).offset \in 0 .. SectorSize - 1
           /\ \A c \in 0 .. PastEnd : Start(t, c) + Width(t) - 1 <= LastByte(t)
<1>1. t \in {12, 16, 32}
  BY EntryAssumption, SMT
<1>2. Start(t, PastEnd) \in Nat /\ Place(t, PastEnd) = At(Start(t, PastEnd))
  BY Constants, PlaceIsAt
<1>3. LastByte(t) \in Nat
  BY <1>2, <1>1 DEF LastByte, Width
<1>4. NextByte(Place(t, PastEnd)) = At(Start(t, PastEnd) + 1)
  BY <1>2, AtNext
<1>5. At(LastByte(t)).sector = At(Start(t, PastEnd) + 1).sector
  <2>1. CASE t = 32
    <3>1. \A i \in 0 .. 3 : At(Start(t, PastEnd) + i).sector = Place(t, PastEnd).sector
      <4>1. t # 12 /\ 0 .. Width(t) - 1 = 0 .. 3 /\ PastEnd \in Nat
        BY <2>1, Constants DEF Width
      <4>2. \A i \in 0 .. Width(t) - 1 :
              At(Start(t, PastEnd) + i) = [sector |-> Place(t, PastEnd).sector,
                                           offset |-> Place(t, PastEnd).offset + i]
        BY <4>1, PlaceIsAt
      <4> TAKE i \in 0 .. 3
      <4>3. i \in 0 .. Width(t) - 1
        BY <4>1
      <4>4. At(Start(t, PastEnd) + i) = [sector |-> Place(t, PastEnd).sector,
                                         offset |-> Place(t, PastEnd).offset + i]
        BY <4>2, <4>3
      <4> QED
        BY <4>4
    <3>2. LastByte(t) = Start(t, PastEnd) + 3
      BY <2>1, <1>2 DEF LastByte, Width
    <3> QED
      BY <3>1, <3>2
  <2>2. CASE t # 32
    <3>1. LastByte(t) = Start(t, PastEnd) + 1
      BY <2>2, <1>2 DEF LastByte, Width
    <3> QED
      BY <3>1
  <2> QED
    BY <2>1, <2>2
<1>6. SectorBehind(t) = At(LastByte(t)).sector + 1 /\ SectorBehind(t) \in Nat
  <2>1. At(LastByte(t)).sector \in Nat
    BY <1>3, AtParts
  <2> QED
    BY <2>1, <1>4, <1>5 DEF SectorBehind
<1>7. ASSUME NEW n \in 0 .. LastByte(t)
      PROVE  /\ At(n).sector \in 0 .. SectorBehind(t) - 1
             /\ At(n).offset \in 0 .. SectorSize - 1
  <2>1. n \in Nat /\ n <= LastByte(t)
    BY <1>3
  <2>2. At(n).sector <= At(LastByte(t)).sector
    BY <1>3, <2>1, AtIsMonotone
  <2>3. At(n).sector \in Nat /\ At(n).offset \in 0 .. SectorSize - 1
        /\ At(LastByte(t)).sector \in Nat
    BY <1>3, <2>1, AtParts
  <2> QED
    BY <1>6, <2>2, <2>3
<1>8. ASSUME NEW c \in 0 .. PastEnd
      PROVE  Start(t, c) + Width(t) - 1 <= LastByte(t)
  <2>1. c \in Nat /\ c <= PastEnd /\ PastEnd \in Nat
    BY Constants
  <2>2. Start(t, c) <= Start(t, PastEnd) /\ Start(t, c) \in Nat
    <3>1. CASE t = 12
      BY <2>1, <3>1 DEF Start
    <3>2. CASE t # 12
      BY <2>1, <3>2 DEF Start
    <3> QED
      BY <3>1, <3>2
  <2> QED
    BY <1>2, <2>2, <1>1 DEF LastByte, Width
<1> QED
  BY <1>3, <1>6, <1>7, <1>8

\* Writing one byte of the table.
LEMMA PutByteGets ==
    ASSUME NEW t \in Types, NEW b, BytesOK(t, b), NEW n \in 0 .. LastByte(t),
           NEW x \in Octet
    PROVE  /\ BytesOK(t, PutByte(b, At(n), x))
           /\ Get(PutByte(b, At(n), x), n) = x
           /\ \A m \in 0 .. LastByte(t) :
                m # n => Get(PutByte(b, At(n), x), m) = Get(b, m)
           /\ PutByte(b, At(n), x)[SectorBehind(t)] = b[SectorBehind(t)]
<1> DEFINE d == PutByte(b, At(n), x)
<1> DEFINE q == At(n).sector
<1> DEFINE o == At(n).offset
<1>1. /\ SectorBehind(t) \in Nat
      /\ q \in 0 .. SectorBehind(t) - 1 /\ o \in 0 .. SectorSize - 1
  BY TableBytes
<1>2. q \in 0 .. SectorBehind(t) /\ q # SectorBehind(t)
  BY <1>1
<1>3. d = [b EXCEPT ![q] = [b[q] EXCEPT ![o] = x]]
  BY DEF PutByte
<1>4. b \in [0 .. SectorBehind(t) -> [0 .. SectorSize - 1 -> Octet]]
  BY DEF BytesOK
<1> HIDE DEF d, q, o
<1>5. BytesOK(t, d) /\ d[SectorBehind(t)] = b[SectorBehind(t)]
  <2>1. b[q] \in [0 .. SectorSize - 1 -> Octet]
    BY <1>2, <1>4
  <2>2. [b[q] EXCEPT ![o] = x] \in [0 .. SectorSize - 1 -> Octet]
    BY <2>1, <1>1
  <2> QED
    BY <1>1, <1>2, <1>3, <1>4, <2>2 DEF BytesOK
<1>6. ASSUME NEW m \in 0 .. LastByte(t)
      PROVE  /\ m = n => Get(d, m) = x
             /\ m # n => Get(d, m) = Get(b, m)
  <2>1. /\ At(m).sector \in 0 .. SectorBehind(t) - 1
        /\ At(m).offset \in 0 .. SectorSize - 1
    BY TableBytes
  <2>2. At(m).sector \in 0 .. SectorBehind(t)
    BY <2>1, <1>1
  <2>3. d[At(m).sector][At(m).offset] =
            IF At(m).sector = q /\ At(m).offset = o THEN x ELSE b[At(m).sector][At(m).offset]
    BY <1>1, <1>2, <1>3, <1>4, <2>1, <2>2
  <2>4. m # n => ~(At(m).sector = q /\ At(m).offset = o)
    <3>1. m \in Nat /\ n \in Nat
      BY TableBytes
    <3> QED
      BY <3>1, AtIsInjective DEF At, q, o
  <2>5. m = n => At(m).sector = q /\ At(m).offset = o
    BY DEF q, o
  <2> QED
    BY <2>3, <2>4, <2>5 DEF Get, Byte
<1> QED
  BY <1>5, <1>6 DEF d

\* Writing an entry of whole bytes.
LEMMA WholeGets ==
    ASSUME NEW t \in Types, t # 12, NEW b, BytesOK(t, b), NEW c \in Table!Cluster,
           NEW v \in Nat
    PROVE  /\ BytesOK(t, Whole(t, b, c, v))
           /\ \A i \in 0 .. Width(t) - 1 :
                Get(Whole(t, b, c, v), Start(t, c) + i) = ByteOf(v, i)
           /\ \A m \in 0 .. LastByte(t) :
                m \notin Start(t, c) .. Start(t, c) + Width(t) - 1 =>
                    Get(Whole(t, b, c, v), m) = Get(b, m)
           /\ Whole(t, b, c, v)[SectorBehind(t)] = b[SectorBehind(t)]
<1> DEFINE p == Place(t, c)
<1> DEFINE n == Start(t, c)
<1> DEFINE w == Width(t)
<1> DEFINE d == Whole(t, b, c, v)
<1> DEFINE new == [o \in DOMAIN b[p.sector] |->
                    IF o \in p.offset .. (p.offset + w - 1) THEN ByteOf(v, o - p.offset)
                    ELSE b[p.sector][o]]
<1>1. t \in {16, 32} /\ (IF t = 16 THEN 2 ELSE 4) = w /\ w \in {2, 4}
  <2>1. t \in {12, 16, 32}
    BY EntryAssumption, SMT
  <2> QED
    BY <2>1 DEF Width
<1>2. d = [b EXCEPT ![p.sector] = new]
  BY <1>1 DEF Whole
<1>3. c \in Nat /\ c \in 0 .. PastEnd
  BY Constants
<1>4. n \in Nat /\ n \in 0 .. LastByte(t) /\ p = At(n)
  <2>1. n \in Nat /\ p = At(n)
    BY <1>3, PlaceIsAt
  <2>2. n + w - 1 <= LastByte(t) /\ LastByte(t) \in Nat
    BY <1>3, TableBytes
  <2> QED
    BY <1>1, <2>1, <2>2
<1>5. /\ SectorBehind(t) \in Nat
      /\ p.sector \in 0 .. SectorBehind(t) - 1 /\ p.offset \in 0 .. SectorSize - 1
      /\ n = SectorSize * p.sector + p.offset
  BY <1>4, TableBytes, AtParts
<1>6. p.sector \in 0 .. SectorBehind(t) /\ p.sector # SectorBehind(t)
  BY <1>5
<1>7. b \in [0 .. SectorBehind(t) -> [0 .. SectorSize - 1 -> Octet]]
  BY DEF BytesOK
<1>8. \A i \in 0 .. w - 1 : ByteOf(v, i) \in Octet
  <2>1. \A x \in Nat : x % 256 \in Octet
    BY DEF Octet
  <2>2. v \div 256 \in Nat /\ v \div 65536 \in Nat /\ v \div 16777216 \in Nat
    BY SMT
  <2> QED
    BY <1>1, <2>1, <2>2, SMT DEF ByteOf
<1>9. b[p.sector] \in [0 .. SectorSize - 1 -> Octet]
  BY <1>6, <1>7
<1>10. /\ DOMAIN new = 0 .. SectorSize - 1
       /\ \A o \in 0 .. SectorSize - 1 :
            new[o] = IF o \in p.offset .. (p.offset + w - 1) THEN ByteOf(v, o - p.offset)
                     ELSE b[p.sector][o]
  BY <1>9
<1>11. new \in [0 .. SectorSize - 1 -> Octet]
  <2>1. ASSUME NEW o \in 0 .. SectorSize - 1
        PROVE  new[o] \in Octet
    <3> HIDE DEF new, p, w
    <3>1. CASE o \in p.offset .. (p.offset + w - 1)
      <4>1. o - p.offset \in 0 .. w - 1
        <5>1. w \in Nat /\ p.offset \in Nat /\ o \in Nat
          BY <1>1, <1>5, Constants
        <5> QED
          BY <3>1, <5>1
      <4>2. new[o] = ByteOf(v, o - p.offset)
        BY <1>10, <3>1
      <4> QED
        BY <1>8, <4>1, <4>2
    <3>2. CASE o \notin p.offset .. (p.offset + w - 1)
      <4>1. new[o] = b[p.sector][o]
        BY <1>10, <3>2
      <4> QED
        BY <1>9, <4>1
    <3> QED
      BY <3>1, <3>2
  <2>2. new = [o \in 0 .. SectorSize - 1 |-> new[o]]
    BY <1>10
  <2> HIDE DEF new
  <2> QED
    BY <2>1, <2>2
<1> HIDE DEF d, new, p, n, w
<1>12. BytesOK(t, d) /\ d[SectorBehind(t)] = b[SectorBehind(t)]
  BY <1>2, <1>5, <1>6, <1>7, <1>11 DEF BytesOK
<1>13. ASSUME NEW m \in 0 .. LastByte(t)
       PROVE  /\ m \in n .. n + w - 1 => Get(d, m) = ByteOf(v, m - n)
              /\ m \notin n .. n + w - 1 => Get(d, m) = Get(b, m)
  <2> DEFINE q == At(m).sector
  <2> DEFINE o == At(m).offset
  <2>1. /\ q \in 0 .. SectorBehind(t) - 1 /\ o \in 0 .. SectorSize - 1
        /\ m \in Nat /\ m = SectorSize * q + o
    BY TableBytes, AtParts
  <2>2. q \in 0 .. SectorBehind(t)
    BY <2>1, <1>5
  <2>3. Get(d, m) = d[q][o] /\ Get(b, m) = b[q][o]
    BY DEF Get, Byte
  <2> HIDE DEF q, o
  <2>4. CASE q = p.sector
    <3>1. d[q][o] = new[o]
      BY <1>2, <1>6, <1>7, <2>4
    <3>2. m - n = o - p.offset
      <4>1. /\ SectorSize * q = SectorSize * p.sector /\ SectorSize * q \in Int
            /\ o \in Int /\ p.offset \in Int
        BY <1>5, <2>1, <2>4, Constants
      <4> QED
        BY <4>1, <1>4, <1>5, <2>1
    <3>3. (m \in n .. n + w - 1) <=> (o \in p.offset .. (p.offset + w - 1))
      BY <1>1, <1>4, <1>5, <2>1, <3>2
    <3> QED
      BY <1>10, <2>1, <2>3, <2>4, <3>1, <3>2, <3>3
  <2>5. CASE q # p.sector
    <3>1. d[q][o] = b[q][o]
      BY <1>2, <1>7, <2>2, <2>5
    <3>2. m \notin n .. n + w - 1
      <4> SUFFICES ASSUME m \in n .. n + w - 1
                   PROVE  q = p.sector
        BY <2>5
      <4>1. m - n \in 0 .. w - 1 /\ m = n + (m - n)
        BY <1>1, <1>4, <2>1
      <4>2. At(m).sector = p.sector
        <5>1. \A i \in 0 .. w - 1 :
                At(n + i) = [sector |-> p.sector, offset |-> p.offset + i]
          BY <1>3, PlaceIsAt DEF p, n, w
        <5>2. At(n + (m - n)) = [sector |-> p.sector, offset |-> p.offset + (m - n)]
          BY <4>1, <5>1
        <5>3. At(m) = At(n + (m - n))
          BY <4>1
        <5> QED
          BY <5>2, <5>3
      <4> QED
        BY <4>2 DEF q
    <3> QED
      BY <2>3, <3>1, <3>2
  <2> QED
    BY <2>4, <2>5
<1>14. ASSUME NEW i \in 0 .. w - 1
       PROVE  Get(d, n + i) = ByteOf(v, i)
  <2>1. n + i \in 0 .. LastByte(t) /\ n + i \in n .. n + w - 1 /\ (n + i) - n = i
    <3>1. n + w - 1 <= LastByte(t) /\ LastByte(t) \in Nat
      BY <1>3, TableBytes DEF n, w
    <3> QED
      BY <1>1, <1>4, <3>1
  <2> QED
    BY <1>13, <2>1
<1> QED
  BY <1>12, <1>13, <1>14 DEF d, n, w

\* The two bytes that writing a FAT12 entry leaves.
FirstByte(b, c, v) ==
    IF c % 2 = 1 THEN ((v % 16) * 16) + (Get(b, Start(12, c)) % 16) ELSE v % 256

SecondByte(b, c, v) ==
    IF c % 2 = 1 THEN (v \div 16) % 256
    ELSE ((v \div 256) % 16) + ((Get(b, Start(12, c) + 1) \div 16) * 16)

\* Every byte of the table is one.
LEMMA GetsAreBytes ==
    ASSUME NEW t \in Types, NEW b, BytesOK(t, b), NEW n \in 0 .. LastByte(t)
    PROVE  Get(b, n) \in Octet
<1>1. At(n).sector \in 0 .. SectorBehind(t) /\ At(n).offset \in 0 .. SectorSize - 1
  BY TableBytes
<1> QED
  BY <1>1 DEF BytesOK, Get, Byte

\* The bytes of an entry are bytes of the table.
LEMMA EntryBytes ==
    ASSUME NEW t \in Types, NEW c \in 0 .. PastEnd
    PROVE  /\ c \in Nat /\ Start(t, c) \in Nat
           /\ \A i \in 0 .. Width(t) - 1 : Start(t, c) + i \in 0 .. LastByte(t)
<1>1. t \in {12, 16, 32}
  BY EntryAssumption, SMT
<1>2. c \in Nat
  BY Constants
<1>3. Start(t, c) \in Nat /\ LastByte(t) \in Nat /\ Start(t, c) + Width(t) - 1 <= LastByte(t)
  BY <1>2, PlaceIsAt, TableBytes
<1> QED
  BY <1>1, <1>2, <1>3 DEF Width

\* Writing two bytes, wherever a sector ends.
LEMMA PutTwoGets ==
    ASSUME NEW t \in Types, NEW b, BytesOK(t, b),
           NEW n \in 0 .. LastByte(t), NEW k \in 0 .. LastByte(t), n # k,
           NEW x \in Octet, NEW y \in Octet
    PROVE  LET d == PutByte(PutByte(b, At(n), x), At(k), y)
           IN  /\ BytesOK(t, d) /\ d[SectorBehind(t)] = b[SectorBehind(t)]
               /\ Get(d, n) = x /\ Get(d, k) = y
               /\ \A m \in 0 .. LastByte(t) : (m # n /\ m # k) => Get(d, m) = Get(b, m)
<1> DEFINE e == PutByte(b, At(n), x)
<1>1. /\ BytesOK(t, e) /\ e[SectorBehind(t)] = b[SectorBehind(t)]
      /\ Get(e, n) = x
      /\ \A m \in 0 .. LastByte(t) : m # n => Get(e, m) = Get(b, m)
  BY PutByteGets
<1> HIDE DEF e
<1> DEFINE d == PutByte(e, At(k), y)
<1>2. /\ BytesOK(t, d) /\ d[SectorBehind(t)] = e[SectorBehind(t)]
      /\ Get(d, k) = y
      /\ \A m \in 0 .. LastByte(t) : m # k => Get(d, m) = Get(e, m)
  BY <1>1, PutByteGets
<1> HIDE DEF d
<1>3. /\ BytesOK(t, d) /\ d[SectorBehind(t)] = b[SectorBehind(t)]
      /\ Get(d, n) = x /\ Get(d, k) = y
      /\ \A m \in 0 .. LastByte(t) : (m # n /\ m # k) => Get(d, m) = Get(b, m)
  BY <1>1, <1>2
<1> QED
  BY <1>3 DEF d, e

\* Writing a FAT12 entry.
LEMMA SharedGets ==
    ASSUME NEW t \in Types, t = 12, NEW b, BytesOK(t, b), NEW c \in Table!Cluster, NEW v \in Nat
    PROVE  /\ BytesOK(t, Shared(t, b, c, v))
           /\ Get(Shared(t, b, c, v), Start(t, c)) = FirstByte(b, c, v)
           /\ Get(Shared(t, b, c, v), Start(t, c) + 1) = SecondByte(b, c, v)
           /\ \A m \in 0 .. LastByte(t) :
                (m # Start(t, c) /\ m # Start(t, c) + 1) =>
                    Get(Shared(t, b, c, v), m) = Get(b, m)
           /\ Shared(t, b, c, v)[SectorBehind(t)] = b[SectorBehind(t)]
<1> DEFINE n == Start(t, c)
<1> DEFINE x == FirstByte(b, c, v)
<1> DEFINE y == SecondByte(b, c, v)
<1>1. c \in Nat /\ c \in 0 .. PastEnd
  BY Constants
<1>2. n \in Nat /\ n \in 0 .. LastByte(t) /\ n + 1 \in 0 .. LastByte(t)
  <2>1. \A i \in 0 .. Width(t) - 1 : n + i \in 0 .. LastByte(t)
    BY <1>1, EntryBytes
  <2>2. Width(t) = 2 /\ n \in Nat
    BY <1>1, EntryBytes DEF Width
  <2>3. n + 0 \in 0 .. LastByte(t) /\ n + 1 \in 0 .. LastByte(t) /\ n + 0 = n
    <3> HIDE DEF n
    <3> QED BY <2>1, <2>2
  <2> QED
    BY <2>2, <2>3
<1>3. Place(t, c) = At(n) /\ NextByte(Place(t, c)) = At(n + 1)
  BY <1>1, <1>2, PlaceIsAt, AtNext
<1>4. Get(b, n) \in Octet /\ Get(b, n + 1) \in Octet
  BY <1>2, GetsAreBytes
<1>5. Shared(t, b, c, v) = PutByte(PutByte(b, At(n), x), At(n + 1), y)
  BY <1>3 DEF Shared, FirstByte, SecondByte, Get
<1>6. x \in Octet /\ y \in Octet
  <2> DEFINE e == Get(b, n)
  <2> DEFINE f == Get(b, n + 1)
  <2> HIDE DEF e, f
  <2>1. e \in Octet /\ f \in Octet
    BY <1>4 DEF e, f
  <2>2. /\ ((v % 16) * 16) + (e % 16) \in Octet /\ v % 256 \in Octet
        /\ (v \div 16) % 256 \in Octet
        /\ ((v \div 256) % 16) + ((f \div 16) * 16) \in Octet
    BY <2>1 DEF Octet
  <2> QED
    BY <2>2 DEF FirstByte, SecondByte, e, f
<1> HIDE DEF n, x, y
<1>7. n + 1 # n
  BY <1>2
<1>8. /\ BytesOK(t, Shared(t, b, c, v))
      /\ Shared(t, b, c, v)[SectorBehind(t)] = b[SectorBehind(t)]
      /\ Get(Shared(t, b, c, v), n) = x
      /\ Get(Shared(t, b, c, v), n + 1) = y
      /\ \A m \in 0 .. LastByte(t) :
            (m # n /\ m # n + 1) => Get(Shared(t, b, c, v), m) = Get(b, m)
  BY <1>2, <1>5, <1>6, <1>7, PutTwoGets
<1> QED
  BY <1>8 DEF n, x, y

\* What an entry reads as, from its bytes.
LEMMA RawIs ==
    ASSUME NEW t \in Types, NEW b, NEW c \in Nat
    PROVE  LET g(i) == Get(b, Start(t, c) + i)
           IN  RawEntry(t, b, c) =
                IF t = 12 THEN (IF c % 2 = 1 THEN (g(0) + 256 * g(1)) \div 16
                                ELSE (g(0) + 256 * g(1)) % 4096)
                ELSE IF t = 16 THEN g(0) + 256 * g(1)
                ELSE (g(0) + 256 * g(1)) + 65536 * (g(2) + 256 * g(3))
<1> DEFINE n == Start(t, c)
<1> DEFINE p == Place(t, c)
<1>1. t \in {12, 16, 32}
  BY EntryAssumption, SMT
<1>2. n \in Nat /\ p = At(n) /\ NextByte(p) = At(n + 1) /\ n + 0 = n
  BY PlaceIsAt, AtNext
<1>3. CASE t = 12
  BY <1>2, <1>3 DEF RawEntry, Get
<1>4. ASSUME t # 12
      PROVE  \A i \in 0 .. Width(t) - 1 :
                At(n + i) = [sector |-> p.sector, offset |-> p.offset + i]
  BY <1>4, PlaceIsAt
<1>5. CASE t = 16
  <2>1. 0 .. Width(t) - 1 = 0 .. 1
    BY <1>5 DEF Width
  <2>2. At(n + 1) = [sector |-> p.sector, offset |-> p.offset + 1]
    BY <1>4, <1>5, <2>1
  <2>3. [p EXCEPT !.offset = @ + 1] = At(n + 1)
    BY <1>2, <2>2 DEF At
  <2>4. RawEntry(t, b, c) = Low(t, b, p)
    BY <1>5 DEF RawEntry
  <2> QED
    BY <1>2, <1>5, <2>3, <2>4 DEF Low, Get
<1>6. CASE t = 32
  <2>1. 0 .. Width(t) - 1 = 0 .. 3
    BY <1>6 DEF Width
  <2>2. /\ At(n + 1) = [sector |-> p.sector, offset |-> p.offset + 1]
        /\ At(n + 2) = [sector |-> p.sector, offset |-> p.offset + 2]
        /\ At(n + 3) = [sector |-> p.sector, offset |-> p.offset + 3]
    BY <1>4, <1>6, <2>1
  <2>3. p = [sector |-> p.sector, offset |-> p.offset] /\ p.offset \in Int
    BY <1>2, Constants DEF At
  <2>4. /\ [p EXCEPT !.offset = @ + 1] = At(n + 1)
        /\ [p EXCEPT !.offset = @ + 2] = At(n + 2)
    BY <2>2, <2>3
  <2>5. [At(n + 2) EXCEPT !.offset = @ + 1] = At(n + 3)
    BY <2>2, <2>3
  <2>6. RawEntry(t, b, c) = Low(t, b, p) + 65536 * Low(t, b, At(n + 2))
    BY <1>6, <2>4, SMT DEF RawEntry
  <2>7. /\ Low(t, b, p) = Byte(b, p) + 256 * Byte(b, At(n + 1))
        /\ Low(t, b, At(n + 2)) = Byte(b, At(n + 2)) + 256 * Byte(b, At(n + 3))
    BY <2>4, <2>5 DEF Low
  <2> QED
    BY <1>2, <1>6, <2>6, <2>7, SMT DEF Get
<1> QED
  BY <1>1, <1>3, <1>5, <1>6

------------------------------------------------------------------------
(* Reading after writing.                                                  *)

\* What the callers write: a link the type has room for, a free entry or the
\* end mark.
Writable(t, v) == v \in Nat /\ (v < EndsFrom(t) \/ v = EOF)

\* A value reads back from the digits a FAT12 entry has of it.
LEMMA TwelveBits ==
    ASSUME NEW v \in Nat, v < 4087 \/ v = 268435455, NEW e \in Nat, NEW f \in Nat
    PROVE  LET odd  == ((((v % 16) * 16) + (e % 16)) + 256 * ((v \div 16) % 256)) \div 16
               even == ((v % 256) + 256 * (((v \div 256) % 16) + ((f \div 16) * 16))) % 4096
               raw  == IF v = 268435455 THEN 4095 ELSE v
           IN  odd = raw /\ even = raw
BY SMT

\* A FAT12 entry keeps the digit it has in a byte it shares.
LEMMA SharedDigits ==
    ASSUME NEW v \in Nat, NEW e \in Octet, NEW f \in Octet
    PROVE  /\ (e + 256 * (((v % 16) * 16) + (f % 16))) % 4096 = (e + 256 * f) % 4096
           /\ ((((v \div 256) % 16) + ((e \div 16) * 16)) + 256 * f) \div 16
                = (e + 256 * f) \div 16
BY SMT DEF Octet

\* A value reads back from its low bytes.
LEMMA WholeBytes ==
    ASSUME NEW v \in Nat
    PROVE  /\ (v < 65527 \/ v = 268435455) =>
                ByteOf(v, 0) + 256 * ByteOf(v, 1) = IF v = 268435455 THEN 65535 ELSE v
           /\ v <= 268435455 =>
                (ByteOf(v, 0) + 256 * ByteOf(v, 1))
                    + 65536 * (ByteOf(v, 2) + 256 * ByteOf(v, 3)) = v
<1>1. /\ ByteOf(v, 0) = v % 256 /\ ByteOf(v, 1) = (v \div 256) % 256
      /\ ByteOf(v, 2) = (v \div 65536) % 256
      /\ ByteOf(v, 3) = (v \div 16777216) % 256
  BY SMT DEF ByteOf
<1>2. (v < 65527 \/ v = 268435455) =>
        (v % 256) + 256 * ((v \div 256) % 256) = IF v = 268435455 THEN 65535 ELSE v
  BY SMT
<1>3. v <= 268435455 =>
        ((v % 256) + 256 * ((v \div 256) % 256))
            + 65536 * (((v \div 65536) % 256) + 256 * ((v \div 16777216) % 256)) = v
  BY SMT
<1> QED
  BY <1>1, <1>2, <1>3, SMT

\* Two FAT12 entries have no byte in common, unless the first cluster of the
\* two is even and the other the next.
LEMMA TwelvePlaces ==
    ASSUME NEW c \in Nat, NEW d \in Nat, c # d
    PROVE  LET s == (3 * c) \div 2
               r == (3 * d) \div 2
           IN  \/ s + 1 < r \/ r + 1 < s
               \/ c % 2 = 1 /\ d % 2 # 1 /\ r + 1 = s
               \/ c % 2 # 1 /\ d % 2 = 1 /\ s + 1 = r
BY SMT

\* The entry that was written reads as the value.
LEMMA WrittenEntryReads ==
    ASSUME NEW t \in Types, NEW b, BytesOK(t, b), NEW c \in Table!Cluster,
           NEW v, Writable(t, v)
    PROVE  NextCluster(t, WriteFatEntry(t, b, c, v), c) = v
<1>1. t \in {12, 16, 32} /\ c \in 0 .. PastEnd /\ c \in Nat /\ ~Refused(c)
  <2>1. t \in {12, 16, 32}
    BY EntryAssumption, SMT
  <2> QED
    BY <2>1, Constants DEF Refused
<1>2. v \in Nat /\ EOF = 268435455 /\ (v < EndsFrom(t) \/ v = 268435455)
  BY SMT DEF Writable, EOF, Table!CLUSTER_EOF
<1> DEFINE n == Start(t, c)
<1> DEFINE d == WriteFatEntry(t, b, c, v)
<1> DEFINE g(i) == Get(d, n + i)
<1>3. RawEntry(t, d, c) =
        IF t = 12 THEN (IF c % 2 = 1 THEN (g(0) + 256 * g(1)) \div 16
                        ELSE (g(0) + 256 * g(1)) % 4096)
        ELSE IF t = 16 THEN g(0) + 256 * g(1)
        ELSE (g(0) + 256 * g(1)) + 65536 * (g(2) + 256 * g(3))
  BY <1>1, RawIs, SMT
<1>4. n \in Nat /\ \A i \in 0 .. Width(t) - 1 : n + i \in 0 .. LastByte(t)
  BY <1>1, EntryBytes
<1>5. NextCluster(t, d, c) =
        IF RawEntry(t, d, c) >= EndsFrom(t) THEN EOF ELSE RawEntry(t, d, c)
  BY DEF NextCluster
<1>6. ASSUME t = 12
      PROVE  NextCluster(t, d, c) = v
  <2>1. d = Shared(t, b, c, v)
    BY <1>1, <1>6 DEF WriteFatEntry
  <2>2. g(0) = FirstByte(b, c, v) /\ g(1) = SecondByte(b, c, v)
    <3>1. n + 0 = n
      BY <1>4
    <3> QED
      BY <1>2, <1>6, <2>1, <3>1, SharedGets
  <2>3. Get(b, n) \in Nat /\ Get(b, n + 1) \in Nat
    <3>1. n \in 0 .. LastByte(t) /\ n + 1 \in 0 .. LastByte(t)
      <4>1. n + 0 \in 0 .. LastByte(t) /\ n + 1 \in 0 .. LastByte(t) /\ n + 0 = n
        BY <1>4, <1>6 DEF Width
      <4> QED
        BY <4>1
    <3> QED
      BY <3>1, GetsAreBytes DEF Octet
  <2>4. EndsFrom(t) = 4087
    BY <1>6, SMT DEF EndsFrom
  <2>5. v < 4087 \/ v = 268435455
    BY <1>2, <2>4
  <2>6. RawEntry(t, d, c) = IF v = 268435455 THEN 4095 ELSE v
    <3> DEFINE e == Get(b, n)
    <3> DEFINE f == Get(b, n + 1)
    <3>1. /\ ((((v % 16) * 16) + (e % 16)) + 256 * ((v \div 16) % 256)) \div 16
                = IF v = 268435455 THEN 4095 ELSE v
          /\ ((v % 256) + 256 * (((v \div 256) % 16) + ((f \div 16) * 16))) % 4096
                = IF v = 268435455 THEN 4095 ELSE v
      <4> HIDE DEF e, f
      <4>1. e \in Nat /\ f \in Nat
        BY <2>3 DEF e, f
      <4> QED
        BY <1>2, <2>5, <4>1, TwelveBits, SMT
    <3>2. CASE c % 2 = 1
      <4>1. g(0) = ((v % 16) * 16) + (e % 16) /\ g(1) = (v \div 16) % 256
        BY <1>6, <2>2, <3>2, SMT DEF FirstByte, SecondByte
      <4>2. RawEntry(t, d, c) = (g(0) + 256 * g(1)) \div 16
        BY <1>3, <1>6, <3>2, SMT
      <4> HIDE DEF e, f, g
      <4> QED
        BY <3>1, <4>1, <4>2, SMT
    <3>3. CASE c % 2 # 1
      <4>1. g(0) = v % 256 /\ g(1) = ((v \div 256) % 16) + ((f \div 16) * 16)
        BY <1>6, <2>2, <3>3, SMT DEF FirstByte, SecondByte
      <4>2. RawEntry(t, d, c) = (g(0) + 256 * g(1)) % 4096
        BY <1>3, <1>6, <3>3, SMT
      <4> HIDE DEF e, f, g
      <4> QED
        BY <3>1, <4>1, <4>2, SMT
    <3> QED
      BY <3>2, <3>3
  <2> HIDE DEF d
  <2> QED
    BY <1>2, <1>5, <2>4, <2>5, <2>6, SMT
<1>7. ASSUME t # 12
      PROVE  NextCluster(t, d, c) = v
  <2>1. d = Whole(t, b, c, v)
    BY <1>1, <1>7 DEF WriteFatEntry
  <2>2. \A i \in 0 .. Width(t) - 1 : g(i) = ByteOf(v, i)
    BY <1>2, <1>7, <2>1, WholeGets
  <2> HIDE DEF d, g
  <2>3. CASE t = 16
    <3>1. g(0) = ByteOf(v, 0) /\ g(1) = ByteOf(v, 1)
      BY <2>2, <2>3, SMT DEF Width
    <3>2. EndsFrom(t) = 65527
      BY <2>3, SMT DEF EndsFrom
    <3>3. RawEntry(t, d, c) = IF v = 268435455 THEN 65535 ELSE v
      BY <1>2, <1>3, <2>3, <3>1, <3>2, WholeBytes, SMT
    <3> QED
      BY <1>2, <1>5, <3>2, <3>3, SMT
  <2>4. CASE t = 32
    <3>1. /\ g(0) = ByteOf(v, 0) /\ g(1) = ByteOf(v, 1)
          /\ g(2) = ByteOf(v, 2) /\ g(3) = ByteOf(v, 3)
      BY <2>2, <2>4, SMT DEF Width
    <3>2. EndsFrom(t) = 268435447
      BY <2>4, SMT DEF EndsFrom
    <3>3. RawEntry(t, d, c) = v
      <4>1. v <= 268435455
        BY <1>2, <3>2, SMT
      <4> QED
        BY <1>2, <1>3, <2>4, <3>1, <4>1, WholeBytes, SMT
    <3> QED
      BY <1>2, <1>5, <3>2, <3>3, SMT
  <2> QED
    BY <1>1, <1>7, <2>3, <2>4
<1> QED
  BY <1>6, <1>7

\* Every other entry reads as before.
LEMMA OtherEntriesKeep ==
    ASSUME NEW t \in Types, NEW b, BytesOK(t, b), NEW c \in Table!Cluster,
           NEW v, Writable(t, v), NEW d \in 0 .. PastEnd, d # c
    PROVE  NextCluster(t, WriteFatEntry(t, b, c, v), d) = NextCluster(t, b, d)
<1> DEFINE s == Start(t, c)
<1> DEFINE r == Start(t, d)
<1> DEFINE a == WriteFatEntry(t, b, c, v)
<1>1. t \in {12, 16, 32} /\ c \in 0 .. PastEnd /\ c \in Nat /\ d \in Nat /\ ~Refused(c)
  <2>1. t \in {12, 16, 32}
    BY EntryAssumption, SMT
  <2> QED
    BY <2>1, Constants DEF Refused
<1>2. v \in Nat
  BY DEF Writable
<1>3. s \in Nat /\ r \in Nat /\ \A i \in 0 .. Width(t) - 1 : r + i \in 0 .. LastByte(t)
  BY <1>1, EntryBytes
<1>4. ASSUME t = 12
      PROVE  RawEntry(t, a, d) = RawEntry(t, b, d)
  <2>1. s = (3 * c) \div 2 /\ r = (3 * d) \div 2
    BY <1>4 DEF Start
  <2>2. \/ s + 1 < r \/ r + 1 < s
        \/ c % 2 = 1 /\ d % 2 # 1 /\ r + 1 = s
        \/ c % 2 # 1 /\ d % 2 = 1 /\ s + 1 = r
    BY <1>1, <2>1, TwelvePlaces
  <2>3. a = Shared(t, b, c, v)
    BY <1>1, <1>4 DEF WriteFatEntry
  <2>4. r \in 0 .. LastByte(t) /\ r + 1 \in 0 .. LastByte(t)
    <3>1. r + 0 \in 0 .. LastByte(t) /\ r + 1 \in 0 .. LastByte(t) /\ r + 0 = r
      <4> HIDE DEF r
      <4> QED BY <1>3, <1>4 DEF Width
    <3> QED
      BY <3>1
  <2> HIDE DEF s, r, a
  <2>5. /\ Get(a, s) = FirstByte(b, c, v) /\ Get(a, s + 1) = SecondByte(b, c, v)
        /\ \A m \in 0 .. LastByte(t) : (m # s /\ m # s + 1) => Get(a, m) = Get(b, m)
    BY <1>2, <1>4, <2>3, SharedGets DEF s
  <2>6. /\ RawEntry(t, a, d) = IF d % 2 = 1 THEN (Get(a, r) + 256 * Get(a, r + 1)) \div 16
                               ELSE (Get(a, r) + 256 * Get(a, r + 1)) % 4096
        /\ RawEntry(t, b, d) = IF d % 2 = 1 THEN (Get(b, r) + 256 * Get(b, r + 1)) \div 16
                               ELSE (Get(b, r) + 256 * Get(b, r + 1)) % 4096
    <3>1. r + 0 = r
      BY <1>3
    <3> QED
      BY <1>1, <1>4, <3>1, RawIs, SMT DEF r
  <2>7. Get(b, r) \in Octet /\ Get(b, r + 1) \in Octet
    BY <2>4, GetsAreBytes
  <2>8. CASE s + 1 < r \/ r + 1 < s
    <3>1. r # s /\ r # s + 1 /\ r + 1 # s /\ r + 1 # s + 1
      BY <1>3, <2>8
    <3>2. Get(a, r) = Get(b, r) /\ Get(a, r + 1) = Get(b, r + 1)
      BY <2>4, <2>5, <3>1
    <3> QED
      BY <2>6, <3>2, SMT
  <2>9. CASE c % 2 = 1 /\ d % 2 # 1 /\ r + 1 = s
    <3>1. r # s /\ r # s + 1
      BY <1>3, <2>9
    <3>2. Get(a, r) = Get(b, r)
      BY <2>4, <2>5, <3>1
    <3>3. Get(a, r + 1) = ((v % 16) * 16) + (Get(b, r + 1) % 16)
      BY <1>4, <2>5, <2>9 DEF FirstByte, s
    <3>4. (Get(a, r) + 256 * Get(a, r + 1)) % 4096 = (Get(b, r) + 256 * Get(b, r + 1)) % 4096
      BY <1>2, <2>7, <3>2, <3>3, SharedDigits, SMT
    <3> QED
      BY <2>6, <2>9, <3>4, SMT
  <2>10. CASE c % 2 # 1 /\ d % 2 = 1 /\ s + 1 = r
    <3>1. r + 1 # s /\ r + 1 # s + 1
      BY <1>3, <2>10
    <3>2. Get(a, r + 1) = Get(b, r + 1)
      BY <2>4, <2>5, <3>1
    <3>3. Get(a, r) = ((v \div 256) % 16) + ((Get(b, r) \div 16) * 16)
      BY <1>4, <2>5, <2>10 DEF SecondByte, s
    <3>4. (Get(a, r) + 256 * Get(a, r + 1)) \div 16 = (Get(b, r) + 256 * Get(b, r + 1)) \div 16
      BY <1>2, <2>7, <3>2, <3>3, SharedDigits, SMT
    <3> QED
      BY <2>6, <2>10, <3>4, SMT
  <2> QED
    BY <2>2, <2>8, <2>9, <2>10
<1>5. ASSUME t # 12
      PROVE  RawEntry(t, a, d) = RawEntry(t, b, d)
  <2>1. a = Whole(t, b, c, v)
    BY <1>1, <1>5 DEF WriteFatEntry
  <2>2. \A i \in 0 .. Width(t) - 1 : r + i \notin s .. s + Width(t) - 1
    BY <1>1, <1>5 DEF Start, Width
  <2> HIDE DEF s, r, a
  <2>3. \A m \in 0 .. LastByte(t) : m \notin s .. s + Width(t) - 1 => Get(a, m) = Get(b, m)
    BY <1>2, <1>5, <2>1, WholeGets DEF s
  <2>4. \A i \in 0 .. Width(t) - 1 : Get(a, r + i) = Get(b, r + i)
    BY <1>3, <2>2, <2>3
  <2>5. CASE t = 16
    <3>1. Get(a, r + 0) = Get(b, r + 0) /\ Get(a, r + 1) = Get(b, r + 1)
      BY <2>4, <2>5, SMT DEF Width
    <3> QED
      BY <1>1, <2>5, <3>1, RawIs, SMT DEF r
  <2>6. CASE t = 32
    <3>1. /\ Get(a, r + 0) = Get(b, r + 0) /\ Get(a, r + 1) = Get(b, r + 1)
          /\ Get(a, r + 2) = Get(b, r + 2) /\ Get(a, r + 3) = Get(b, r + 3)
      BY <2>4, <2>6, SMT DEF Width
    <3> QED
      BY <1>1, <2>6, <3>1, RawIs, SMT DEF r
  <2> QED
    BY <1>1, <1>5, <2>5, <2>6
<1>6. RawEntry(t, a, d) = RawEntry(t, b, d)
  BY <1>4, <1>5
<1> QED
  BY <1>6 DEF NextCluster

\* A write leaves bytes, and the sector behind the table as it was.
LEMMA WriteKeepsRest ==
    ASSUME NEW t \in Types, NEW b, BytesOK(t, b), NEW c, NEW v, Writable(t, v), c \in 0 .. PastEnd
    PROVE  /\ BytesOK(t, WriteFatEntry(t, b, c, v))
           /\ WriteFatEntry(t, b, c, v)[SectorBehind(t)] = b[SectorBehind(t)]
<1>1. v \in Nat
  BY DEF Writable
<1>2. CASE Refused(c)
  BY <1>2 DEF WriteFatEntry
<1>3. CASE ~Refused(c) /\ t = 12
  <2>1. c \in Table!Cluster
    BY <1>3, Constants DEF Refused
  <2> QED
    BY <1>1, <1>3, <2>1, SharedGets DEF WriteFatEntry
<1>4. CASE ~Refused(c) /\ t # 12
  <2>1. c \in Table!Cluster
    BY <1>4, Constants DEF Refused
  <2> QED
    BY <1>1, <1>4, <2>1, WholeGets DEF WriteFatEntry
<1> QED
  BY <1>2, <1>3, <1>4

\* The entries as a function: a write of one is a write of that function.
LEMMA WriteShows ==
    ASSUME NEW t \in Types, NEW b, BytesOK(t, b), NEW c \in 0 .. PastEnd,
           NEW v, Writable(t, v)
    PROVE  [d \in 0 .. PastEnd |-> NextCluster(t, WriteFatEntry(t, b, c, v), d)]
                = Table!WriteFatEntry([d \in 0 .. PastEnd |-> NextCluster(t, b, d)], c, v)
<1> DEFINE a == WriteFatEntry(t, b, c, v)
<1>1. CASE c \in Table!Cluster
  <2>1. \A d \in 0 .. PastEnd : NextCluster(t, a, d) = IF d = c THEN v ELSE NextCluster(t, b, d)
    BY <1>1, WrittenEntryReads, OtherEntriesKeep
  <2> HIDE DEF a
  <2>2. [d \in 0 .. PastEnd |-> NextCluster(t, a, d)]
            = [[d \in 0 .. PastEnd |-> NextCluster(t, b, d)] EXCEPT ![c] = v]
    BY <2>1
  <2> QED
    BY <1>1, <2>2 DEF a, Table!WriteFatEntry
<1>2. CASE c \notin Table!Cluster
  <2>1. a = b
    BY <1>2, Constants DEF WriteFatEntry, Refused
  <2> QED
    BY <1>2, <2>1 DEF Table!WriteFatEntry
<1> QED
  BY <1>1, <1>2

------------------------------------------------------------------------
(* The properties.                                                         *)

\* The bytes format writes at the beginning of the table.
LEMMA FirstBytesAre ==
    ASSUME NEW t \in Types
    PROVE  /\ Len(FirstBytes(t)) = IF t = 12 THEN 3 ELSE IF t = 16 THEN 4 ELSE 8
           /\ FirstBytes(t)[1] = 248 /\ FirstBytes(t)[2] = 255 /\ FirstBytes(t)[3] = 255
           /\ t # 12 => FirstBytes(t)[4] = IF t = 16 THEN 255 ELSE 15
           /\ t = 32 => /\ FirstBytes(t)[5] = 255 /\ FirstBytes(t)[6] = 255
                        /\ FirstBytes(t)[7] = 255 /\ FirstBytes(t)[8] = 15
<1>1. t \in {12, 16, 32}
  BY EntryAssumption, SMT
<1>2. CASE t = 12
  BY <1>2, SMT DEF FirstBytes
<1>3. CASE t = 16
  BY <1>3, SMT DEF FirstBytes
<1>4. CASE t = 32
  BY <1>4, SMT DEF FirstBytes
<1> QED
  BY <1>1, <1>2, <1>3, <1>4

\* The table format writes, byte by byte.
LEMMA InitFatBytes ==
    ASSUME NEW t \in Types
    PROVE  /\ BytesOK(t, InitFat(t))
           /\ InitFat(t)[SectorBehind(t)] = [o \in 0 .. SectorSize - 1 |-> 0]
           /\ \A n \in 0 .. LastByte(t) :
                Get(InitFat(t), n) =
                    IF n + 1 <= Len(FirstBytes(t)) THEN FirstBytes(t)[n + 1] ELSE 0
<1> DEFINE byte(i) == IF i <= Len(FirstBytes(t)) THEN FirstBytes(t)[i] ELSE 0
<1> DEFINE h == SectorBehind(t)
<1>1. t \in {12, 16, 32}
  BY EntryAssumption, SMT
<1>2. /\ h \in Nat /\ LastByte(t) \in Nat
      /\ \A n \in 0 .. LastByte(t) :
            At(n).sector \in 0 .. h - 1 /\ At(n).offset \in 0 .. SectorSize - 1
  BY TableBytes
<1> DEFINE len == Len(FirstBytes(t))
<1>3. len = IF t = 12 THEN 3 ELSE IF t = 16 THEN 4 ELSE 8
  BY FirstBytesAre
<1>4. TableSectors(t) \cup {h} = 0 .. h
  <2>1. NextByte(Place(t, PastEnd)).sector + 1 = h
    BY DEF SectorBehind
  <2>2. NextByte(Place(t, PastEnd)).sector \in Nat
    <3>1. NextByte(Place(t, PastEnd)) = At(Start(t, PastEnd) + 1) /\ Start(t, PastEnd) + 1 \in Nat
      <4>1. Place(t, PastEnd) = At(Start(t, PastEnd)) /\ Start(t, PastEnd) \in Nat
        BY Constants, PlaceIsAt
      <4> QED
        BY <4>1, AtNext
    <3> QED
      BY <3>1, AtParts
  <2> HIDE DEF h
  <2> QED
    BY <2>1, <2>2 DEF TableSectors
<1>5. \A i \in Nat : i >= 1 => byte(i) \in Octet
  <2> SUFFICES ASSUME NEW i \in Nat, i >= 1, i <= Len(FirstBytes(t))
               PROVE  FirstBytes(t)[i] \in Octet
    BY SMT DEF Octet
  <2>1. i \in {1, 2, 3} \/ (t # 12 /\ i = 4) \/ (t = 32 /\ i \in {5, 6, 7, 8})
    <3>1. i <= len
      OBVIOUS
    <3> HIDE DEF len
    <3> QED
      BY <1>1, <1>3, <3>1, SMT
  <2> QED
    BY <2>1, FirstBytesAre, SMT DEF Octet
<1>6. InitFat(t) = [q \in 0 .. h |-> [o \in 0 .. SectorSize - 1 |-> byte(q * SectorSize + o + 1)]]
  BY <1>4 DEF InitFat
<1>7. \A q \in 0 .. h, o \in 0 .. SectorSize - 1 :
          q * SectorSize + o + 1 \in Nat /\ q * SectorSize + o + 1 >= 1
  <2> HIDE DEF h
  <2> SUFFICES ASSUME NEW q \in 0 .. h, NEW o \in 0 .. SectorSize - 1
               PROVE  q * SectorSize + o + 1 \in Nat /\ q * SectorSize + o + 1 >= 1
    OBVIOUS
  <2>1. q * SectorSize \in Nat /\ o \in Nat
    BY <1>2, Constants
  <2> QED
    BY <2>1
<1>8. BytesOK(t, InitFat(t))
  <2> HIDE DEF byte, h
  <2>1. \A q \in 0 .. h, o \in 0 .. SectorSize - 1 : byte(q * SectorSize + o + 1) \in Octet
    BY <1>5, <1>7
  <2>2. \A q \in 0 .. h : [o \in 0 .. SectorSize - 1 |-> byte(q * SectorSize + o + 1)]
                            \in [0 .. SectorSize - 1 -> Octet]
    BY <2>1
  <2>3. InitFat(t) \in [0 .. h -> [0 .. SectorSize - 1 -> Octet]]
    BY <1>6, <2>2
  <2> QED
    BY <2>3 DEF BytesOK, h
<1>9. ASSUME NEW n \in 0 .. LastByte(t)
      PROVE  Get(InitFat(t), n) = byte(n + 1)
  <2> DEFINE q == At(n).sector
  <2> DEFINE o == At(n).offset
  <2>1. /\ q \in 0 .. h /\ o \in 0 .. SectorSize - 1
        /\ n = SectorSize * q + o /\ q \in Nat
    BY <1>2, AtParts
  <2>2. Get(InitFat(t), n) = InitFat(t)[q][o]
    BY DEF Get, Byte
  <2> HIDE DEF q, o, h, byte
  <2>3. q * SectorSize + o + 1 = n + 1
    BY <2>1, Constants
  <2>4. InitFat(t)[q][o] = byte(q * SectorSize + o + 1)
    BY <1>6, <2>1
  <2> QED
    BY <2>2, <2>3, <2>4
<1>10. InitFat(t)[h] = [o \in 0 .. SectorSize - 1 |-> 0]
  <2>1. h \in 0 .. h
    BY <1>2
  <2>2. Len(FirstBytes(t)) <= LastByte(t) + 1
    <3>1. Start(t, PastEnd) >= IF t = 12 THEN 4 ELSE IF t = 16 THEN 6 ELSE 12
      BY <1>1, Constants, SMT DEF Start
    <3>2. Start(t, PastEnd) \in Nat
      BY Constants, PlaceIsAt
    <3>3. len <= LastByte(t) + 1
      <4> HIDE DEF len
      <4> QED
        BY <1>1, <1>3, <3>1, <3>2, SMT DEF LastByte, Width
    <3> QED
      BY <3>3
  <2>3. LastByte(t) < SectorSize * h
    <3> DEFINE q == At(LastByte(t)).sector
    <3> DEFINE o == At(LastByte(t)).offset
    <3>1. /\ q \in 0 .. h - 1 /\ q \in Nat
          /\ LastByte(t) = SectorSize * q + o
          /\ o \in 0 .. SectorSize - 1
      BY <1>2, AtParts
    <3> HIDE DEF q, o, h
    <3>2. SectorSize * (q + 1) <= SectorSize * h
      BY <1>2, <3>1, Constants
    <3>3. SectorSize * (q + 1) = SectorSize * q + SectorSize
      BY <1>2, <3>1, Constants
    <3>4. SectorSize * q \in Nat /\ SectorSize * h \in Nat
      BY <1>2, <3>1, Constants
    <3>5. o \in Nat /\ o < SectorSize
      BY <3>1, Constants
    <3>6. SectorSize * q + SectorSize <= SectorSize * h
      BY <3>2, <3>3
    <3> QED
      BY <3>1, <3>4, <3>5, <3>6, Constants
  <2> HIDE DEF h
  <2>4. \A o \in 0 .. SectorSize - 1 : ~(h * SectorSize + o + 1 <= Len(FirstBytes(t)))
    <3>1. SectorSize * h \in Nat /\ h * SectorSize = SectorSize * h
      BY <1>2, Constants
    <3>2. Len(FirstBytes(t)) \in Nat
      BY FirstBytesAre
    <3> QED
      BY <1>2, <2>2, <2>3, <3>1, <3>2, Constants
  <2>5. \A o \in 0 .. SectorSize - 1 : byte(h * SectorSize + o + 1) = 0
    BY <2>4
  <2> HIDE DEF byte
  <2> QED
    BY <1>6, <2>1, <2>5
<1> QED
  BY <1>8, <1>9, <1>10

\* The entries of the table that format writes.
LEMMA InitialEntries ==
    ASSUME NEW t \in Types
    PROVE  /\ NextCluster(t, InitFat(t), 0) = EOF /\ NextCluster(t, InitFat(t), 1) = EOF
           /\ NextCluster(t, InitFat(t), PastEnd) = FREE
<1> DEFINE b == InitFat(t)
<1> DEFINE g(n) == Get(b, n)
<1>1. t \in {12, 16, 32}
  BY EntryAssumption, SMT
<1>2. LastByte(t) \in Nat /\ \A c \in 0 .. PastEnd : Start(t, c) + Width(t) - 1 <= LastByte(t)
  BY TableBytes
<1>3. Start(t, PastEnd) \in Nat
      /\ Start(t, PastEnd) >= IF t = 12 THEN 4 ELSE IF t = 16 THEN 6 ELSE 12
  BY <1>1, Constants, SMT DEF Start
<1>4. \A n \in 0 .. LastByte(t) :
        g(n) = IF n + 1 <= Len(FirstBytes(t)) THEN FirstBytes(t)[n + 1] ELSE 0
  BY InitFatBytes
<1> HIDE DEF b, g
<1>5. /\ g(0) = 248 /\ g(1) = 255 /\ g(2) = 255
      /\ t # 12 => g(3) = IF t = 16 THEN 255 ELSE 15
      /\ t = 32 => g(4) = 255 /\ g(5) = 255 /\ g(6) = 255 /\ g(7) = 15
  <2>1. LastByte(t) >= IF t = 12 THEN 5 ELSE IF t = 16 THEN 7 ELSE 15
    BY <1>1, <1>2, <1>3, SMT DEF LastByte, Width
  <2>2. g(0) = 248 /\ g(1) = 255 /\ g(2) = 255
    <3>1. 0 \in 0 .. LastByte(t) /\ 1 \in 0 .. LastByte(t) /\ 2 \in 0 .. LastByte(t)
      BY <1>2, <2>1, SMT
    <3> QED
      BY <1>4, <3>1, FirstBytesAre, SMT
  <2>3. t # 12 => g(3) = IF t = 16 THEN 255 ELSE 15
    <3>1. 3 \in 0 .. LastByte(t)
      BY <1>2, <2>1, SMT
    <3> QED
      BY <1>1, <1>4, <3>1, FirstBytesAre, SMT
  <2>4. t = 32 => g(4) = 255 /\ g(5) = 255 /\ g(6) = 255 /\ g(7) = 15
    <3>1. t = 32 => \A n \in {4, 5, 6, 7} : n \in 0 .. LastByte(t)
      BY <1>2, <2>1, SMT
    <3> QED
      BY <1>4, <3>1, FirstBytesAre, SMT
  <2> QED
    BY <2>2, <2>3, <2>4
<1>6. \A i \in 0 .. Width(t) - 1 : g(Start(t, PastEnd) + i) = 0
  <2> SUFFICES ASSUME NEW i \in 0 .. Width(t) - 1
               PROVE  g(Start(t, PastEnd) + i) = 0
    OBVIOUS
  <2>1. Start(t, PastEnd) + i \in 0 .. LastByte(t)
    BY <1>1, <1>2, <1>3, SMT DEF LastByte, Width
  <2>2. ~(Start(t, PastEnd) + i + 1 <= Len(FirstBytes(t)))
    <3> DEFINE len == Len(FirstBytes(t))
    <3>1. len = IF t = 12 THEN 3 ELSE IF t = 16 THEN 4 ELSE 8
      BY FirstBytesAre
    <3>2. i \in Nat
      BY <1>1, SMT DEF Width
    <3> HIDE DEF len
    <3>3. ~(Start(t, PastEnd) + i + 1 <= len)
      BY <1>1, <1>3, <3>1, <3>2, SMT
    <3> QED
      BY <3>3 DEF len
  <2> QED
    BY <1>4, <2>1, <2>2
<1>7. EOF = 268435455 /\ FREE = 0
  BY SMT DEF EOF, FREE, Table!CLUSTER_EOF, Table!CLUSTER_FREE
<1>8. CASE t = 12
  <2>1. Start(t, 0) = 0 /\ Start(t, 1) = 1 /\ EndsFrom(t) = 4087
    BY <1>8, SMT DEF Start, EndsFrom
  <2>2. RawEntry(t, b, 0) = (g(0) + 256 * g(1)) % 4096
    BY <1>8, <2>1, RawIs, SMT DEF g
  <2>3. RawEntry(t, b, 1) = (g(1) + 256 * g(2)) \div 16
    BY <1>8, <2>1, RawIs, SMT DEF g
  <2>4. RawEntry(t, b, PastEnd) = 0
    <3>1. g(Start(t, PastEnd) + 0) = 0 /\ g(Start(t, PastEnd) + 1) = 0
      BY <1>6, <1>8, SMT DEF Width
    <3> QED
      BY <1>8, <3>1, Constants, RawIs, SMT DEF g
  <2> QED
    BY <1>5, <1>7, <2>1, <2>2, <2>3, <2>4, SMT DEF NextCluster, b
<1>9. CASE t = 16
  <2>1. Start(t, 0) = 0 /\ Start(t, 1) = 2 /\ EndsFrom(t) = 65527
    BY <1>9, SMT DEF Start, EndsFrom
  <2>2. RawEntry(t, b, 0) = g(0) + 256 * g(1)
    BY <1>9, <2>1, RawIs, SMT DEF g
  <2>3. RawEntry(t, b, 1) = g(2) + 256 * g(3)
    BY <1>9, <2>1, RawIs, SMT DEF g
  <2>4. RawEntry(t, b, PastEnd) = 0
    <3>1. g(Start(t, PastEnd) + 0) = 0 /\ g(Start(t, PastEnd) + 1) = 0
      BY <1>6, <1>9, SMT DEF Width
    <3> QED
      BY <1>9, <3>1, Constants, RawIs, SMT DEF g
  <2> QED
    BY <1>5, <1>7, <1>9, <2>1, <2>2, <2>3, <2>4, SMT DEF NextCluster, b
<1>10. CASE t = 32
  <2>1. Start(t, 0) = 0 /\ Start(t, 1) = 4 /\ EndsFrom(t) = 268435447
    BY <1>10, SMT DEF Start, EndsFrom
  <2>2. RawEntry(t, b, 0) = (g(0) + 256 * g(1)) + 65536 * (g(2) + 256 * g(3))
    BY <1>10, <2>1, RawIs, SMT DEF g
  <2>3. RawEntry(t, b, 1) = (g(4) + 256 * g(5)) + 65536 * (g(6) + 256 * g(7))
    BY <1>10, <2>1, RawIs, SMT DEF g
  <2>4. RawEntry(t, b, PastEnd) = 0
    <3>1. /\ g(Start(t, PastEnd) + 0) = 0 /\ g(Start(t, PastEnd) + 1) = 0
          /\ g(Start(t, PastEnd) + 2) = 0 /\ g(Start(t, PastEnd) + 3) = 0
      BY <1>6, <1>10, SMT DEF Width
    <3> QED
      BY <1>10, <3>1, Constants, RawIs, SMT DEF g
  <2> QED
    BY <1>5, <1>7, <1>10, <2>1, <2>2, <2>3, <2>4, SMT DEF NextCluster, b
<1> QED
  BY <1>1, <1>8, <1>9, <1>10

LEMMA ValuesAreWritable ==
    ASSUME type \in Types, NEW v \in Values
    PROVE  Writable(type, v)
<1>1. type \in {12, 16, 32}
  BY EntryAssumption, SMT
<1>2. FREE = 0 /\ EOF = 268435455
  BY SMT DEF EOF, FREE, Table!CLUSTER_EOF, Table!CLUSTER_FREE
<1>3. CASE v \in Links /\ v < EndsFrom(type)
  <2>1. v \in Nat
    BY <1>3, EntryAssumption
  <2> QED
    BY <1>3, <2>1 DEF Writable
<1>4. CASE v = FREE \/ v = EOF
  BY <1>1, <1>2, <1>4, SMT DEF Writable, EndsFrom
<1> QED
  BY <1>3, <1>4 DEF Values

LEMMA InitEstablishes == Init => IInv
<1> SUFFICES ASSUME Init PROVE IInv
  OBVIOUS
<1>1. type \in Types /\ bytes = InitFat(type)
  BY DEF Init
<1>2. BytesOK(type, InitFat(type))
      /\ InitFat(type)[SectorBehind(type)] = [o \in 0 .. SectorSize - 1 |-> 0]
  BY <1>1, InitFatBytes
<1>3. /\ NextCluster(type, InitFat(type), 0) = EOF /\ NextCluster(type, InitFat(type), 1) = EOF
      /\ NextCluster(type, InitFat(type), PastEnd) = FREE
  BY <1>1, InitialEntries
<1> QED
  BY <1>1, <1>2, <1>3 DEF IInv, NothingElseIsWritten

\* A call of writeFatEntry changes what is shown as a write of a function does
\* and leaves what is not an entry alone.
LEMMA WriteStep ==
    ASSUME IInv, NEW c \in 0 .. PastEnd, NEW v \in Values, Write(c, v)
    PROVE  IInv' /\ Shown' = Table!WriteFatEntry(Shown, wrote'[1], wrote'[2])
<1>1. /\ type \in Types /\ type' = type /\ BytesOK(type, bytes)
      /\ bytes' = WriteFatEntry(type, bytes, c, v)
      /\ wrote' = <<c, v>>
  BY DEF IInv, Write
<1>2. Writable(type, v)
  BY <1>1, ValuesAreWritable
<1>3. BytesOK(type, bytes') /\ bytes'[SectorBehind(type)] = bytes[SectorBehind(type)]
  BY <1>1, <1>2, WriteKeepsRest
<1>4. \A d \in {0, 1, PastEnd} : NextCluster(type, bytes', d) = NextCluster(type, bytes, d)
  <2>1. CASE c \in Table!Cluster
    <3>1. \A d \in {0, 1, PastEnd} : d \in 0 .. PastEnd /\ d # c
      BY <2>1, Constants
    <3> QED
      BY <1>1, <1>2, <2>1, <3>1, OtherEntriesKeep
  <2>2. CASE c \notin Table!Cluster
    <3>1. bytes' = bytes
      BY <1>1, <2>2, Constants DEF WriteFatEntry, Refused
    <3> QED
      BY <3>1
  <2> QED
    BY <2>1, <2>2
<1>5. IInv'
  BY <1>1, <1>3, <1>4 DEF IInv, NothingElseIsWritten, SectorBehind
<1>6. Shown' = [d \in 0 .. PastEnd |-> NextCluster(type, WriteFatEntry(type, bytes, c, v), d)]
  BY <1>1 DEF Shown
<1>7. Shown' = Table!WriteFatEntry(Shown, c, v)
  BY <1>1, <1>2, <1>6, WriteShows DEF Shown
<1> QED
  BY <1>1, <1>5, <1>7

LEMMA StepKeeps == IInv /\ [Next]_entryVars => IInv'
<1> SUFFICES ASSUME IInv, [Next]_entryVars PROVE IInv'
  OBVIOUS
<1>1. CASE Next
  BY <1>1, WriteStep DEF Next
<1>2. CASE UNCHANGED entryVars
  BY <1>2 DEF entryVars, IInv, BytesOK, NothingElseIsWritten, SectorBehind
<1> QED
  BY <1>1, <1>2

\* The sectors of the table hold bytes, and writeFatEntry touches neither the
\* sector behind them nor the first two entries nor the one past the last.
THEOREM EntriesInvariant == Spec => []IInv
<1>1. Init => IInv
  BY InitEstablishes
<1>2. IInv /\ [Next]_entryVars => IInv'
  BY StepKeeps
<1> QED
  BY <1>1, <1>2, PTL DEF Spec

\* NothingElseIsWritten: no write reaches the sector behind the table, the end
\* marks of the first two entries or the entry past the last cluster, for every
\* type, block size and number of clusters.
THEOREM TableKeepsToItself == Spec => []NothingElseIsWritten
<1>1. IInv => NothingElseIsWritten
  BY DEF IInv
<1> QED
  BY <1>1, EntriesInvariant, PTL

\* The bytes of the table are a function from clusters to values: a call of
\* writeFatEntry changes the one it names, whatever bytes it shares.
THEOREM BytesAreATable == Spec => EntriesAreIndependent
<1>1. IInv /\ [Next]_entryVars
        => [Shown' = Table!WriteFatEntry(Shown, wrote'[1], wrote'[2])]_entryVars
  <2> SUFFICES ASSUME IInv, Next
               PROVE  Shown' = Table!WriteFatEntry(Shown, wrote'[1], wrote'[2])
    OBVIOUS
  <2> QED
    BY WriteStep DEF Next
<1> QED
  BY <1>1, EntriesInvariant, PTL DEF Spec, EntriesAreIndependent

------------------------------------------------------------------------
(* Names.                                                                  *)

\* The characters of names; that the two are strings the provers do not know.
Character == STRING \cup {DOT, SPACE}

\* An entry of the directory is what AddEntry makes of a name.
Entry == {Named(Trimmed(n), Unnamed(n, d)) : n \in Names, d \in BOOLEAN}

\* No plain name was added a second time.
PlainNamesDiffer(d) ==
    \A i, j \in 1 .. Places :
        /\ i # j /\ d[i] # NoEntry /\ d[j] # NoEntry
        /\ Plain(d[i].given) /\ Plain(d[j].given)
        => d[i].given # d[j].given

\* No long name was.
LongNamesDiffer(d) ==
    \A i, j \in 1 .. Places : i # j /\ d[i].long # <<>> => d[i].long # d[j].long

Sound(d) ==
    /\ d \in [1 .. Places -> Entry \cup {NoEntry}]
    /\ PlainNamesDiffer(d)
    /\ LongNamesDiffer(d)

\* The inductive invariant.
NamesInv == Sound(dir)

------------------------------------------------------------------------
(* The ends of a set of numbers.                                           *)

\* A non-empty set of natural numbers has a least element.
LEMMA MinIsLeast ==
    ASSUME NEW S \in SUBSET Nat, S # {}
    PROVE  Min(S) \in S /\ \A n \in S : Min(S) <= n
<1> DEFINE R == OpToRel(<, Nat)
<1>1. IsWellFoundedOn(R, Nat)
  BY NatLessThanWellFounded
<1>2. PICK n \in S : \A m \in S : <<m, n>> \notin R
  <2> HIDE DEF R
  <2> QED BY <1>1, WFMin
<1>3. ASSUME NEW m \in S, m < n
      PROVE  FALSE
  <2>1. <<m, n>> \in Nat \X Nat /\ <<m, n>>[1] < <<m, n>>[2]
    BY <1>3
  <2>2. <<m, n>> \in R
    BY <2>1 DEF OpToRel
  <2> QED
    BY <2>2, <1>2
<1>4. \A m \in S : n <= m
  BY <1>3
<1> QED
  BY <1>4 DEF Min

\* What is no greater than the others is the least.
LEMMA MinIs ==
    ASSUME NEW S \in SUBSET Int, NEW n \in S, \A m \in S : n <= m
    PROVE  Min(S) = n
<1>1. Min(S) \in S /\ \A m \in S : Min(S) <= m
  BY DEF Min
<1>2. Min(S) <= n /\ n <= Min(S) /\ Min(S) \in Int /\ n \in Int
  BY <1>1
<1> QED
  BY <1>2

\* What is no less than the others is the greatest.
LEMMA MaxIs ==
    ASSUME NEW S \in SUBSET Int, NEW n \in S, \A m \in S : n >= m
    PROVE  Max(S) = n
<1>1. Max(S) \in S /\ \A m \in S : Max(S) >= m
  BY DEF Max
<1>2. Max(S) >= n /\ n >= Max(S) /\ Max(S) \in Int /\ n \in Int
  BY <1>1
<1> QED
  BY <1>2

------------------------------------------------------------------------
(* Trimming.                                                               *)

\* A name without spaces at its ends is left alone.
LEMMA PlainStays ==
    ASSUME NEW n \in Seq(Character), n # <<>>, n[1] # SPACE, n[Len(n)] # SPACE
    PROVE  Trimmed(n) = n
<1>1. Len(n) \in Nat /\ Len(n) >= 1 /\ DOMAIN n = 1 .. Len(n)
  OBVIOUS
<1>2. WithoutTrailing(n) = n
  <2> DEFINE kept == {i \in DOMAIN n : n[i] # SPACE \/ i = 1}
  <2>1. kept \in SUBSET Int /\ Len(n) \in kept /\ \A m \in kept : Len(n) >= m
    BY <1>1
  <2>2. Max(kept) = Len(n)
    <3> HIDE DEF kept
    <3> QED BY <2>1, MaxIs
  <2>3. SubSeq(n, 1, Len(n)) = n
    BY <1>1
  <2> QED
    BY <2>2, <2>3 DEF WithoutTrailing
<1>3. WithoutLeading(n) = n
  <2> DEFINE kept == {i \in DOMAIN n : n[i] # SPACE} \cup {Len(n) + 1}
  <2>1. kept \in SUBSET Int /\ 1 \in kept /\ \A m \in kept : 1 <= m
    BY <1>1
  <2>2. Min(kept) = 1
    <3> HIDE DEF kept
    <3> QED BY <2>1, MinIs
  <2>3. Min(kept) - 1 = 0
    <3> HIDE DEF kept
    <3> QED BY <2>2
  <2>4. WithoutLeading(n) = [i \in DOMAIN n |-> IF i + 0 <= Len(n) THEN n[i + 0] ELSE n[i]]
    BY <2>3, Zenon DEF WithoutLeading
  <2>5. \A i \in DOMAIN n : i + 0 = i
    BY <1>1
  <2>6. [i \in DOMAIN n |-> IF i + 0 <= Len(n) THEN n[i + 0] ELSE n[i]] = [i \in DOMAIN n |-> n[i]]
    BY <2>5
  <2> QED
    BY <2>4, <2>6
<1> QED
  BY <1>2, <1>3 DEF Trimmed

------------------------------------------------------------------------
(* Fields.                                                                 *)

LEMMA Lengths ==
    /\ BaseLength \in Nat /\ BaseLength >= 2
    /\ ExtLength \in Nat /\ ExtLength >= 1
    /\ Places \in Nat /\ Places >= 1
BY NamesAssumption

LEMMA ANameIsASequence ==
    ASSUME NEW n \in Names
    PROVE  n \in Seq(Character) /\ n # <<>> /\ n # <<DOT>>
<1>1. n \in Seq(STRING) /\ n # <<>> /\ n # <<DOT>>
  BY NamesAssumption
<1>2. n \in Seq(Character)
  BY <1>1 DEF Character
<1> QED
  BY <1>1, <1>2

\* A field is as long as it is, whatever is put into it.
LEMMA FieldIs ==
    ASSUME NEW s \in Seq(Character), NEW length \in Nat
    PROVE  /\ Field(s, length) \in Seq(Character)
           /\ Len(Field(s, length)) = length
           /\ \A i \in 1 .. length :
                Field(s, length)[i] = IF i <= Len(s) THEN s[i] ELSE SPACE
<1>1. \A i \in 1 .. length : i \in Nat /\ i >= 1
  OBVIOUS
<1>2. SPACE \in Character
  BY DEF Character
<1>3. \A i \in 1 .. length : i <= Len(s) => s[i] \in Character
  BY <1>1
<1>4. Field(s, length) \in [1 .. length -> Character]
  BY <1>2, <1>3 DEF Field
<1> QED
  BY <1>4 DEF Field

\* What has no space in it and fits into a field is read back from it.
LEMMA FieldReadsBack ==
    ASSUME NEW s \in Seq(Character), NEW length \in Nat, Len(s) <= length,
           \A i \in 1 .. Len(s) : s[i] # SPACE
    PROVE  UpToSpace(Field(s, length)) = s
<1> DEFINE f == Field(s, length)
           ends == {i \in DOMAIN f : f[i] = SPACE} \cup {Len(f) + 1}
<1>1. /\ f \in Seq(Character) /\ Len(f) = length /\ DOMAIN f = 1 .. length
      /\ \A i \in 1 .. length : f[i] = IF i <= Len(s) THEN s[i] ELSE SPACE
  BY FieldIs
<1>2. Len(s) \in Nat
  OBVIOUS
<1> HIDE DEF f
<1>3. ends \in SUBSET Int
  BY <1>1
<1>4. Len(s) + 1 \in ends
  <2>1. CASE Len(s) = length
    BY <2>1, <1>1
  <2>2. CASE Len(s) < length
    BY <2>2, <1>1, <1>2
  <2> QED
    BY <2>1, <2>2, <1>2
<1>5. \A m \in ends : Len(s) + 1 <= m
  BY <1>1, <1>2
<1>6. Min(ends) = Len(s) + 1
  <2> HIDE DEF ends
  <2> QED BY <1>2, <1>3, <1>4, <1>5, MinIs
<1>7. UpToSpace(f) = SubSeq(f, 1, Len(s))
  <2>1. UpToSpace(f) = SubSeq(f, 1, Min(ends) - 1)
    BY DEF UpToSpace
  <2>2. Min(ends) - 1 = Len(s)
    <3> HIDE DEF ends
    <3> QED BY <1>6, <1>2
  <2> HIDE DEF ends
  <2> QED
    BY <2>1, <2>2
<1>8. SubSeq(f, 1, Len(s)) = s
  BY <1>1, <1>2
<1> QED
  BY <1>7, <1>8 DEF f

\* A field that nothing is put into begins with a space.
LEMMA EmptyField ==
    ASSUME NEW length \in Nat, length >= 1
    PROVE  Field(<<>>, length)[1] = SPACE
<1> DEFINE s == <<>>
<1>1. s \in Seq(Character) /\ Len(s) = 0
  OBVIOUS
<1>2. 1 \in 1 .. length /\ ~(1 <= 0)
  OBVIOUS
<1> HIDE DEF s
<1>3. Field(s, length)[1] = IF 1 <= Len(s) THEN s[1] ELSE SPACE
  BY <1>1, <1>2, FieldIs
<1>4. Field(s, length)[1] = SPACE
  BY <1>1, <1>2, <1>3
<1> QED
  BY <1>4 DEF s

------------------------------------------------------------------------
(* Entries.                                                                *)

\* The members of the entry that is made of the name n, called t when it has
\* been trimmed.
Cut(t) == Min({i - 1 : i \in Dots(t)} \cup {Len(t), BaseLength})

EntryOf(t, n, d) == Named(t, Unnamed(n, d))

LEMMA NamedIs ==
    ASSUME NEW n, NEW d, NEW t, NEW e, e = EntryOf(t, n, d)
    PROVE  /\ e.given = n
           /\ e.long = IF t \in {<<DOT>>, <<DOT, DOT>>} \/ IsValidAlias(t) THEN <<>> ELSE t
           /\ t \in {<<DOT>>, <<DOT, DOT>>} =>
                e.base = Field(t, BaseLength) /\ e.ext = Field(<<>>, ExtLength)
           /\ t \notin {<<DOT>>, <<DOT, DOT>>} /\ IsValidAlias(t) =>
                /\ e.base = Field(SubSeq(t, 1, Cut(t)), BaseLength)
                /\ e.ext = Field(Extension(t, Cut(t)), ExtLength)
<1> DEFINE u == [given |-> n, isDir |-> d, long |-> <<>>, base |-> <<>>, ext |-> <<>>]
<1>0. e = Named(t, Unnamed(n, d))
  BY DEF EntryOf
<1>1. Unnamed(n, d) = u
  <2>1. NoEntry = [given |-> <<>>, isDir |-> FALSE, long |-> <<>>, base |-> <<>>, ext |-> <<>>]
    BY DEF NoEntry
  <2>2. Unnamed(n, d) = [NoEntry EXCEPT !.given = n, !.isDir = d]
    BY DEF Unnamed
  <2> QED
    BY <2>1, <2>2
<1>2. CASE t \in {<<DOT>>, <<DOT, DOT>>}
  <2>1. Named(t, u) = DotFields(t, u)
    BY <1>2 DEF Named
  <2>2. DotFields(t, u) = [u EXCEPT !.base = Field(t, BaseLength), !.ext = Field(<<>>, ExtLength)]
    BY DEF DotFields
  <2> QED
    BY <1>0, <1>1, <1>2, <2>1, <2>2
<1>3. CASE t \notin {<<DOT>>, <<DOT, DOT>>} /\ IsValidAlias(t)
  <2>1. Named(t, u) = ShortFields(t, u)
    BY <1>3 DEF Named
  <2>2. ShortFields(t, u) =
          [u EXCEPT !.base = Field(SubSeq(t, 1, Cut(t)), BaseLength),
                    !.ext = Field(Extension(t, Cut(t)), ExtLength)]
    BY DEF ShortFields, Cut
  <2> QED
    BY <1>0, <1>1, <1>3, <2>1, <2>2
<1>4. CASE t \notin {<<DOT>>, <<DOT, DOT>>} /\ ~IsValidAlias(t)
  <2>1. Named(t, u) = [u EXCEPT !.long = t]
    BY <1>4 DEF Named
  <2> QED
    BY <1>0, <1>1, <1>4, <2>1
<1> QED
  BY <1>2, <1>3, <1>4

LEMMA DotIsNoSpace == DOT # SPACE
BY DEF DOT, SPACE

\* The dot that begins the extension of a plain short name is where the base is
\* cut off; without one the whole name is the base.
LEMMA CutOfPlain ==
    ASSUME NEW n \in Seq(Character), n # <<>>, Plain(n), IsValidAlias(n)
    PROVE  IF Dots(n) = {}
           THEN Cut(n) = Len(n) /\ Len(n) <= BaseLength
           ELSE /\ Cut(n) \in 1 .. BaseLength /\ Cut(n) + 1 <= Len(n)
                /\ n[Cut(n) + 1] = DOT /\ n[1] # DOT
                /\ Len(n) - Cut(n) - 1 \in 1 .. ExtLength
<1> DEFINE S == {i - 1 : i \in Dots(n)} \cup {Len(n), BaseLength}
           p == Min(Dots(n))
<1>0. Cut(n) = Min(S)
  BY DEF Cut
<1>1. Len(n) \in Nat /\ BaseLength \in Nat /\ DOMAIN n = 1 .. Len(n)
  BY Lengths
<1>2. Dots(n) \in SUBSET Nat /\ \A i \in Dots(n) : i \in 1 .. Len(n) /\ n[i] = DOT
  BY <1>1 DEF Dots
<1>3. S \in SUBSET Int
  BY <1>1, <1>2
<1>4. CASE Dots(n) = {}
  <2>1. Len(n) <= BaseLength
    BY <1>4, <1>1 DEF IsValidAlias
  <2>2. Len(n) \in S /\ \A m \in S : Len(n) <= m
    BY <2>1, <1>4, <1>1
  <2>3. Min(S) = Len(n)
    <3> HIDE DEF S
    <3> QED BY <1>3, <2>2, MinIs
  <2> HIDE DEF S
  <2> QED
    BY <1>0, <1>4, <2>1, <2>3
<1>5. CASE Dots(n) # {}
  <2>1. p \in Dots(n) /\ \A m \in Dots(n) : p <= m
    BY <1>2, <1>5, MinIsLeast
  <2>2. p - 1 - 1 \in 1 .. BaseLength /\ Len(n) - (p - 1) - 1 \in 1 .. ExtLength
    BY <1>5 DEF IsValidAlias
  <2>3. p <= BaseLength + 1
    <3>1. \A i \in Dots(n) : i <= BaseLength + 1
      BY DEF Plain
    <3> QED BY <3>1, <2>1
  <2> HIDE DEF p
  <2>4. p \in Nat /\ p <= Len(n) /\ n[p] = DOT
    BY <2>1, <1>2
  <2>5. n[1] # DOT
    <3>1. SUFFICES ASSUME n[1] = DOT
                   PROVE  FALSE
      OBVIOUS
    <3>2. 1 \in Dots(n)
      BY <3>1, <1>1, <2>4, <2>2 DEF Dots
    <3> QED
      BY <3>2, <2>1, <2>2, <2>4, <1>1
  <2>6. p - 1 \in S /\ \A m \in S : p - 1 <= m
    BY <2>1, <2>3, <2>4, <1>1, <1>2
  <2>7. Min(S) = p - 1
    <3> HIDE DEF S
    <3> QED BY <1>3, <2>6, MinIs
  <2>8. /\ p - 1 \in 1 .. BaseLength /\ p - 1 + 1 <= Len(n) /\ p - 1 + 1 = p
        /\ Len(n) - (p - 1) - 1 \in 1 .. ExtLength
    BY <2>2, <2>3, <2>4, <1>1
  <2>9. n[p - 1 + 1] = DOT
    BY <2>8, <2>4
  <2> HIDE DEF S
  <2> QED
    BY <1>0, <1>5, <2>5, <2>7, <2>8, <2>9
<1> QED
  BY <1>4, <1>5

\* The entry of a plain name is listed under that name.
LEMMA PlainComesBack ==
    ASSUME NEW n \in Seq(Character), n # <<>>, n # <<DOT>>, Plain(n),
           NEW m, NEW d, NEW e, e = EntryOf(n, m, d)
    PROVE  (e.long # <<>> \/ e.base[1] # SPACE) /\ Filename(e) = n
<1> DEFINE cut == Cut(n)
<1>0. /\ e.long = IF n \in {<<DOT>>, <<DOT, DOT>>} \/ IsValidAlias(n) THEN <<>> ELSE n
      /\ n \in {<<DOT>>, <<DOT, DOT>>} =>
           e.base = Field(n, BaseLength) /\ e.ext = Field(<<>>, ExtLength)
      /\ n \notin {<<DOT>>, <<DOT, DOT>>} /\ IsValidAlias(n) =>
           /\ e.base = Field(SubSeq(n, 1, Cut(n)), BaseLength)
           /\ e.ext = Field(Extension(n, Cut(n)), ExtLength)
  BY NamedIs
<1>1. Len(n) \in Nat /\ Len(n) >= 1 /\ DOMAIN n = 1 .. Len(n)
  OBVIOUS
<1>2. n[1] # SPACE
  BY DEF Plain
<1>3. CASE n = <<DOT, DOT>>
  <2>1. e.long = <<>> /\ e.base = Field(n, BaseLength)
    BY <1>3, <1>0
  <2>2. 1 \in 1 .. BaseLength /\ 2 \in 1 .. BaseLength /\ Len(n) = 2
    BY <1>3, Lengths
  <2>3. BaseLength \in Nat
    BY Lengths
  <2>4. Field(n, BaseLength)[1] = n[1] /\ Field(n, BaseLength)[2] = n[2]
    <3>1. \A i \in 1 .. BaseLength : Field(n, BaseLength)[i] = IF i <= Len(n) THEN n[i] ELSE SPACE
      BY <2>3, FieldIs
    <3>2. 1 <= Len(n) /\ 2 <= Len(n)
      BY <2>2
    <3> QED
      BY <2>2, <3>1, <3>2
  <2>5. n[1] = DOT /\ n[2] = DOT
    BY <1>3
  <2>6. EntryGetAlias(e) = <<DOT, DOT>>
    BY <2>1, <2>4, <2>5 DEF EntryGetAlias
  <2> QED
    BY <1>2, <1>3, <2>1, <2>4, <2>6 DEF Filename
<1>4. CASE n # <<DOT, DOT>> /\ IsValidAlias(n)
  <2>1. /\ e.long = <<>> /\ e.base = Field(SubSeq(n, 1, cut), BaseLength)
        /\ e.ext = Field(Extension(n, cut), ExtLength)
    <3>1. n \notin {<<DOT>>, <<DOT, DOT>>}
      BY <1>4
    <3> QED
      BY <1>4, <3>1, <1>0
  <2>2. IF Dots(n) = {}
        THEN cut = Len(n) /\ Len(n) <= BaseLength
        ELSE /\ cut \in 1 .. BaseLength /\ cut + 1 <= Len(n)
             /\ n[cut + 1] = DOT /\ n[1] # DOT
             /\ Len(n) - cut - 1 \in 1 .. ExtLength
    BY <1>4, CutOfPlain
  <2>3. \A i \in 1 .. Len(n) : n[i] # SPACE
    BY <1>4, <1>1 DEF Plain, Has
  <2> HIDE DEF cut
  <2> DEFINE s == SubSeq(n, 1, cut)
             x == Extension(n, cut)
  <2>4. BaseLength \in Nat /\ ExtLength \in Nat /\ BaseLength >= 1 /\ ExtLength >= 1
    BY Lengths
  <2>5. cut \in Nat /\ cut >= 1 /\ cut <= Len(n) /\ cut <= BaseLength /\ n[1] # DOT
    <3>1. CASE Dots(n) = {}
      BY <3>1, <2>2, <1>1 DEF Dots
    <3>2. CASE Dots(n) # {}
      BY <3>2, <2>2, <1>1, <2>4
    <3> QED BY <3>1, <3>2
  <2>6. s \in Seq(Character) /\ Len(s) = cut /\ \A i \in 1 .. cut : s[i] = n[i]
    BY <2>5, <1>1
  <2>7. \A i \in 1 .. Len(s) : s[i] # SPACE
    BY <2>6, <2>5, <2>3
  <2>8. UpToSpace(e.base) = s
    <3> HIDE DEF s
    <3> QED BY <2>1, <2>4, <2>5, <2>6, <2>7, FieldReadsBack DEF s
  <2>9. e.base[1] = n[1]
    <3>1. 1 \in 1 .. BaseLength /\ 1 <= Len(s)
      BY <2>5, <2>6, <2>4
    <3> HIDE DEF s
    <3>2. Field(s, BaseLength)[1] = s[1]
      BY <3>1, <2>6, <2>4, FieldIs
    <3>3. s[1] = n[1]
      BY <2>6, <2>5
    <3> QED BY <2>1, <3>2, <3>3 DEF s
  <2>10. CASE Dots(n) = {}
    <3>1. cut = Len(n) /\ ~(cut < Len(n))
      BY <2>10, <2>2, <1>1
    <3>2. x = <<>>
      BY <3>1 DEF Extension
    <3>3. e.ext[1] = SPACE
      BY <3>2, <2>1, <2>4, EmptyField
    <3>4. s = n
      BY <3>1, <1>1
    <3> HIDE DEF s, x
    <3>5. EntryGetAlias(e) = n \o <<>>
      BY <3>3, <3>4, <2>5, <2>8, <2>9 DEF EntryGetAlias
    <3>6. EntryGetAlias(e) = n
      BY <3>5
    <3> QED
      BY <3>6, <2>1, <2>9, <1>2 DEF Filename
  <2>11. CASE Dots(n) # {}
    <3>2. Len(n) - cut - 1 \in 1 .. ExtLength /\ cut + 1 <= Len(n) /\ n[cut + 1] = DOT
      BY <2>11, <2>2
    <3>0. cut < Len(n) /\ cut + 2 <= Len(n) /\ cut + 2 \in Nat /\ cut + 2 >= 1
      BY <3>2, <2>4, <2>5, <1>1
    <3>1. x = SubSeq(n, cut + 2, Len(n))
      BY <3>0, <3>2 DEF Extension
    <3>3. /\ x \in Seq(Character) /\ Len(x) = Len(n) - cut - 1
          /\ \A i \in 1 .. Len(x) : x[i] = n[cut + 1 + i]
      <4> DEFINE from == cut + 2
      <4>2. from \in 1 .. Len(n)
        BY <3>0, <1>1
      <4>1. x = SubSeq(n, from, Len(n))
        BY <3>1
      <4> HIDE DEF from, x
      <4>3. /\ x \in Seq(Character) /\ Len(x) = Len(n) - from + 1
            /\ \A i \in 1 .. Len(x) : x[i] = n[from - 1 + i]
        BY <4>1, <4>2, <1>1
      <4>4. Len(n) - from + 1 = Len(n) - cut - 1 /\ from - 1 = cut + 1
        BY <2>5, <1>1 DEF from
      <4> QED
        BY <4>3, <4>4
    <3>4. Len(x) \in Nat /\ Len(x) >= 1 /\ Len(x) <= ExtLength
      BY <3>2, <3>3, <2>4
    <3>5. \A i \in 1 .. Len(x) : cut + 1 + i \in 1 .. Len(n)
      BY <3>3, <3>4, <2>5, <1>1
    <3>6. \A i \in 1 .. Len(x) : x[i] # SPACE
      BY <3>3, <3>5, <2>3
    <3> HIDE DEF s, x
    <3>7. UpToSpace(e.ext) = x
      BY <2>1, <2>4, <3>3, <3>4, <3>6, FieldReadsBack DEF x
    <3>8. e.ext[1] # SPACE
      <4>1. 1 \in 1 .. ExtLength /\ 1 <= Len(x) /\ 1 \in 1 .. Len(x)
        BY <2>4, <3>4
      <4>2. Field(x, ExtLength)[1] = x[1]
        BY <4>1, <3>3, <2>4, FieldIs
      <4> QED BY <4>1, <4>2, <3>6, <2>1 DEF x
    <3>9. EntryGetAlias(e) = s \o (<<DOT>> \o x)
      BY <2>5, <2>8, <2>9, <3>7, <3>8 DEF EntryGetAlias
    <3>10. s \o (<<DOT>> \o x) = n
      <4> DEFINE y == <<DOT>> \o x
      <4>0. DOT \in Character
        BY DEF Character
      <4>1. /\ y \in Seq(Character) /\ Len(y) = Len(n) - cut
            /\ \A i \in 1 .. Len(y) : y[i] = IF i = 1 THEN DOT ELSE x[i - 1]
        BY <3>3, <3>4, <2>5, <1>1, <4>0
      <4>2. \A i \in 1 .. Len(y) : y[i] = n[cut + i]
        <5>1. SUFFICES ASSUME NEW i \in 1 .. Len(y)
                       PROVE  y[i] = n[cut + i]
          OBVIOUS
        <5> HIDE DEF y
        <5>2. CASE i = 1
          BY <5>2, <4>1, <3>2
        <5>3. CASE i # 1
          <6>0. i \in Nat /\ i >= 1 /\ i <= Len(x) + 1
            <7>1. Len(y) = Len(n) - cut /\ Len(x) = Len(n) - cut - 1
              BY <4>1, <3>3
            <7>2. Len(y) = Len(x) + 1
              BY <7>1, <2>5, <1>1
            <7> QED
              BY <5>1, <7>2
          <6>1. i - 1 \in 1 .. Len(x) /\ cut + 1 + (i - 1) = cut + i
            BY <5>3, <6>0, <3>4, <2>5
          <6> QED
            BY <6>1, <4>1, <5>3, <3>3
        <5> QED BY <5>2, <5>3
      <4> HIDE DEF y
      <4> DEFINE z == s \o y
      <4>3. z \in Seq(Character) /\ Len(z) = Len(n)
        <5>1. s \in Seq(Character) /\ y \in Seq(Character)
          BY <4>1, <2>6
        <5>2. z \in Seq(Character) /\ Len(z) = Len(s) + Len(y)
          <6> HIDE DEF s
          <6> QED BY <5>1
        <5>3. Len(s) = cut /\ Len(y) = Len(n) - cut
          BY <4>1, <2>6
        <5> HIDE DEF z
        <5> QED
          BY <5>2, <5>3, <2>5, <1>1
      <4>4. \A i \in 1 .. Len(n) : z[i] = IF i <= cut THEN s[i] ELSE y[i - cut]
        BY <4>1, <2>6, <2>5, <1>1
      <4>5. \A i \in 1 .. Len(n) : z[i] = n[i]
        <5>1. SUFFICES ASSUME NEW i \in 1 .. Len(n)
                       PROVE  z[i] = n[i]
          OBVIOUS
        <5> HIDE DEF z
        <5>2. CASE i <= cut
          BY <5>2, <4>4, <2>6, <2>5
        <5>3. CASE ~(i <= cut)
          <6>1. i - cut \in 1 .. Len(y) /\ cut + (i - cut) = i
            BY <5>3, <4>1, <2>5, <1>1
          <6> QED
            BY <6>1, <4>4, <4>2, <5>3
        <5> QED BY <5>2, <5>3
      <4>6. z = n
        <5> HIDE DEF z
        <5> QED BY <4>3, <4>5, <1>1
      <4> QED
        BY <4>6 DEF y
    <3> QED
      BY <3>9, <3>10, <2>1, <2>9, <1>2 DEF Filename
  <2> QED
    BY <2>10, <2>11
<1>5. CASE n # <<DOT, DOT>> /\ ~IsValidAlias(n)
  <2>1. e.long = n
    <3>1. n \notin {<<DOT>>, <<DOT, DOT>>}
      BY <1>5
    <3> QED
      BY <1>5, <3>1, <1>0
  <2> QED
    BY <2>1 DEF Filename
<1> QED
  BY <1>3, <1>4, <1>5

\* What is known of an entry without knowing its name.
LEMMA EntryFacts ==
    ASSUME NEW e \in Entry
    PROVE  /\ e # NoEntry /\ e.given \in Names
           /\ e.long # <<>> => e.long = Trimmed(e.given) /\ Listed(e) /\ Filename(e) = e.long
           /\ Plain(e.given) =>
                Trimmed(e.given) = e.given /\ Listed(e) /\ Filename(e) = e.given
<1>1. PICK n \in Names, d \in BOOLEAN : e = EntryOf(Trimmed(n), n, d)
  BY DEF Entry, EntryOf
<1>2. e.given = n /\ e.long \in {<<>>, Trimmed(n)}
  BY <1>1, NamedIs
<1>3. n \in Seq(Character) /\ n # <<>> /\ n # <<DOT>>
  BY ANameIsASequence
<1>4. e # NoEntry
  <2>1. NoEntry.given = <<>>
    BY DEF NoEntry
  <2> QED
    BY <2>1, <1>2, <1>3
<1>5. ASSUME e.long # <<>>
      PROVE  e.long = Trimmed(n) /\ Listed(e) /\ Filename(e) = e.long
  BY <1>2, <1>4, <1>5 DEF Listed, Filename
<1>6. ASSUME Plain(n)
      PROVE  Trimmed(n) = n /\ Listed(e) /\ Filename(e) = n
  <2>1. n[1] # SPACE /\ n[Len(n)] # SPACE
    BY <1>6 DEF Plain
  <2>2. Trimmed(n) = n
    BY <2>1, <1>3, PlainStays
  <2>3. e = EntryOf(n, n, d)
    BY <2>2, <1>1
  <2>4. (e.long # <<>> \/ e.base[1] # SPACE) /\ Filename(e) = n
    BY <2>3, <1>3, <1>6, PlainComesBack
  <2> QED
    BY <2>2, <2>4, <1>4 DEF Listed
<1> QED
  BY <1>2, <1>4, <1>5, <1>6

Directories == [1 .. Places -> Entry \cup {NoEntry}]

\* Lookup finds the first entry of the name, and nothing only when there is none.
LEMMA LookupIs ==
    ASSUME NEW d \in Directories, NEW n
    PROVE  /\ Lookup(d, n) = None =>
                \A i \in 1 .. Places : Listed(d[i]) => Filename(d[i]) # n
           /\ Lookup(d, n) # None =>
                /\ Lookup(d, n) \in 1 .. Places
                /\ Listed(d[Lookup(d, n)]) /\ Filename(d[Lookup(d, n)]) = n
<1> DEFINE hits == {i \in 1 .. Places : Listed(d[i]) /\ Filename(d[i]) = n}
<1>1. Lookup(d, n) = IF hits = {} THEN None ELSE Min(hits)
  <2>1. DOMAIN d = 1 .. Places
    BY DEF Directories
  <2> QED
    BY <2>1 DEF Lookup
<1>2. hits \in SUBSET Nat
  BY Lengths
<1>3. hits # {} => Min(hits) \in hits
  <2> HIDE DEF hits
  <2> QED BY <1>2, MinIsLeast
<1>4. \A i \in hits : i \in 1 .. Places /\ i # None /\ Listed(d[i]) /\ Filename(d[i]) = n
  BY Lengths DEF None
<1>5. \A i \in 1 .. Places : (Listed(d[i]) /\ Filename(d[i]) = n) => i \in hits
  OBVIOUS
<1> HIDE DEF hits
<1> QED
  BY <1>1, <1>3, <1>4, <1>5

\* What is left when an entry has been taken away.
LEMMA DeletedIsSound ==
    ASSUME NEW d, Sound(d), NEW n
    PROVE  Sound(Deleted(d, n))
<1>1. CASE Lookup(d, n) = None
  BY <1>1 DEF Deleted
<1>2. CASE Lookup(d, n) # None
  <2> DEFINE k == Lookup(d, n)
             b == Deleted(d, n)
  <2>1. d \in Directories
    BY DEF Sound, Directories
  <2>2. b \in Directories /\ \A i \in 1 .. Places : b[i] = d[i] \/ b[i] = NoEntry
    BY <1>2, <2>1 DEF Deleted, Directories
  <2> HIDE DEF b, k
  <2>3. NoEntry.long = <<>>
    BY DEF NoEntry
  <2>4. PlainNamesDiffer(b)
    BY <2>2 DEF PlainNamesDiffer, Sound
  <2>5. LongNamesDiffer(b)
    <3>1. SUFFICES ASSUME NEW i \in 1 .. Places, NEW j \in 1 .. Places,
                          i # j, b[i].long # <<>>
                   PROVE  b[i].long # b[j].long
      BY DEF LongNamesDiffer
    <3>2. b[i] = d[i]
      BY <2>2, <2>3, <3>1
    <3>3. d[i].long # d[j].long
      BY <3>1, <3>2 DEF LongNamesDiffer, Sound
    <3> QED
      BY <2>2, <2>3, <3>1, <3>2, <3>3
  <2> QED
    BY <2>2, <2>4, <2>5 DEF Sound, Directories, b
<1> QED
  BY <1>1, <1>2

\* An entry that is added has a name that the directory did not have.
LEMMA AddedIsSound ==
    ASSUME NEW d, Sound(d), NEW n \in Names, NEW isDir \in BOOLEAN
    PROVE  Sound(AddEntry(d, n, isDir))
<1> DEFINE gaps == {i \in DOMAIN d : d[i] = NoEntry}
           t == Trimmed(n)
           e == Named(t, Unnamed(n, isDir))
           g == Min(gaps)
<1>1. CASE ~IsValidLfn(n) \/ AlreadyThere(d, n, t) \/ gaps = {}
  BY <1>1 DEF AddEntry
<1>2. CASE ~(~IsValidLfn(n) \/ AlreadyThere(d, n, t) \/ gaps = {})
  <2> DEFINE b == [d EXCEPT ![g] = e]
  <2>1. AddEntry(d, n, isDir) = b
    BY <1>2 DEF AddEntry
  <2>2. d \in Directories
    BY DEF Sound, Directories
  <2>3. g \in 1 .. Places
    <3>1. gaps \in SUBSET Nat /\ gaps # {} /\ gaps \subseteq 1 .. Places
      BY <1>2, <2>2, Lengths DEF Directories
    <3>2. g \in gaps
      <4> HIDE DEF gaps
      <4> QED BY <3>1, MinIsLeast
    <3> QED
      BY <3>1, <3>2
  <2>4. \A i \in 1 .. Places : Listed(d[i]) => Filename(d[i]) # t
    <3>1. Lookup(d, t) = None
      BY <1>2 DEF AlreadyThere
    <3> HIDE DEF t
    <3> QED
      BY <2>2, <3>1, LookupIs
  <2>5. e \in Entry
    BY DEF Entry
  <2>6. e.given = n
    <3>1. e = EntryOf(t, n, isDir)
      BY DEF EntryOf
    <3> HIDE DEF e
    <3> QED BY <3>1, NamedIs
  <2> HIDE DEF e, g
  <2>7. /\ b \in Directories /\ b[g] = e
        /\ \A i \in 1 .. Places : i # g => b[i] = d[i]
    BY <2>2, <2>3, <2>5 DEF Directories
  <2>8. \A i \in 1 .. Places : b[i] \in Entry \/ b[i] = NoEntry
    BY <2>7 DEF Directories
  <2> HIDE DEF b
  <2>9. NoEntry.long = <<>>
    BY DEF NoEntry
  <2>10. ASSUME NEW j \in 1 .. Places, j # g, b[j] # NoEntry,
                Plain(b[j].given), Plain(n)
         PROVE  b[j].given # n
    <3>1. b[j] \in Entry /\ b[j] = d[j]
      BY <2>7, <2>8, <2>10
    <3>2. Listed(d[j]) /\ Filename(d[j]) = d[j].given
      BY <3>1, <2>10, EntryFacts
    <3>3. t = n
      BY <2>5, <2>6, <2>10, EntryFacts
    <3> QED
      BY <3>1, <3>2, <3>3, <2>4
  <2>11. ASSUME NEW j \in 1 .. Places, j # g, e.long # <<>>
         PROVE  b[j].long # e.long
    <3>1. e.long = t
      BY <2>5, <2>6, <2>11, EntryFacts
    <3>2. SUFFICES ASSUME b[j].long = t
                   PROVE  FALSE
      BY <3>1
    <3>3. b[j] = d[j] /\ b[j] \in Entry
      BY <2>7, <2>8, <2>9, <2>11, <3>1, <3>2
    <3>4. Listed(d[j]) /\ Filename(d[j]) = t
      BY <3>1, <3>2, <3>3, <2>11, EntryFacts
    <3> QED
      BY <3>4, <2>4
  <2>12. PlainNamesDiffer(b)
    <3>1. SUFFICES ASSUME NEW i \in 1 .. Places, NEW j \in 1 .. Places,
                          i # j, b[i] # NoEntry, b[j] # NoEntry,
                          Plain(b[i].given), Plain(b[j].given)
                   PROVE  b[i].given # b[j].given
      BY DEF PlainNamesDiffer
    <3>2. CASE i = g
      BY <3>1, <3>2, <2>6, <2>7, <2>10
    <3>3. CASE j = g
      BY <3>1, <3>3, <2>6, <2>7, <2>10
    <3>4. CASE i # g /\ j # g
      BY <3>1, <3>4, <2>7 DEF Sound, PlainNamesDiffer
    <3> QED
      BY <3>2, <3>3, <3>4
  <2>13. LongNamesDiffer(b)
    <3>1. SUFFICES ASSUME NEW i \in 1 .. Places, NEW j \in 1 .. Places,
                          i # j, b[i].long # <<>>
                   PROVE  b[i].long # b[j].long
      BY DEF LongNamesDiffer
    <3>2. CASE i = g
      BY <3>1, <3>2, <2>7, <2>11
    <3>3. CASE j = g
      BY <3>1, <3>3, <2>7, <2>11
    <3>4. CASE i # g /\ j # g
      BY <3>1, <3>4, <2>7 DEF Sound, LongNamesDiffer
    <3> QED
      BY <3>2, <3>3, <3>4
  <2> QED
    BY <2>1, <2>7, <2>12, <2>13 DEF Sound, Directories
<1> QED
  BY <1>1, <1>2

------------------------------------------------------------------------
(* The theorems.                                                           *)

\* Every entry of the directory is what AddEntry makes of a name, no long name
\* is there twice and no plain name was added twice.
THEOREM NamesInvariant == NamesSpec => []NamesInv
<1>1. NamesInit => NamesInv
  <2>1. SUFFICES ASSUME NamesInit
                 PROVE  NamesInv
    OBVIOUS
  <2>2. dir = [i \in 1 .. Places |-> NoEntry] /\ NoEntry.long = <<>>
    BY <2>1 DEF NamesInit, NoEntry
  <2> QED
    BY <2>2 DEF NamesInv, Sound, PlainNamesDiffer, LongNamesDiffer
<1>2. NamesInv /\ [NamesNext]_dir => NamesInv'
  <2>1. SUFFICES ASSUME Sound(dir), [NamesNext]_dir
                 PROVE  Sound(dir')
    BY DEF NamesInv
  <2>2. CASE UNCHANGED dir
    BY <2>1, <2>2
  <2>3. ASSUME NEW n \in Names, FileCreate(n)
        PROVE  Sound(dir')
    <3>1. Sound(Deleted(dir, n))
      BY <2>1, DeletedIsSound
    <3> QED
      BY <2>3, <3>1, AddedIsSound DEF FileCreate
  <2>4. ASSUME NEW n \in Names, FileMakeDir(n)
        PROVE  Sound(dir')
    BY <2>1, <2>4, AddedIsSound DEF FileMakeDir
  <2>5. ASSUME NEW n \in Names, FileDelete(n)
        PROVE  Sound(dir')
    BY <2>1, <2>5, DeletedIsSound DEF FileDelete
  <2> QED
    BY <2>1, <2>2, <2>3, <2>4, <2>5 DEF NamesNext
<1> QED
  BY <1>1, <1>2, PTL DEF NamesSpec

\* No two long names of a directory are the same, whatever names were given:
\* addEntry trims a name before it looks for it among the others.
THEOREM LongNamesDoNotMeet == NamesSpec => []LongNamesAreDistinct
<1>1. NamesInv => LongNamesAreDistinct
  BY DEF NamesInv, Sound, LongNamesDiffer, LongNamesAreDistinct
<1> QED
  BY <1>1, NamesInvariant, PTL

\* As long as all names are plain an entry is found, and found first, under the
\* name it was given: the fields entryGetAlias reads give back the name that
\* addEntry put into them.
THEOREM PlainNamesComeBack == NamesSpec => []PlainNamesAreFound
<1>1. NamesInv => PlainNamesAreFound
  <2>1. SUFFICES ASSUME NamesInv,
                        \A i \in DOMAIN dir : dir[i] # NoEntry => Plain(dir[i].given),
                        NEW i \in DOMAIN dir, dir[i] # NoEntry
                 PROVE  Lookup(dir, dir[i].given) = i
    BY DEF PlainNamesAreFound
  <2>2. dir \in Directories /\ DOMAIN dir = 1 .. Places /\ PlainNamesDiffer(dir)
    BY <2>1 DEF NamesInv, Sound, Directories
  <2>3. \A j \in 1 .. Places : dir[j] # NoEntry =>
            dir[j] \in Entry /\ Plain(dir[j].given)
    BY <2>1, <2>2 DEF Directories
  <2>4. \A j \in 1 .. Places : dir[j] # NoEntry =>
            Listed(dir[j]) /\ Filename(dir[j]) = dir[j].given
    BY <2>3, EntryFacts
  <2> DEFINE k == Lookup(dir, dir[i].given)
  <2>5. k # None
    BY <2>1, <2>2, <2>4, LookupIs
  <2>6. k \in 1 .. Places /\ Listed(dir[k]) /\ Filename(dir[k]) = dir[i].given
    BY <2>2, <2>5, LookupIs
  <2> HIDE DEF k
  <2>7. dir[k] # NoEntry
    BY <2>6 DEF Listed
  <2>8. dir[k].given = dir[i].given
    BY <2>4, <2>6, <2>7
  <2>9. k = i
    BY <2>1, <2>2, <2>3, <2>6, <2>7, <2>8 DEF PlainNamesDiffer
  <2> QED
    BY <2>9 DEF k
<1> QED
  BY <1>1, NamesInvariant, PTL
=============================================================================
