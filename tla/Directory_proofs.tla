------------------------- MODULE Directory_proofs -------------------------
(***************************************************************************)
(* Proofs about Directory for any names, any sizes and any number of       *)
(* slots.  A call changes a row of slots in two ways: an entry is taken    *)
(* out, or one is put into slots that are free or behind the end mark.     *)
(* Each has one lemma that says what it leaves alone; AddEntry and         *)
(* FileClose together are the second kind of change.                       *)
(***************************************************************************)
EXTENDS Directory, FiniteSetTheorems, WellFoundedInduction, TLAPS

IsAlias(d, i) == i \in 1 .. Len(d) /\ d[i].kind = "alias"
IsLfn(d, i) == i \in 1 .. Len(d) /\ d[i].kind = "lfn"

\* Slot m is where the directory ends, and all that follows are end marks.
EndsAt(d, m) ==
    /\ m \in 1 .. Len(d) + 1
    /\ \A i \in 1 .. m - 1 : d[i].kind # "last"
    /\ \A i \in m .. Len(d) : d[i] = Last

\* No two alias slots have the same alias, unless it is cut when read.
AliasesApart(d) ==
    \A i, j \in 1 .. Len(d) :
        /\ IsAlias(d, i) /\ IsAlias(d, j) /\ d[i].alias = d[j].alias
        /\ d[i].alias \notin DOMAIN Cut
        => i = j

\* No alias slot has the alias a, unless it is cut when read.
Untaken(d, a) ==
    \A i \in 1 .. Len(d) :
        IsAlias(d, i) /\ d[i].alias \notin DOMAIN Cut => d[i].alias # a

\* The slots of the long name n are all there, in front of the alias slot i.
Group(d, i, n) ==
    /\ n \in Long /\ IsAlias(d, i) /\ i - Parts[n] >= 1
    /\ \A j \in i - Parts[n] .. i - 1 :
        /\ d[j].kind = "lfn" /\ d[j].name = n /\ d[j].alias = d[i].alias
        /\ d[j].top <=> j = i - Parts[n]

\* And say what they were to say.
Legible(d, i, n) ==
    Group(d, i, n) /\ \A j \in i - Parts[n] .. i - 1 : ~d[j].garbled

\* The entry of a name in the books.
Filed(d, n) ==
    \E i \in 1 .. Len(d) :
        /\ IsAlias(d, i) /\ d[i].start
        /\ IF n \in Short THEN d[i].alias = n ELSE Legible(d, i, n)

\* Every slot of a long name belongs to an entry.
Whole(d) ==
    \A j \in 1 .. Len(d) :
        IsLfn(d, j) => \E i \in 1 .. Len(d) :
                          Group(d, i, d[j].name) /\ j \in i - Parts[d[j].name] .. i - 1

\* No two entries have the same long name.
NamesApart(d) ==
    \A i, j \in 1 .. Len(d) : \A n \in Long :
        Legible(d, i, n) /\ Legible(d, j, n) => i = j

\* What is known of slots d, the names F in the books, and whether an entry
\* has been cut off.
Sound(d, F, cut) ==
    /\ d \in Seq(Slot)
    /\ \E m \in Nat : EndsAt(d, m)
    /\ AliasesApart(d)
    /\ F \subseteq Names /\ \A n \in F : Filed(d, n)
    /\ ~cut => Whole(d) /\ NamesApart(d)

\* The inductive invariant.
IInv ==
    /\ kind \in Kinds /\ tailIsLast \in BOOLEAN /\ cutOff \in BOOLEAN
    /\ Sound(slots, files, cutOff)

------------------------------------------------------------------------
(* The ends of a set of numbers.                                           *)

\* A non-empty set of natural numbers has a least element.
LEMMA MinIsLeast ==
    ASSUME NEW S \in SUBSET Nat, S # {}
    PROVE  Min(S) \in S /\ \A n \in S : Min(S) <= n
<1> DEFINE R == OpToRel(<, Nat)
<1>1. IsWellFoundedOn(R, Nat)
  BY NatLessThanWellFounded
<1>2. PICK n \in S : \A m \in S : <<m, n>> \notin R
  <2> HIDE DEF R
  <2> QED BY <1>1, WFMin
<1>3. ASSUME NEW m \in S, m < n
      PROVE  FALSE
  <2>1. <<m, n>> \in Nat \X Nat /\ <<m, n>>[1] < <<m, n>>[2]
    BY <1>3
  <2>2. <<m, n>> \in R
    BY <2>1 DEF OpToRel
  <2> QED
    BY <2>2, <1>2
<1>4. \A m \in S : n <= m
  BY <1>3
<1> QED
  BY <1>4 DEF Min

\* What is no greater than the others is the least.
LEMMA MinIs ==
    ASSUME NEW S \in SUBSET Int, NEW n \in S, \A m \in S : n <= m
    PROVE  Min(S) = n
<1>1. Min(S) \in S /\ \A m \in S : Min(S) <= m
  BY DEF Min
<1>2. Min(S) <= n /\ n <= Min(S) /\ Min(S) \in Int /\ n \in Int
  BY <1>1
<1> QED
  BY <1>2

\* A set of natural numbers with a bound has a greatest element.
LEMMA MaxIsGreatest ==
    ASSUME NEW b \in Nat, NEW S \in SUBSET (0 .. b), S # {}
    PROVE  Max(S) \in S /\ \A n \in S : n <= Max(S)
<1> DEFINE T == {b - i : i \in S}
<1>0. \A i \in S : i \in Int /\ i <= b /\ b - i \in Nat
  OBVIOUS
<1>1. T \in SUBSET Nat /\ T # {}
  BY <1>0
<1>2. PICK m \in T : \A t \in T : m <= t
  <2> HIDE DEF T
  <2> QED BY <1>1, MinIsLeast
<1>3. PICK i \in S : m = b - i
  BY <1>2
<1>4. \A n \in S : b - n \in T
  OBVIOUS
<1>5. \A n \in S : b - i <= b - n
  <2> HIDE DEF T
  <2> QED BY <1>2, <1>3, <1>4
<1>6. ASSUME NEW n \in S
      PROVE  i >= n
  <2>1. b - i <= b - n /\ i \in Int /\ n \in Int
    BY <1>5, <1>0
  <2> QED
    BY <2>1
<1>7. Max(S) \in S /\ \A n \in S : Max(S) >= n
  BY <1>6 DEF Max
<1> QED
  BY <1>7

------------------------------------------------------------------------
(* Slots.                                                                  *)

LEMMA SlotIs ==
    ASSUME NEW s \in Slot
    PROVE  /\ s.kind \in {"last", "vol", "free", "lfn", "alias"}
           /\ s.kind = "last" => s = Last
           /\ s.kind = "free" => s.lfn \in BOOLEAN
           /\ s.kind = "lfn" => /\ s.name \in Long /\ s.alias \in Aliases
                                /\ s.top \in BOOLEAN /\ s.garbled \in BOOLEAN
           /\ s.kind = "alias" => s.alias \in Aliases /\ s.dir \in BOOLEAN /\ s.start \in BOOLEAN
BY DEF Slot, Last, Vol

LEMMA FreedIsASlot ==
    ASSUME NEW s \in Slot
    PROVE  Freed(s) \in Slot /\ Freed(s).kind = "free"
BY SlotIs DEF Freed, Slot

LEMMA NewSlots ==
    ASSUME NEW a \in Aliases, NEW t \in BOOLEAN, NEW b \in BOOLEAN
    PROVE  /\ AliasSlot(a, t, b) \in Slot
           /\ \A n \in Long : LfnSlot(n, a, t) \in Slot
BY DEF AliasSlot, LfnSlot, Slot

LEMMA LastIsASlot == Last \in Slot /\ Last.kind = "last" /\ Vol \in Slot /\ Vol.kind = "vol"
BY DEF Last, Vol, Slot

LEMMA Sizes ==
    /\ \A n \in Long : Parts[n] \in Nat /\ Parts[n] >= 1 /\ Size(n) = Parts[n] + 1
    /\ \A n \in Names : Size(n) \in Nat /\ Size(n) >= 1 /\ (n \notin Long => Size(n) = 1)
    /\ RootSlots \in Nat /\ RootSlots >= 1 /\ ClusterSlots \in Nat /\ ClusterSlots >= 2
BY NamesAssumption DEF Size

\* Where the directory ends is where the end mark is found.
LEMMA EndMarkIs ==
    ASSUME NEW d \in Seq(Slot), NEW m, EndsAt(d, m)
    PROVE  EndMark(d) = m /\ m \in Nat /\ m >= 1 /\ m <= Len(d) + 1
<1> DEFINE S == {Len(d) + 1} \cup {i \in 1 .. Len(d) : d[i].kind = "last"}
<1>1. Len(d) \in Nat /\ m \in Nat /\ m >= 1 /\ m <= Len(d) + 1
  BY DEF EndsAt
<1>2. S \in SUBSET Int
  BY <1>1
<1>3. m \in S
  <2>1. CASE m = Len(d) + 1
    BY <2>1
  <2>2. CASE m # Len(d) + 1
    <3>1. m \in 1 .. Len(d) /\ m \in m .. Len(d)
      BY <2>2, <1>1
    <3> QED
      BY <3>1, LastIsASlot DEF EndsAt
  <2> QED
    BY <2>1, <2>2
<1>4. \A i \in S : m <= i
  <2>1. \A i \in 1 .. Len(d) : i < m => i \in 1 .. m - 1
    BY <1>1
  <2> QED
    BY <2>1, <1>1 DEF EndsAt
<1>5. Min(S) = m
  <2> HIDE DEF S
  <2> QED BY <1>2, <1>3, <1>4, MinIs
<1> QED
  BY <1>1, <1>5 DEF EndMark

\* The entries that are found are those of the alias slots.
LEMMA AliasAtIs ==
    ASSUME NEW d \in Seq(Slot), NEW m, EndsAt(d, m)
    PROVE  \A i : i \in AliasAt(d) <=> IsAlias(d, i)
<1>1. EndMark(d) = m /\ m \in Nat /\ m >= 1 /\ m <= Len(d) + 1 /\ Len(d) \in Nat
  BY EndMarkIs
<1>2. \A i \in m .. Len(d) : d[i].kind # "alias"
  BY LastIsASlot DEF EndsAt
<1>3. \A i \in 1 .. Len(d) : i \in 1 .. m - 1 \/ i \in m .. Len(d)
  BY <1>1
<1>4. \A i \in 1 .. m - 1 : i \in 1 .. Len(d)
  BY <1>1
<1> QED
  BY <1>1, <1>2, <1>3, <1>4 DEF AliasAt, IsAlias

------------------------------------------------------------------------
(* Entries.                                                                *)

Continues(d, j, k) ==
    /\ d[k].kind # "alias"
    /\ d[k].kind = "free" => ~d[k].lfn
    /\ d[k].kind = "lfn" => ~d[k].top /\ d[k].alias = d[j].alias

\* Where the long name of the entry with alias slot i may begin.
Tops(d, i) ==
    {j \in 1 .. i - 1 :
        /\ d[j].kind = "lfn" /\ d[j].top /\ d[j].alias = d[i].alias
        /\ \A k \in j + 1 .. i - 1 : Continues(d, j, k)}

LEMMA StartIs ==
    ASSUME NEW d, NEW i
    PROVE  /\ Tops(d, i) = {} => LongNameStart(d, i) = 0
           /\ Tops(d, i) # {} => LongNameStart(d, i) \in Tops(d, i)
<1>1. LongNameStart(d, i) = IF Tops(d, i) = {} THEN 0 ELSE CHOOSE j \in Tops(d, i) : TRUE
  BY DEF LongNameStart, Tops, Continues
<1> QED
  BY <1>1

\* What is read of an alias is no long name, and is the alias of a short name.
LEMMA ReadIs ==
    ASSUME NEW a \in Aliases
    PROVE  /\ EntryGetAlias(a) \notin Long
           /\ a \notin DOMAIN Cut => EntryGetAlias(a) = a
           /\ \A n \in Short : n \notin DOMAIN Cut /\ EntryGetAlias(n) = n
<1>1. a \notin Long
  BY NamesAssumption
<1>2. \A n \in Short : n \notin DOMAIN Cut
  BY NamesAssumption
<1>3. a \in DOMAIN Cut => Cut[a] \notin Long
  BY NamesAssumption
<1> QED
  BY <1>1, <1>2, <1>3 DEF EntryGetAlias

\* An entry says what its alias slot says, and is called by its alias or by the
\* long name in front of it.
LEMMA EntryIs ==
    ASSUME NEW d \in Seq(Slot), NEW i, IsAlias(d, i),
           NEW e, e = EntryAt(d, i), NEW t, t = LongNameStart(d, i)
    PROVE  /\ e.alias = d[i].alias /\ e.dir = d[i].dir /\ e.start = d[i].start
           /\ e.dataEnd = i /\ e.alias \in Aliases
           /\ e.name = IF t = 0 THEN EntryGetAlias(d[i].alias) ELSE LongName(d, i, t)
           /\ e.dataStart = IF t = 0 THEN i ELSE t
           /\ t # 0 => /\ t \in Tops(d, i) /\ t \in 1 .. i - 1 /\ IsLfn(d, t)
                       /\ \A k \in t + 1 .. i - 1 : d[k].kind # "alias"
                       /\ LongName(d, i, t) \in Long \cup {Garbled}
<1>1. i \in 1 .. Len(d) /\ d[i].kind = "alias" /\ Len(d) \in Nat /\ d[i] \in Slot
  BY DEF IsAlias
<1>2. /\ e.alias = d[i].alias /\ e.dir = d[i].dir /\ e.start = d[i].start
      /\ e.dataEnd = i
      /\ e.name = IF t = 0 THEN EntryGetAlias(d[i].alias) ELSE LongName(d, i, t)
      /\ e.dataStart = IF t = 0 THEN i ELSE t
  BY DEF EntryAt
<1>3. d[i].alias \in Aliases
  BY <1>1, SlotIs
<1>4. ASSUME t # 0
      PROVE  /\ t \in Tops(d, i) /\ t \in 1 .. i - 1 /\ IsLfn(d, t)
             /\ \A k \in t + 1 .. i - 1 : d[k].kind # "alias"
             /\ LongName(d, i, t) \in Long \cup {Garbled}
  <2>1. t \in Tops(d, i)
    BY <1>4, StartIs
  <2>2. /\ t \in 1 .. i - 1 /\ d[t].kind = "lfn"
        /\ \A k \in t + 1 .. i - 1 : d[k].kind # "alias"
    BY <2>1 DEF Tops, Continues
  <2>3. t \in 1 .. Len(d) /\ d[t] \in Slot
    BY <2>2, <1>1
  <2>4. d[t].name \in Long
    BY <2>2, <2>3, SlotIs
  <2> QED
    BY <2>1, <2>2, <2>3, <2>4 DEF IsLfn, LongName
<1> QED
  BY <1>2, <1>3, <1>4

\* A long name that is all there is the name of the entry.
LEMMA GroupIsTheName ==
    ASSUME NEW d \in Seq(Slot), NEW i, NEW n, Group(d, i, n)
    PROVE  /\ LongNameStart(d, i) = i - Parts[n]
           /\ EntryAt(d, i).name = IF Legible(d, i, n) THEN n ELSE Garbled
<1> DEFINE first == i - Parts[n]
<1>1. /\ n \in Long /\ IsAlias(d, i) /\ i \in 1 .. Len(d) /\ Len(d) \in Nat
      /\ Parts[n] \in Nat /\ Parts[n] >= 1 /\ first >= 1
  BY Sizes DEF Group, IsAlias
<1>2. \A j \in first .. i - 1 :
        /\ d[j].kind = "lfn" /\ d[j].name = n /\ d[j].alias = d[i].alias
        /\ d[j].top <=> j = first
  BY DEF Group
<1>3. first \in Nat /\ first \in 1 .. i - 1 /\ first \in first .. i - 1 /\ first # 0
  BY <1>1
<1> HIDE DEF first
<1>4. first \in Tops(d, i)
  <2>1. \A k \in first + 1 .. i - 1 : k \in first .. i - 1 /\ k # first
    BY <1>1, <1>3
  <2>2. \A k \in first + 1 .. i - 1 : Continues(d, first, k)
    BY <1>2, <1>3, <2>1 DEF Continues
  <2> QED
    BY <1>2, <1>3, <2>2 DEF Tops
<1>5. ASSUME NEW j \in Tops(d, i)
      PROVE  j = first
  <2>1. /\ j \in 1 .. i - 1 /\ d[j].kind = "lfn" /\ d[j].top
        /\ \A k \in j + 1 .. i - 1 : Continues(d, j, k)
    BY <1>5 DEF Tops
  <2>2. ~(j < first)
    <3>1. SUFFICES ASSUME j < first
                   PROVE  FALSE
      OBVIOUS
    <3>2. first \in j + 1 .. i - 1
      BY <3>1, <2>1, <1>3
    <3> QED
      BY <3>2, <2>1, <1>2, <1>3 DEF Continues
  <2>3. j \in first .. i - 1
    BY <2>1, <2>2, <1>3
  <2> QED
    BY <2>1, <2>3, <1>2
<1>6. LongNameStart(d, i) = first
  BY <1>4, <1>5, StartIs
<1>7. EntryAt(d, i).name = LongName(d, i, first)
  BY <1>1, <1>3, <1>6, EntryIs
<1>8. LongName(d, i, first) = IF Legible(d, i, n) THEN n ELSE Garbled
  <2>1. (\E j \in first .. i - 1 : d[j].kind = "lfn" /\ d[j].garbled) <=> ~Legible(d, i, n)
    BY <1>2 DEF Legible, first
  <2>2. d[first].name = n
    BY <1>2, <1>3
  <2> QED
    BY <2>1, <2>2 DEF LongName
<1> QED
  BY <1>6, <1>7, <1>8 DEF first

\* Where every slot of a long name belongs to an entry, an entry without a long
\* name of its own is called by its alias.
LEMMA NoGroupNoName ==
    ASSUME NEW d \in Seq(Slot), Whole(d), NEW i, IsAlias(d, i), \A n : ~Group(d, i, n)
    PROVE  LongNameStart(d, i) = 0 /\ EntryAt(d, i).name = EntryGetAlias(d[i].alias)
<1>1. i \in 1 .. Len(d) /\ Len(d) \in Nat
  BY DEF IsAlias
<1>2. Tops(d, i) = {}
  <2>1. SUFFICES ASSUME NEW j \in Tops(d, i)
                 PROVE  FALSE
    OBVIOUS
  <2>2. /\ j \in 1 .. i - 1 /\ d[j].kind = "lfn"
        /\ \A k \in j + 1 .. i - 1 : d[k].kind # "alias"
    BY <2>1 DEF Tops, Continues
  <2>3. j \in 1 .. Len(d) /\ IsLfn(d, j)
    BY <1>1, <2>2 DEF IsLfn
  <2> DEFINE n == d[j].name
  <2>4. PICK p \in 1 .. Len(d) : Group(d, p, n) /\ j \in p - Parts[n] .. p - 1
    BY <2>3 DEF Whole
  <2> HIDE DEF n
  <2>5. /\ n \in Long /\ IsAlias(d, p) /\ Parts[n] \in Nat
        /\ \A k \in p - Parts[n] .. p - 1 : d[k].kind = "lfn"
    BY <2>4, Sizes DEF Group
  <2>6. p # i
    BY <2>4
  <2>7. j < p
    BY <2>4, <2>2, <2>5
  <2>8. CASE p < i
    <3>1. p \in j + 1 .. i - 1
      BY <2>2, <2>4, <2>7, <2>8, <1>1
    <3> QED
      BY <3>1, <2>2, <2>5 DEF IsAlias
  <2>9. CASE p > i
    <3>1. i \in p - Parts[n] .. p - 1
      BY <2>2, <2>4, <2>5, <2>9, <1>1
    <3>2. d[i].kind = "lfn"
      BY <3>1, <2>5
    <3> QED
      BY <3>2 DEF IsAlias
  <2> QED
    BY <2>6, <2>8, <2>9, <1>1
<1>3. LongNameStart(d, i) = 0
  BY <1>2, StartIs
<1> QED
  BY <1>3, EntryIs

\* What an entry is depends on the slots up to its own alone.
LEMMA EntryLooksBack ==
    ASSUME NEW d, NEW b, NEW i \in Nat, i >= 1, \A k \in 1 .. i : b[k] = d[k]
    PROVE  EntryAt(b, i) = EntryAt(d, i)
<1>1. \A j \in 1 .. i - 1 : \A k \in j + 1 .. i - 1 : k \in 1 .. i /\ j \in 1 .. i
  OBVIOUS
<1>2. (\A j \in 1 .. i - 1 : j \in 1 .. i) /\ i \in 1 .. i
  OBVIOUS
<1>3. Tops(b, i) = Tops(d, i)
  BY <1>1, <1>2 DEF Tops, Continues
<1>4. LongNameStart(b, i) = LongNameStart(d, i)
  BY <1>3 DEF LongNameStart, Tops, Continues
<1> DEFINE t == LongNameStart(d, i)
<1>5. t # 0 => t \in 1 .. i - 1
  BY StartIs DEF Tops
<1> HIDE DEF t
<1>6. t # 0 => LongName(b, i, t) = LongName(d, i, t)
  <2>1. t # 0 => \A k \in t .. i - 1 : k \in 1 .. i
    BY <1>5
  <2>2. t # 0 => b[t] = d[t]
    BY <1>5, <1>2
  <2> QED
    BY <2>1, <2>2 DEF LongName
<1>7. b[i] = d[i]
  BY <1>2
<1> QED
  BY <1>4, <1>6, <1>7 DEF EntryAt, t

\* A long name whose slots have not been touched is still there.
LEMMA GroupStays ==
    ASSUME NEW d, NEW b, NEW i, NEW n, Group(d, i, n), IsAlias(b, i),
           \A k \in i - Parts[n] .. i : b[k] = d[k]
    PROVE  Group(b, i, n) /\ (Legible(b, i, n) <=> Legible(d, i, n))
<1>1. i \in Int /\ n \in Long /\ Parts[n] \in Nat
  BY Sizes DEF Group, IsAlias
<1>2. \A k \in i - Parts[n] .. i - 1 : k \in i - Parts[n] .. i
  BY <1>1
<1>3. i \in i - Parts[n] .. i
  BY <1>1
<1>4. b[i] = d[i] /\ \A k \in i - Parts[n] .. i - 1 : b[k] = d[k]
  BY <1>2, <1>3
<1> QED
  BY <1>4 DEF Group, Legible

\* An entry with the same alias slot and the same long name is the same.
LEMMA EntryStays ==
    ASSUME NEW d \in Seq(Slot), NEW b \in Seq(Slot), Whole(d), Whole(b),
           NEW i, IsAlias(d, i), IsAlias(b, i), b[i] = d[i],
           \A n : Group(b, i, n) <=> Group(d, i, n),
           \A n : Legible(b, i, n) <=> Legible(d, i, n)
    PROVE  EntryAt(b, i) = EntryAt(d, i)
<1>1. LongNameStart(b, i) = LongNameStart(d, i) /\ EntryAt(b, i).name = EntryAt(d, i).name
  <2>1. CASE \E n : Group(d, i, n)
    <3>1. PICK n : Group(d, i, n)
      BY <2>1
    <3> QED
      BY <3>1, GroupIsTheName
  <2>2. CASE \A n : ~Group(d, i, n)
    BY <2>2, NoGroupNoName
  <2> QED
    BY <2>1, <2>2
<1>2. ASSUME NEW r, NEW e, e = EntryAt(r, i), NEW t, t = LongNameStart(r, i)
      PROVE  e = [name |-> e.name, alias |-> r[i].alias, dir |-> r[i].dir,
                  start |-> r[i].start, dataStart |-> IF t = 0 THEN i ELSE t, dataEnd |-> i]
  BY <1>2 DEF EntryAt
<1> DEFINE t == LongNameStart(d, i)
           m == EntryAt(d, i).name
<1>3. EntryAt(b, i) = [name |-> m, alias |-> b[i].alias, dir |-> b[i].dir,
          start |-> b[i].start, dataStart |-> IF t = 0 THEN i ELSE t, dataEnd |-> i]
  BY <1>1, <1>2
<1>4. EntryAt(d, i) = [name |-> m, alias |-> d[i].alias, dir |-> d[i].dir,
          start |-> d[i].start, dataStart |-> IF t = 0 THEN i ELSE t, dataEnd |-> i]
  BY <1>2
<1> HIDE DEF t, m
<1> QED
  BY <1>3, <1>4

\* The entries of d are entries of b, all but the one whose alias slot is i; as
\* long as none has been cut off (cut) they have kept their names.
KeepsBut(d, b, cut, i) ==
    \A j \in 1 .. Len(d) :
        (IsAlias(d, j) /\ j # i) =>
            /\ IsAlias(b, j)
            /\ SameSlot(EntryAt(d, j), EntryAt(b, j))
            /\ ~cut => EntryAt(b, j) = EntryAt(d, j)

\* Two entries with the same alias slot are the same but for their names.
LEMMA SameSlots ==
    ASSUME NEW d \in Seq(Slot), NEW b \in Seq(Slot),
           NEW i, IsAlias(d, i), IsAlias(b, i), b[i] = d[i]
    PROVE  SameSlot(EntryAt(d, i), EntryAt(b, i))
BY EntryIs DEF SameSlot

------------------------------------------------------------------------
(* Taking an entry out.                                                    *)

LEMMA RemovedIs ==
    ASSUME NEW d \in Seq(Slot), NEW i, IsAlias(d, i), NEW b,
           b = RemoveEntry(d, EntryAt(d, i)), NEW from, from = EntryAt(d, i).dataStart
    PROVE  /\ from \in 1 .. i /\ \A k \in from .. i - 1 : d[k].kind # "alias"
           /\ b \in Seq(Slot) /\ Len(b) = Len(d)
           /\ \A k \in 1 .. Len(d) : k \in from .. i => b[k].kind = "free"
           /\ \A k \in 1 .. Len(d) : k \notin from .. i => b[k] = d[k]
<1> DEFINE t == LongNameStart(d, i)
<1>1. i \in 1 .. Len(d) /\ Len(d) \in Nat /\ d[i].kind = "alias"
  BY DEF IsAlias
<1>2. /\ EntryAt(d, i).dataEnd = i /\ from = IF t = 0 THEN i ELSE t
      /\ t # 0 => /\ t \in 1 .. i - 1 /\ IsLfn(d, t)
                  /\ \A k \in t + 1 .. i - 1 : d[k].kind # "alias"
  BY EntryIs
<1> HIDE DEF t
<1>3. from \in 1 .. i /\ \A k \in from .. i - 1 : d[k].kind # "alias"
  <2>1. CASE t = 0
    BY <2>1, <1>1, <1>2
  <2>2. CASE t # 0
    <3>1. d[t].kind = "lfn" /\ from = t /\ t \in 1 .. i - 1
      BY <2>2, <1>2 DEF IsLfn
    <3>2. \A k \in from .. i - 1 : k = t \/ k \in t + 1 .. i - 1
      BY <3>1, <1>1
    <3> QED
      BY <3>1, <3>2, <2>2, <1>1, <1>2
  <2> QED
    BY <2>1, <2>2
<1>4. b = [k \in 1 .. Len(d) |-> IF k \in from .. i THEN Freed(d[k]) ELSE d[k]]
  BY <1>2 DEF RemoveEntry
<1>5. \A k \in 1 .. Len(d) : d[k] \in Slot
  OBVIOUS
<1>6. \A k \in 1 .. Len(d) : Freed(d[k]) \in Slot /\ Freed(d[k]).kind = "free"
  BY <1>5, FreedIsASlot
<1>7. b \in [1 .. Len(d) -> Slot]
  BY <1>4, <1>5, <1>6
<1>8. b \in Seq(Slot) /\ Len(b) = Len(d)
  BY <1>1, <1>7
<1> QED
  BY <1>3, <1>4, <1>6, <1>8

\* What is left is as sound as it was, without the names of the entry that has
\* been taken out, and all other entries are still there.
LEMMA RemovedIsSound ==
    ASSUME NEW d, NEW F, NEW cut \in BOOLEAN, Sound(d, F, cut),
           NEW i, IsAlias(d, i), NEW e, e = EntryAt(d, i), NEW b, b = RemoveEntry(d, e)
    PROVE  Sound(b, F \ {e.name, e.alias}, cut) /\ KeepsBut(d, b, cut, i)
<1> DEFINE from == e.dataStart
<1>1. d \in Seq(Slot) /\ Len(d) \in Nat /\ AliasesApart(d)
  BY DEF Sound
<1>2. /\ from \in 1 .. i /\ \A k \in from .. i - 1 : d[k].kind # "alias"
      /\ b \in Seq(Slot) /\ Len(b) = Len(d)
      /\ \A k \in 1 .. Len(d) : k \in from .. i => b[k].kind = "free"
      /\ \A k \in 1 .. Len(d) : k \notin from .. i => b[k] = d[k]
  BY <1>1, RemovedIs
<1>3. i \in 1 .. Len(d) /\ d[i].kind = "alias" /\ e.alias = d[i].alias
  BY <1>1, EntryIs DEF IsAlias
<1>4. \A n : Group(d, i, n) => from = i - Parts[n] /\ from \in Nat /\ from # 0
  <2>1. SUFFICES ASSUME NEW n, Group(d, i, n)
                 PROVE  from = i - Parts[n] /\ from \in Nat /\ from # 0
    OBVIOUS
  <2>2. LongNameStart(d, i) = i - Parts[n] /\ i - Parts[n] >= 1 /\ Parts[n] \in Nat
    BY <1>1, <2>1, GroupIsTheName, Sizes DEF Group
  <2>3. e.dataStart = i - Parts[n]
    BY <1>1, <1>3, <2>2, EntryIs
  <2> QED
    BY <2>2, <2>3, <1>3
<1>5. \A n \in F \ {e.name, e.alias} :
        /\ n \in Short => d[i].alias # n
        /\ n \notin Short => ~Legible(d, i, n)
  <2>1. ASSUME NEW n, Legible(d, i, n)
        PROVE  e.name = n
    BY <1>1, <2>1, GroupIsTheName DEF Legible
  <2> QED
    BY <1>3, <2>1
<1> HIDE DEF from
<1>6. \A j \in 1 .. Len(d) : IsAlias(b, j) <=> IsAlias(d, j) /\ j # i
  <2>1. SUFFICES ASSUME NEW j \in 1 .. Len(d)
                 PROVE  IsAlias(b, j) <=> IsAlias(d, j) /\ j # i
    OBVIOUS
  <2>2. CASE j \in from .. i
    <3>1. b[j].kind = "free" /\ (j # i => j \in from .. i - 1)
      BY <2>2, <1>2, <1>3
    <3> QED
      BY <3>1, <1>2 DEF IsAlias
  <2>3. CASE j \notin from .. i
    <3>1. j # i /\ b[j] = d[j]
      BY <2>3, <1>2, <1>3
    <3> QED
      BY <3>1, <1>2 DEF IsAlias
  <2> QED
    BY <2>2, <2>3
\* The slots of another entry are not those of this one.
<1>7. ASSUME NEW j \in 1 .. Len(d), j # i, NEW n
      PROVE  /\ Group(b, j, n) <=> Group(d, j, n)
             /\ Legible(b, j, n) <=> Legible(d, j, n)
  <2>1. ASSUME Group(d, j, n)
        PROVE  /\ Group(b, j, n) /\ (Legible(b, j, n) <=> Legible(d, j, n))
    <3>1. /\ IsAlias(d, j) /\ n \in Long /\ Parts[n] \in Nat /\ j - Parts[n] >= 1
          /\ \A k \in j - Parts[n] .. j - 1 : d[k].kind = "lfn"
      BY <2>1, Sizes DEF Group
    <3>2. d[j].kind = "alias" /\ IsAlias(b, j)
      BY <3>1, <1>6, <1>7 DEF IsAlias
    <3>3. \A k \in j - Parts[n] .. j : k \in 1 .. Len(d) /\ k \notin from .. i
      <4>1. SUFFICES ASSUME NEW k \in j - Parts[n] .. j
                     PROVE  k \in 1 .. Len(d) /\ k \notin from .. i
        OBVIOUS
      <4>2. k \in 1 .. Len(d) /\ (k = j \/ k \in j - Parts[n] .. j - 1)
        BY <3>1, <1>1
      <4>3. CASE j < i
        <5>1. ~(j >= from)
          <6>1. SUFFICES ASSUME j >= from
                         PROVE  FALSE
            OBVIOUS
          <6>2. j \in from .. i - 1
            BY <4>3, <6>1, <1>2, <1>3
          <6> QED
            BY <6>2, <3>2, <1>2
        <5> QED
          BY <4>1, <4>2, <5>1, <1>2, <1>3, <3>1
      <4>4. CASE j > i
        <5>1. ~(k <= i)
          <6>1. SUFFICES ASSUME k <= i
                         PROVE  FALSE
            OBVIOUS
          <6>2. i \in j - Parts[n] .. j - 1
            BY <4>1, <4>4, <6>1, <1>3, <3>1
          <6> QED
            BY <6>2, <3>1, <1>3
        <5> QED
          BY <4>2, <5>1, <1>2, <1>3
      <4> QED
        BY <4>2, <4>3, <4>4, <1>7, <1>3
    <3>4. \A k \in j - Parts[n] .. j : b[k] = d[k]
      BY <3>3, <1>2
    <3> QED
      BY <2>1, <3>2, <3>4, GroupStays
  <2>2. ASSUME Group(b, j, n)
        PROVE  Group(d, j, n)
    <3>1. /\ IsAlias(b, j) /\ n \in Long /\ Parts[n] \in Nat /\ j - Parts[n] >= 1
          /\ \A k \in j - Parts[n] .. j - 1 : b[k].kind = "lfn"
      BY <2>2, Sizes DEF Group
    <3>2. IsAlias(d, j) /\ b[j].kind = "alias"
      BY <3>1, <1>6 DEF IsAlias
    <3>3. \A k \in j - Parts[n] .. j : d[k] = b[k]
      <4>1. SUFFICES ASSUME NEW k \in j - Parts[n] .. j
                     PROVE  d[k] = b[k]
        OBVIOUS
      <4>2. k \in 1 .. Len(d) /\ (k = j \/ k \in j - Parts[n] .. j - 1)
        BY <3>1, <1>1
      <4>3. b[k].kind # "free"
        BY <4>2, <3>1, <3>2
      <4> QED
        BY <4>2, <4>3, <1>2
    <3> QED
      BY <2>2, <3>2, <3>3, GroupStays
  <2> QED
    BY <2>1, <2>2 DEF Legible
<1>8. \E m \in Nat : EndsAt(b, m)
  <2>1. PICK m \in Nat : EndsAt(d, m)
    BY DEF Sound
  <2>2. i < m /\ m <= Len(d) + 1
    <3>1. SUFFICES ASSUME ~(i < m)
                   PROVE  FALSE
      BY <2>1 DEF EndsAt
    <3>2. i \in m .. Len(d)
      BY <3>1, <1>3
    <3> QED
      BY <3>2, <2>1, <1>3, LastIsASlot DEF EndsAt
  <2>3. \A k \in m .. Len(d) : k \in 1 .. Len(d) /\ k \notin from .. i
    BY <2>1, <2>2, <1>2, <1>3 DEF EndsAt
  <2>4. \A k \in 1 .. m - 1 : k \in 1 .. Len(d)
    BY <2>2, <1>1
  <2>5. \A k \in 1 .. m - 1 : b[k].kind # "last"
    <3>1. SUFFICES ASSUME NEW k \in 1 .. m - 1
                   PROVE  b[k].kind # "last"
      OBVIOUS
    <3>2. CASE k \in from .. i
      BY <3>2, <2>4, <1>2
    <3>3. CASE k \notin from .. i
      BY <3>3, <2>1, <2>4, <1>2 DEF EndsAt
    <3> QED
      BY <3>2, <3>3
  <2>6. EndsAt(b, m)
    BY <2>1, <2>3, <2>5, <1>2 DEF EndsAt
  <2> QED
    BY <2>6
<1>9. AliasesApart(b)
  <2>1. \A j \in 1 .. Len(d) : IsAlias(b, j) => IsAlias(d, j) /\ b[j] = d[j]
    <3>1. SUFFICES ASSUME NEW j \in 1 .. Len(d), IsAlias(b, j)
                   PROVE  IsAlias(d, j) /\ b[j] = d[j]
      OBVIOUS
    <3>2. b[j].kind # "free"
      BY <3>1 DEF IsAlias
    <3> QED
      BY <3>1, <3>2, <1>2, <1>6
  <2> QED
    BY <2>1, <1>1, <1>2 DEF AliasesApart
<1>10. \A j \in 1 .. Len(d) : IsAlias(d, j) /\ j # i => b[j] = d[j]
  <2>1. SUFFICES ASSUME NEW j \in 1 .. Len(d), IsAlias(d, j), j # i
                 PROVE  b[j] = d[j]
    OBVIOUS
  <2>2. b[j].kind # "free"
    BY <2>1, <1>6 DEF IsAlias
  <2> QED
    BY <2>2, <1>2
<1>11. \A n \in F \ {e.name, e.alias} : Filed(b, n)
  <2>1. SUFFICES ASSUME NEW n \in F \ {e.name, e.alias}
                 PROVE  Filed(b, n)
    OBVIOUS
  <2>2. PICK j \in 1 .. Len(d) :
            /\ IsAlias(d, j) /\ d[j].start
            /\ IF n \in Short THEN d[j].alias = n ELSE Legible(d, j, n)
    BY <2>1 DEF Sound, Filed
  <2>3. j # i
    BY <2>2, <1>5
  <2>4. IsAlias(b, j) /\ b[j] = d[j]
    BY <2>2, <2>3, <1>6, <1>10
  <2>5. n \notin Short => Legible(b, j, n)
    BY <2>2, <2>3, <1>7
  <2> QED
    BY <2>2, <2>4, <2>5, <1>2 DEF Filed
<1>12. ASSUME ~cut
       PROVE  Whole(b) /\ NamesApart(b)
  <2>1. Whole(d) /\ NamesApart(d)
    BY <1>12 DEF Sound
  <2>2. Whole(b)
    <3>1. SUFFICES ASSUME NEW j \in 1 .. Len(d), IsLfn(b, j)
                   PROVE  \E p \in 1 .. Len(d) :
                            Group(b, p, b[j].name) /\ j \in p - Parts[b[j].name] .. p - 1
      BY <1>2 DEF Whole
    <3>2. b[j].kind # "free"
      BY <3>1 DEF IsLfn
    <3>3. j \notin from .. i /\ b[j] = d[j] /\ IsLfn(d, j)
      BY <3>1, <3>2, <1>2 DEF IsLfn
    <3> DEFINE n == d[j].name
    <3>4. PICK p \in 1 .. Len(d) : Group(d, p, n) /\ j \in p - Parts[n] .. p - 1
      BY <2>1, <3>3 DEF Whole
    <3> HIDE DEF n
    <3>5. p # i
      <4>1. SUFFICES ASSUME p = i
                     PROVE  FALSE
        OBVIOUS
      <4>2. from = i - Parts[n]
        BY <4>1, <3>4, <1>4
      <4> QED
        BY <4>1, <4>2, <3>3, <3>4, <1>2, <1>3
    <3>6. Group(b, p, n)
      BY <3>4, <3>5, <1>7
    <3> QED
      BY <3>3, <3>4, <3>6 DEF n
  <2>3. NamesApart(b)
    <3>1. \A j \in 1 .. Len(d) : \A n : Legible(b, j, n) => Legible(d, j, n)
      <4>1. SUFFICES ASSUME NEW j \in 1 .. Len(d), NEW n, Legible(b, j, n)
                     PROVE  Legible(d, j, n)
        OBVIOUS
      <4>2. j # i
        BY <4>1, <1>6 DEF Legible, Group
      <4> QED
        BY <4>1, <4>2, <1>7
    <3> QED
      BY <3>1, <2>1, <1>2 DEF NamesApart
  <2> QED
    BY <2>2, <2>3
<1>13. KeepsBut(d, b, cut, i)
  <2>1. SUFFICES ASSUME NEW j \in 1 .. Len(d), IsAlias(d, j), j # i
                 PROVE  /\ IsAlias(b, j)
                        /\ SameSlot(EntryAt(d, j), EntryAt(b, j))
                        /\ ~cut => EntryAt(b, j) = EntryAt(d, j)
    BY DEF KeepsBut
  <2>2. IsAlias(b, j) /\ b[j] = d[j]
    BY <2>1, <1>6, <1>10
  <2>3. SameSlot(EntryAt(d, j), EntryAt(b, j))
    BY <2>1, <2>2, <1>1, <1>2, SameSlots
  <2>4. ASSUME ~cut
        PROVE  EntryAt(b, j) = EntryAt(d, j)
    <3>1. Whole(d) /\ Whole(b)
      BY <2>4, <1>12 DEF Sound
    <3>2. \A n : (Group(b, j, n) <=> Group(d, j, n)) /\ (Legible(b, j, n) <=> Legible(d, j, n))
      BY <2>1, <1>7
    <3> QED
      BY <2>1, <2>2, <3>1, <3>2, <1>1, <1>2, EntryStays
  <2> QED
    BY <2>2, <2>3, <2>4
<1> QED
  BY <1>2, <1>8, <1>9, <1>11, <1>12, <1>13 DEF Sound

------------------------------------------------------------------------
(* Room for an entry.                                                      *)

\* A directory that has grown: what it had, and end marks.
LEMMA GrownIs ==
    ASSUME NEW d \in Seq(Slot)
    PROVE  /\ Grown(d) \in Seq(Slot) /\ Len(Grown(d)) = Len(d) + ClusterSlots
           /\ \A k \in 1 .. Len(d) : Grown(d)[k] = d[k]
           /\ \A k \in Len(d) + 1 .. Len(d) + ClusterSlots : Grown(d)[k] = Last
<1> DEFINE t == Blank(ClusterSlots)
<1>1. ClusterSlots \in Nat /\ Len(d) \in Nat
  BY Sizes
<1>2. t \in [1 .. ClusterSlots -> Slot] /\ \A k \in 1 .. ClusterSlots : t[k] = Last
  BY LastIsASlot DEF Blank
<1>3. t \in Seq(Slot) /\ Len(t) = ClusterSlots
  BY <1>1, <1>2
<1> HIDE DEF t
<1> DEFINE b == d \o t
<1>4. b \in Seq(Slot) /\ Len(b) = Len(d) + ClusterSlots
  BY <1>1, <1>3
<1>5. \A k \in 1 .. Len(d) + ClusterSlots : b[k] = IF k <= Len(d) THEN d[k] ELSE t[k - Len(d)]
  BY <1>1, <1>3
<1> HIDE DEF b
<1>6. \A k \in 1 .. Len(d) : b[k] = d[k]
  BY <1>1, <1>5
<1>7. ASSUME NEW k \in Len(d) + 1 .. Len(d) + ClusterSlots
      PROVE  b[k] = Last
  <2>1. k - Len(d) \in 1 .. ClusterSlots /\ k \in 1 .. Len(d) + ClusterSlots /\ ~(k <= Len(d))
    BY <1>1, <1>7
  <2> QED
    BY <2>1, <1>2, <1>5
<1> QED
  BY <1>4, <1>6, <1>7 DEF Grown, b, t

LEMMA GrownIsSound ==
    ASSUME NEW d, NEW F, NEW cut \in BOOLEAN, Sound(d, F, cut), NEW b, b = Grown(d)
    PROVE  /\ Sound(b, F, cut) /\ KeepsBut(d, b, cut, 0)
           /\ \A m : EndsAt(d, m) => EndsAt(b, m)
           /\ \A k : IsAlias(b, k) => IsAlias(d, k) /\ b[k] = d[k]
           /\ \A k, n : Legible(b, k, n) => Legible(d, k, n)
<1>1. d \in Seq(Slot) /\ Len(d) \in Nat /\ AliasesApart(d)
  BY DEF Sound
<1>2. /\ b \in Seq(Slot) /\ Len(b) = Len(d) + ClusterSlots /\ ClusterSlots \in Nat
      /\ \A k \in 1 .. Len(d) : b[k] = d[k]
      /\ \A k \in Len(d) + 1 .. Len(b) : b[k] = Last
  BY <1>1, GrownIs, Sizes
<1>3. \A k \in 1 .. Len(d) : k \in 1 .. Len(b)
  BY <1>1, <1>2
<1>4. \A k \in 1 .. Len(b) : k \in 1 .. Len(d) \/ b[k].kind = "last"
  <2>1. \A k \in 1 .. Len(b) : k \in 1 .. Len(d) \/ k \in Len(d) + 1 .. Len(b)
    BY <1>1, <1>2
  <2> QED
    BY <2>1, <1>2, LastIsASlot
<1>5. \A k : (IsAlias(b, k) <=> IsAlias(d, k)) /\ (IsLfn(b, k) <=> IsLfn(d, k))
  BY <1>2, <1>3, <1>4 DEF IsAlias, IsLfn
<1>6. \A k, n : (Group(b, k, n) <=> Group(d, k, n)) /\ (Legible(b, k, n) <=> Legible(d, k, n))
  <2>1. SUFFICES ASSUME NEW k, NEW n
                 PROVE  (Group(b, k, n) <=> Group(d, k, n)) /\ (Legible(b, k, n) <=> Legible(d, k, n))
    OBVIOUS
  <2>2. ASSUME IsAlias(d, k), n \in Long, k - Parts[n] >= 1
        PROVE  \A j \in k - Parts[n] .. k : b[j] = d[j]
    <3>1. Parts[n] \in Nat /\ k \in 1 .. Len(d)
      BY <2>2, Sizes DEF IsAlias
    <3>2. \A j \in k - Parts[n] .. k : j \in 1 .. Len(d)
      BY <2>2, <3>1, <1>1
    <3> QED
      BY <3>2, <1>2
  <2>3. Group(d, k, n) => Group(b, k, n) /\ (Legible(b, k, n) <=> Legible(d, k, n))
    <3>1. SUFFICES ASSUME Group(d, k, n)
                   PROVE  Group(b, k, n) /\ (Legible(b, k, n) <=> Legible(d, k, n))
      OBVIOUS
    <3>2. IsAlias(d, k) /\ n \in Long /\ k - Parts[n] >= 1 /\ IsAlias(b, k)
      BY <3>1, <1>5 DEF Group
    <3> QED
      BY <3>1, <3>2, <2>2, GroupStays
  <2>4. Group(b, k, n) => Group(d, k, n)
    <3>1. SUFFICES ASSUME Group(b, k, n)
                   PROVE  Group(d, k, n)
      OBVIOUS
    <3>2. IsAlias(b, k) /\ n \in Long /\ k - Parts[n] >= 1 /\ IsAlias(d, k)
      BY <3>1, <1>5 DEF Group
    <3>3. \A j \in k - Parts[n] .. k : d[j] = b[j]
      BY <3>2, <2>2
    <3> QED
      BY <3>1, <3>2, <3>3, GroupStays
  <2> QED
    BY <2>3, <2>4 DEF Legible
<1>7. ASSUME NEW m, EndsAt(d, m)
      PROVE  EndsAt(b, m)
  <2>2. m \in 1 .. Len(b) + 1 /\ \A k \in 1 .. m - 1 : k \in 1 .. Len(d)
    BY <1>7, <1>1, <1>2 DEF EndsAt
  <2>3. \A k \in m .. Len(b) : k \in m .. Len(d) \/ k \in Len(d) + 1 .. Len(b)
    BY <1>7, <1>1, <1>2 DEF EndsAt
  <2>4. \A k \in m .. Len(d) : k \in 1 .. Len(d)
    BY <1>7, <1>1 DEF EndsAt
  <2> QED
    BY <1>7, <2>2, <2>3, <2>4, <1>2 DEF EndsAt
<1>8. AliasesApart(b)
  <2>1. \A k \in 1 .. Len(b) : IsAlias(b, k) => IsAlias(d, k) /\ k \in 1 .. Len(d) /\ b[k] = d[k]
    BY <1>2, <1>5 DEF IsAlias
  <2> QED
    BY <2>1, <1>1 DEF AliasesApart
<1>9. \A n \in F : Filed(b, n)
  <2>1. SUFFICES ASSUME NEW n \in F
                 PROVE  Filed(b, n)
    OBVIOUS
  <2>2. PICK j \in 1 .. Len(d) :
            /\ IsAlias(d, j) /\ d[j].start
            /\ IF n \in Short THEN d[j].alias = n ELSE Legible(d, j, n)
    BY <2>1 DEF Sound, Filed
  <2> QED
    BY <2>2, <1>2, <1>3, <1>5, <1>6 DEF Filed
<1>10. ASSUME ~cut
       PROVE  Whole(b) /\ NamesApart(b)
  <2>1. Whole(d) /\ NamesApart(d)
    BY <1>10 DEF Sound
  <2>2. Whole(b)
    <3>1. SUFFICES ASSUME NEW j \in 1 .. Len(b), IsLfn(b, j)
                   PROVE  \E p \in 1 .. Len(b) :
                            Group(b, p, b[j].name) /\ j \in p - Parts[b[j].name] .. p - 1
      BY DEF Whole
    <3>2. IsLfn(d, j) /\ j \in 1 .. Len(d) /\ b[j] = d[j]
      BY <3>1, <1>2, <1>5 DEF IsLfn
    <3> QED
      BY <3>2, <2>1, <1>3, <1>6 DEF Whole
  <2>3. NamesApart(b)
    <3>1. \A j, n : Legible(b, j, n) => Legible(d, j, n) /\ j \in 1 .. Len(d)
      BY <1>6 DEF Legible, Group, IsAlias
    <3> QED
      BY <3>1, <2>1 DEF NamesApart
  <2> QED
    BY <2>2, <2>3
<1>11. KeepsBut(d, b, cut, 0)
  <2>1. SUFFICES ASSUME NEW j \in 1 .. Len(d), IsAlias(d, j)
                 PROVE  /\ IsAlias(b, j)
                        /\ SameSlot(EntryAt(d, j), EntryAt(b, j))
                        /\ EntryAt(b, j) = EntryAt(d, j)
    BY DEF KeepsBut
  <2>2. IsAlias(b, j) /\ b[j] = d[j]
    BY <2>1, <1>2, <1>5
  <2>3. \A k \in 1 .. j : b[k] = d[k]
    BY <1>1, <1>2
  <2>4. j \in Nat /\ j >= 1
    BY <1>1
  <2>5. EntryAt(b, j) = EntryAt(d, j)
    BY <2>3, <2>4, EntryLooksBack
  <2> QED
    BY <2>2, <2>5 DEF SameSlot
<1>12. Sound(b, F, cut)
  <2>1. \E m \in Nat : EndsAt(b, m)
    BY <1>7 DEF Sound
  <2> QED
    BY <2>1, <1>2, <1>8, <1>9, <1>10 DEF Sound
<1>13. \A k : IsAlias(b, k) => IsAlias(d, k) /\ b[k] = d[k]
  BY <1>2, <1>5 DEF IsAlias
<1> QED
  BY <1>6, <1>7, <1>11, <1>12, <1>13

\* Behind the end mark there is nothing to blank.
LEMMA BlankedIs ==
    ASSUME NEW d \in Seq(Slot), NEW m, EndsAt(d, m), NEW u
    PROVE  [i \in 1 .. Len(d) |-> IF i \in m + 1 .. u THEN Last ELSE d[i]] = d
<1>1. \A i \in 1 .. Len(d) : i \in m + 1 .. u => d[i] = Last
  <2>1. m \in Nat /\ Len(d) \in Nat
    BY DEF EndsAt
  <2>2. \A i \in 1 .. Len(d) : i \in m + 1 .. u => i \in m .. Len(d)
    BY <2>1
  <2> QED
    BY <2>2 DEF EndsAt
<1>2. d = [i \in 1 .. Len(d) |-> d[i]]
  OBVIOUS
<1>3. \A i \in 1 .. Len(d) : (IF i \in m + 1 .. u THEN Last ELSE d[i]) = d[i]
  BY <1>1
<1> QED
  BY <1>2, <1>3

\* Fewer freed slots than are wanted precede the end mark, or the run of them
\* would have fitted.
LEMMA RunIsShort ==
    ASSUME NEW d \in Seq(Slot), NEW m, EndsAt(d, m), NEW size \in Nat, size >= 1,
           Fits(d, size) = {}, NEW r, r = RunBefore(d, m)
    PROVE  r \in Nat /\ r < size
<1> DEFINE S == {0} \cup {j \in 1 .. m - 1 : ~IsFree(d, j)}
           x == Max(S)
<1>1. m \in Nat /\ m >= 1 /\ Len(d) \in Nat /\ m <= Len(d) + 1 /\ EndMark(d) = m
  BY EndMarkIs
<1>2. S \in SUBSET (0 .. m - 1) /\ S # {} /\ m - 1 \in Nat
  BY <1>1
<1>3. x \in S /\ \A j \in S : j <= x
  <2> HIDE DEF S
  <2> QED BY <1>2, MaxIsGreatest
<1>4. x \in Nat /\ x <= m - 1
  <2> HIDE DEF x, S
  <2> QED BY <1>2, <1>3, <1>1
<1>5. r = m - 1 - x
  BY DEF RunBefore
<1>6. \A j \in 1 .. m - 1 : j > x => IsFree(d, j)
  <2>1. SUFFICES ASSUME NEW j \in 1 .. m - 1, j > x, ~IsFree(d, j)
                 PROVE  FALSE
    OBVIOUS
  <2>2. j \in S
    BY <2>1
  <2>3. j <= x
    BY <2>2, <1>3
  <2> HIDE DEF x, S
  <2> QED
    BY <2>1, <2>3, <1>4, <1>1
<1> HIDE DEF x, S
<1>7. r \in Nat
  BY <1>1, <1>4, <1>5
<1>8. ~(r >= size)
  <2>1. SUFFICES ASSUME r >= size
                 PROVE  FALSE
    OBVIOUS
  <2> DEFINE f == m - size
  <2>2. f \in 1 .. f /\ f + size - 1 = m - 1 /\ f > x
    BY <2>1, <1>1, <1>4, <1>5
  <2> HIDE DEF f
  <2>3. \A j \in f .. m - 1 : IsFree(d, j)
    BY <2>2, <1>1, <1>4, <1>6
  <2>4. f \in Fits(d, size)
    <3>1. f \in 1 .. m - size
      BY <2>2 DEF f
    <3>2. \A j \in f .. f + size - 1 : IsFree(d, j)
      BY <2>2, <2>3
    <3> QED
      BY <3>1, <3>2, <1>1 DEF Fits
  <2> QED
    BY <2>4
<1> QED
  BY <1>7, <1>8

\* A gap is a run of freed slots, or begins at the end mark; dataEnd is its
\* last slot or one before.
LEMMA GapIs ==
    ASSUME NEW d \in Seq(Slot), NEW m, EndsAt(d, m), NEW size \in Nat, size >= 1,
           NEW ext, NEW gap, gap = FindEntryGap(d, size, ext),
           NEW first, first = gap.dataStart, NEW p, p = first + size - 1
    PROVE  /\ gap.dir = d \/ gap.dir = Grown(d)
           /\ gap.ok => /\ first \in Nat /\ first >= 1
                        /\ gap.dataEnd \in first .. p
                        /\ \/ /\ p < m /\ gap.dir = d /\ gap.dataEnd = p
                              /\ \A k \in 1 .. Len(d) : k \in first .. p => d[k].kind = "free"
                           \/ first = m
<1>1. m \in Nat /\ m >= 1 /\ Len(d) \in Nat /\ m <= Len(d) + 1 /\ EndMark(d) = m
  BY EndMarkIs
<1>2. CASE Fits(d, size) # {}
  <2> DEFINE f == Min(Fits(d, size))
  <2>1. Fits(d, size) \in SUBSET Nat
    BY <1>1 DEF Fits
  <2>2. f \in Fits(d, size)
    BY <1>2, <2>1, MinIsLeast
  <2>3. gap.ok /\ gap.dir = d /\ gap.dataStart = f /\ gap.dataEnd = f + size - 1
    BY <1>2 DEF FindEntryGap
  <2> HIDE DEF f
  <2>4. f \in 1 .. m - size /\ \A j \in f .. f + size - 1 : IsFree(d, j)
    BY <2>2, <1>1 DEF Fits
  <2>5. f \in Nat /\ f >= 1 /\ f + size - 1 < m /\ f + size - 1 \in f .. f + size - 1
    BY <2>4, <1>1
  <2>6. \A k \in 1 .. Len(d) : k \in f .. f + size - 1 => d[k].kind = "free"
    BY <2>4, <1>1 DEF IsFree, View
  <2> QED
    BY <2>3, <2>5, <2>6
<1>3. CASE Fits(d, size) = {}
  <2> DEFINE r == RunBefore(d, m)
             u == m + size - r
             bl(s) == [i \in 1 .. Len(s) |-> IF i \in m + 1 .. u THEN Last ELSE s[i]]
  <2>1. r \in Nat /\ r < size
    BY <1>3, RunIsShort
  <2>2. bl(d) = d
    BY BlankedIs
  <2>3. bl(Grown(d)) = Grown(d)
    <3>1. /\ Grown(d) \in Seq(Slot) /\ Len(Grown(d)) = Len(d) + ClusterSlots
          /\ \A k \in 1 .. Len(d) : Grown(d)[k] = d[k]
          /\ \A k \in Len(d) + 1 .. Len(d) + ClusterSlots : Grown(d)[k] = Last
          /\ ClusterSlots \in Nat
      BY GrownIs, Sizes
    <3> DEFINE g == Grown(d)
    <3> HIDE DEF g
    <3>2. \A k \in m .. Len(d) + ClusterSlots :
             k \in m .. Len(d) \/ k \in Len(d) + 1 .. Len(d) + ClusterSlots
      BY <1>1, <3>1
    <3>3. \A k \in m .. Len(d) : k \in 1 .. Len(d)
      BY <1>1
    <3>4. \A k \in m .. Len(g) : g[k] = Last
      BY <3>1, <3>2, <3>3 DEF EndsAt, g
    <3>5. m \in 1 .. Len(g) + 1 /\ \A k \in 1 .. m - 1 : k \in 1 .. Len(d)
      BY <1>1, <3>1 DEF g
    <3>6. EndsAt(g, m)
      BY <3>1, <3>4, <3>5 DEF EndsAt, g
    <3> QED
      BY <3>1, <3>6, BlankedIs DEF g
  <2>4. /\ gap.dataStart = m /\ gap.dataEnd = u - 1
        /\ gap.dir = bl(d) \/ gap.dir = bl(Grown(d))
    BY <1>1, <1>3 DEF FindEntryGap, GapStart
  <2>5. u - 1 \in m .. m + size - 1
    <3> HIDE DEF r
    <3> QED BY <1>1, <2>1
  <2> HIDE DEF bl, u, r
  <2> QED
    BY <1>1, <2>2, <2>3, <2>4, <2>5
<1> QED
  BY <1>2, <1>3

------------------------------------------------------------------------
(* Putting an entry in.                                                    *)

\* b is d with the slots of an entry of the name n and the alias a in slots of
\* no use from first on, as far as the directory has them; the alias slot is p.
Put(d, b, n, a, first, p) ==
    /\ b \in Seq(Slot) /\ Len(b) = Len(d)
    /\ first \in Nat /\ first >= 1 /\ p = first + Size(n) - 1
    /\ \A k \in 1 .. Len(d) : k \notin first .. p => b[k] = d[k]
    /\ \A k \in 1 .. Len(d) : k \in first .. p => d[k].kind \in {"free", "last"}
    /\ \A k \in 1 .. Len(d) : k \in first .. p - 1 =>
          /\ b[k].kind = "lfn" /\ b[k].name = n /\ b[k].alias = a
          /\ b[k].top <=> k = first
    /\ p \in 1 .. Len(d) => b[p].kind = "alias" /\ b[p].alias = a

\* The entries of d are not touched, and one may be new.
LEMMA PutGroups ==
    ASSUME NEW d \in Seq(Slot), NEW b, NEW n \in Names, NEW a, NEW first, NEW p,
           Put(d, b, n, a, first, p)
    PROVE  /\ p \in Nat /\ p >= first /\ first \in Nat /\ first >= 1
           /\ \A j \in 1 .. Len(d) : IsAlias(d, j) => IsAlias(b, j) /\ j # p /\ b[j] = d[j]
           /\ \A j \in 1 .. Len(d) : IsAlias(b, j) => IsAlias(d, j) \/ j = p
           /\ \A j \in 1 .. Len(d) : \A x :
                 j # p => /\ Group(b, j, x) <=> Group(d, j, x)
                          /\ Legible(b, j, x) <=> Legible(d, j, x)
           /\ n \in Long /\ p \in 1 .. Len(d) => Group(b, p, n)
<1>1. /\ b \in Seq(Slot) /\ Len(b) = Len(d) /\ Len(d) \in Nat
      /\ first \in Nat /\ first >= 1 /\ p = first + Size(n) - 1
      /\ \A k \in 1 .. Len(d) : k \notin first .. p => b[k] = d[k]
      /\ \A k \in 1 .. Len(d) : k \in first .. p => d[k].kind \in {"free", "last"}
      /\ \A k \in 1 .. Len(d) : k \in first .. p - 1 =>
            /\ b[k].kind = "lfn" /\ b[k].name = n /\ b[k].alias = a
            /\ b[k].top <=> k = first
      /\ p \in 1 .. Len(d) => b[p].kind = "alias" /\ b[p].alias = a
  BY DEF Put
<1>2. Size(n) \in Nat /\ Size(n) >= 1
  BY Sizes
<1>3. p \in Nat /\ p >= first
  BY <1>1, <1>2
<1>4. ASSUME NEW j \in 1 .. Len(d), d[j].kind \notin {"free", "last"}
      PROVE  b[j] = d[j] /\ j # p /\ j \notin first .. p
  BY <1>4, <1>1, <1>3
<1>5. ASSUME NEW j \in 1 .. Len(d), IsAlias(d, j)
      PROVE  IsAlias(b, j) /\ j # p /\ b[j] = d[j]
  <2>1. d[j].kind = "alias"
    BY <1>5 DEF IsAlias
  <2>2. b[j] = d[j] /\ j # p
    BY <1>4, <2>1
  <2> QED
    BY <2>1, <2>2, <1>1 DEF IsAlias
<1>6. ASSUME NEW j \in 1 .. Len(d), IsAlias(b, j), j # p
      PROVE  IsAlias(d, j) /\ j \notin first .. p /\ b[j] = d[j]
  <2>1. b[j].kind = "alias"
    BY <1>6 DEF IsAlias
  <2>2. ~(j \in first .. p - 1)
    BY <2>1, <1>1
  <2>3. j \notin first .. p
    BY <2>2, <1>1, <1>3, <1>6
  <2> QED
    BY <2>1, <2>3, <1>1 DEF IsAlias
<1>7. ASSUME NEW j \in 1 .. Len(d), NEW x, j # p
      PROVE  /\ Group(b, j, x) <=> Group(d, j, x)
             /\ Legible(b, j, x) <=> Legible(d, j, x)
  <2>1. ASSUME Group(d, j, x)
        PROVE  Group(b, j, x) /\ (Legible(b, j, x) <=> Legible(d, j, x))
    <3>1. /\ IsAlias(d, j) /\ x \in Long /\ Parts[x] \in Nat /\ j - Parts[x] >= 1
          /\ d[j].kind = "alias"
          /\ \A k \in j - Parts[x] .. j - 1 : d[k].kind = "lfn"
      BY <2>1, Sizes DEF Group, IsAlias
    <3>2. \A k \in j - Parts[x] .. j :
             k \in 1 .. Len(d) /\ (k = j \/ k \in j - Parts[x] .. j - 1)
      BY <3>1, <1>1
    <3>3. \A k \in j - Parts[x] .. j : b[k] = d[k]
      BY <3>1, <3>2, <1>4
    <3>4. IsAlias(b, j)
      BY <3>1, <1>5
    <3> QED
      BY <2>1, <3>3, <3>4, GroupStays
  <2>2. ASSUME Group(b, j, x)
        PROVE  Group(d, j, x)
    <3>1. /\ IsAlias(b, j) /\ x \in Long /\ Parts[x] \in Nat /\ j - Parts[x] >= 1
          /\ \A k \in j - Parts[x] .. j - 1 : b[k].kind = "lfn"
      BY <2>2, Sizes DEF Group
    <3>2. IsAlias(d, j) /\ j \notin first .. p
      BY <3>1, <1>6, <1>7
    <3>3. ~(j > p /\ p >= j - Parts[x])
      <4>1. SUFFICES ASSUME j > p, p >= j - Parts[x]
                     PROVE  FALSE
        OBVIOUS
      <4>2. p \in j - Parts[x] .. j - 1 /\ p \in 1 .. Len(d)
        BY <4>1, <3>1, <1>1, <1>3
      <4> QED
        BY <4>2, <3>1, <1>1
    <3>4. \A k \in j - Parts[x] .. j : k \in 1 .. Len(d) /\ k \notin first .. p
      BY <3>1, <3>2, <3>3, <1>1, <1>3, <1>7
    <3>5. \A k \in j - Parts[x] .. j : d[k] = b[k]
      BY <3>4, <1>1
    <3> QED
      BY <2>2, <3>2, <3>5, GroupStays
  <2> QED
    BY <2>1, <2>2 DEF Legible
<1>8. ASSUME n \in Long, p \in 1 .. Len(d)
      PROVE  Group(b, p, n)
  <2>1. Parts[n] \in Nat /\ p - Parts[n] = first
    BY <1>1, <1>8, Sizes
  <2>2. \A k \in first .. p - 1 : k \in 1 .. Len(d)
    BY <1>1, <1>8, <1>3
  <2>3. b[p].alias = a /\ IsAlias(b, p)
    BY <1>1, <1>8 DEF IsAlias
  <2> QED
    BY <2>1, <2>2, <2>3, <1>1, <1>8 DEF Group
<1> QED
  BY <1>1, <1>3, <1>5, <1>6, <1>7, <1>8

\* A directory ends where it ended, behind the new entry, or nowhere.
LEMMA PutEnds ==
    ASSUME NEW d \in Seq(Slot), NEW b, NEW n \in Names, NEW a, NEW first, NEW p,
           Put(d, b, n, a, first, p), NEW m \in Nat, EndsAt(d, m), p < m \/ first = m
    PROVE  \E q \in Nat : EndsAt(b, q)
<1>1. /\ Len(b) = Len(d) /\ Len(d) \in Nat
      /\ p \in Nat /\ p >= first /\ first \in Nat /\ first >= 1
      /\ \A k \in 1 .. Len(d) : k \notin first .. p => b[k] = d[k]
      /\ \A k \in 1 .. Len(d) : k \in first .. p - 1 => b[k].kind = "lfn"
      /\ p \in 1 .. Len(d) => b[p].kind = "alias"
  <2>1. /\ Len(b) = Len(d) /\ Len(d) \in Nat
        /\ \A k \in 1 .. Len(d) : k \notin first .. p => b[k] = d[k]
        /\ \A k \in 1 .. Len(d) : k \in first .. p - 1 => b[k].kind = "lfn"
        /\ p \in 1 .. Len(d) => b[p].kind = "alias"
    BY DEF Put
  <2>2. p \in Nat /\ p >= first /\ first \in Nat /\ first >= 1
    BY PutGroups
  <2> QED
    BY <2>1, <2>2
<1>2. /\ m >= 1 /\ m <= Len(d) + 1
      /\ \A i \in 1 .. m - 1 : d[i].kind # "last"
      /\ \A i \in m .. Len(d) : d[i] = Last
  BY <1>1 DEF EndsAt
<1>3. \A k \in 1 .. Len(d) : k \in first .. p => b[k].kind # "last"
  <2>1. SUFFICES ASSUME NEW k \in 1 .. Len(d), k \in first .. p
                 PROVE  b[k].kind # "last"
    OBVIOUS
  <2>2. k = p \/ k \in first .. p - 1
    BY <2>1, <1>1
  <2> QED
    BY <2>1, <2>2, <1>1
<1>4. \A k \in 1 .. m - 1 : k \in 1 .. Len(d) /\ b[k].kind # "last"
  <2>1. \A k \in 1 .. m - 1 : k \in 1 .. Len(d)
    BY <1>1, <1>2
  <2> QED
    BY <2>1, <1>1, <1>2, <1>3
<1>5. CASE p < m
  <2>1. \A k \in m .. Len(d) : k \in 1 .. Len(d) /\ k \notin first .. p
    BY <1>5, <1>1, <1>2
  <2>2. EndsAt(b, m)
    BY <2>1, <1>1, <1>2, <1>4 DEF EndsAt
  <2> QED
    BY <2>2
<1>6. CASE first = m /\ p <= Len(d)
  <2>1. \A k \in p + 1 .. Len(d) : k \in 1 .. Len(d) /\ k \notin first .. p /\ k \in m .. Len(d)
    BY <1>6, <1>1, <1>2
  <2>2. \A k \in p + 1 .. Len(d) : b[k] = Last
    BY <2>1, <1>1, <1>2
  <2>3. \A k \in 1 .. p : k \in 1 .. Len(d) /\ (k \in 1 .. m - 1 \/ k \in first .. p)
    BY <1>6, <1>1, <1>2
  <2>4. \A k \in 1 .. p : b[k].kind # "last"
    BY <2>3, <1>3, <1>4
  <2>5. p + 1 \in 1 .. Len(b) + 1 /\ p + 1 \in Nat /\ (p + 1) - 1 = p
    BY <1>6, <1>1
  <2>6. EndsAt(b, p + 1)
    BY <2>2, <2>4, <2>5, <1>1 DEF EndsAt
  <2> QED
    BY <2>5, <2>6
<1>7. CASE first = m /\ ~(p <= Len(d))
  <2> DEFINE q == Len(d) + 1
  <2>1. \A k \in 1 .. Len(d) : k \in 1 .. m - 1 \/ k \in first .. p
    BY <1>7, <1>1, <1>2
  <2>2. \A k \in 1 .. Len(d) : b[k].kind # "last"
    BY <2>1, <1>3, <1>4
  <2>3. q \in Nat /\ q \in 1 .. Len(b) + 1 /\ q - 1 = Len(d) /\ \A k \in q .. Len(b) : FALSE
    BY <1>1
  <2> HIDE DEF q
  <2>4. EndsAt(b, q)
    BY <2>2, <2>3 DEF EndsAt
  <2> QED
    BY <2>3, <2>4
<1> QED
  BY <1>5, <1>6, <1>7

\* A directory is as sound as it was when an entry is put in whose name and
\* alias it does not have; when the entry is cut off, no more is known of long
\* names.  All other entries are still there.
LEMMA PutIsSound ==
    ASSUME NEW d, NEW F, NEW cut \in BOOLEAN, Sound(d, F, cut),
           NEW b, NEW n \in Names, NEW a, NEW first, NEW p, Put(d, b, n, a, first, p),
           NEW m \in Nat, EndsAt(d, m), p < m \/ first = m,
           Untaken(d, a),
           \A i \in 1 .. Len(d) : ~Legible(d, i, n),
           NEW now \in BOOLEAN, now <=> (cut \/ p > Len(d))
    PROVE  Sound(b, F, now) /\ KeepsBut(d, b, cut, 0)
<1>1. d \in Seq(Slot) /\ Len(d) \in Nat /\ AliasesApart(d)
  BY DEF Sound
<1>2. /\ b \in Seq(Slot) /\ Len(b) = Len(d)
      /\ \A k \in 1 .. Len(d) : k \notin first .. p => b[k] = d[k]
      /\ \A k \in 1 .. Len(d) : k \in first .. p => d[k].kind \in {"free", "last"}
      /\ \A k \in 1 .. Len(d) : k \in first .. p - 1 =>
            /\ b[k].kind = "lfn" /\ b[k].name = n /\ b[k].alias = a
      /\ p \in 1 .. Len(d) => b[p].kind = "alias" /\ b[p].alias = a
      /\ p = first + Size(n) - 1
  BY DEF Put
<1>3. /\ p \in Nat /\ p >= first /\ first \in Nat /\ first >= 1
      /\ \A j \in 1 .. Len(d) : IsAlias(d, j) => IsAlias(b, j) /\ j # p /\ b[j] = d[j]
      /\ \A j \in 1 .. Len(d) : IsAlias(b, j) => IsAlias(d, j) \/ j = p
      /\ \A j \in 1 .. Len(d) : \A x :
            j # p => /\ Group(b, j, x) <=> Group(d, j, x)
                     /\ Legible(b, j, x) <=> Legible(d, j, x)
      /\ n \in Long /\ p \in 1 .. Len(d) => Group(b, p, n)
  BY <1>1, PutGroups
<1>4. \E q \in Nat : EndsAt(b, q)
  BY <1>1, PutEnds
<1>5. AliasesApart(b)
  <2>1. SUFFICES ASSUME NEW i \in 1 .. Len(d), NEW j \in 1 .. Len(d),
                        IsAlias(b, i), IsAlias(b, j), b[i].alias = b[j].alias,
                        b[i].alias \notin DOMAIN Cut
                 PROVE  i = j
    BY <1>2 DEF AliasesApart
  <2>2. \A k \in 1 .. Len(d) :
            IsAlias(d, k) => /\ b[k].alias = d[k].alias
                             /\ b[k].alias \notin DOMAIN Cut => b[k].alias # a
    BY <1>3 DEF Untaken
  <2>3. p \in 1 .. Len(d) => b[p].alias = a
    BY <1>2
  <2>4. (IsAlias(d, i) \/ i = p) /\ (IsAlias(d, j) \/ j = p)
    BY <2>1, <1>3
  <2> QED
    BY <2>1, <2>2, <2>3, <2>4, <1>1 DEF AliasesApart
<1>6. \A x \in F : Filed(b, x)
  <2>1. SUFFICES ASSUME NEW x \in F
                 PROVE  Filed(b, x)
    OBVIOUS
  <2>2. PICK j \in 1 .. Len(d) :
            /\ IsAlias(d, j) /\ d[j].start
            /\ IF x \in Short THEN d[j].alias = x ELSE Legible(d, j, x)
    BY <2>1 DEF Sound, Filed
  <2> QED
    BY <2>2, <1>2, <1>3 DEF Filed
<1>7. ASSUME ~now
      PROVE  Whole(d) /\ NamesApart(d) /\ p \in 1 .. Len(d)
  BY <1>7, <1>1, <1>3 DEF Sound
<1>8. ASSUME ~now
      PROVE  Whole(b)
  <2>1. SUFFICES ASSUME NEW j \in 1 .. Len(d), IsLfn(b, j)
                 PROVE  \E i \in 1 .. Len(d) :
                          Group(b, i, b[j].name) /\ j \in i - Parts[b[j].name] .. i - 1
    BY <1>2 DEF Whole
  <2>2. b[j].kind = "lfn" /\ p \in 1 .. Len(d) /\ j # p
    BY <2>1, <1>2, <1>7, <1>8 DEF IsLfn
  <2>3. CASE j \in first .. p
    <3>1. j \in first .. p - 1
      BY <2>2, <2>3, <1>1, <1>3
    <3>2. b[j].name = n
      BY <3>1, <1>2
    <3>3. Size(n) > 1
      BY <3>1, <1>2, <1>3, Sizes
    <3>4. n \in Long /\ Parts[n] \in Nat /\ Size(n) = Parts[n] + 1
      BY <3>3, Sizes
    <3>5. p - Parts[n] = first
      BY <3>4, <1>2, <1>3
    <3> QED
      BY <2>2, <3>1, <3>2, <3>4, <3>5, <1>3
  <2>4. CASE j \notin first .. p
    <3>1. b[j] = d[j] /\ IsLfn(d, j)
      BY <2>2, <2>4, <1>2 DEF IsLfn
    <3> DEFINE x == d[j].name
    <3>2. PICK i \in 1 .. Len(d) : Group(d, i, x) /\ j \in i - Parts[x] .. i - 1
      BY <3>1, <1>7, <1>8 DEF Whole
    <3> HIDE DEF x
    <3>3. i # p
      BY <3>2, <1>3 DEF Group
    <3>4. Group(b, i, x)
      BY <3>2, <3>3, <1>3
    <3> QED
      BY <3>1, <3>2, <3>4 DEF x
  <2> QED
    BY <2>3, <2>4
<1>9. ASSUME ~now
      PROVE  NamesApart(b)
  \* The new entry has no long name but its own.
  <2>1. ASSUME NEW x, Legible(b, p, x)
        PROVE  x = n
    <3>1. /\ x \in Long /\ Parts[x] \in Nat /\ Parts[x] >= 1 /\ p - Parts[x] >= 1
          /\ \A k \in p - Parts[x] .. p - 1 : b[k].kind = "lfn" /\ b[k].name = x
      BY <2>1, Sizes DEF Legible, Group
    <3>2. p \in 1 .. Len(d)
      BY <1>7, <1>9
    <3> DEFINE o == p - 1
    <3>3. o \in p - Parts[x] .. p - 1 /\ o \in 1 .. Len(d) /\ o < p
      BY <3>1, <3>2, <1>1, <1>3
    <3> HIDE DEF o
    <3>4. IsLfn(b, o) /\ b[o].name = x
      BY <3>1, <3>3, <1>2 DEF IsLfn
    <3>5. CASE o \in first .. p - 1
      BY <3>3, <3>4, <3>5, <1>2
    <3>6. CASE o \notin first .. p - 1
      <4>1. o \notin first .. p
        BY <3>3, <3>6, <1>3
      <4>2. IsLfn(d, o) /\ d[o].name = x
        BY <4>1, <3>3, <3>4, <1>2 DEF IsLfn
      <4>3. PICK i \in 1 .. Len(d) : Group(d, i, x) /\ o \in i - Parts[x] .. i - 1
        BY <4>2, <3>3, <1>7, <1>9 DEF Whole
      <4>4. i # p /\ \A k \in i - Parts[x] .. i - 1 : d[k].kind = "lfn"
        BY <4>3, <1>3 DEF Group
      <4>5. p \in i - Parts[x] .. i - 1
        BY <4>3, <4>4, <3>1, <3>3, <1>3 DEF o
      <4>6. d[p].kind = "lfn" /\ p \in first .. p
        BY <4>4, <4>5, <1>3
      <4> QED
        BY <4>6, <3>2, <1>2
    <3> QED
      BY <3>5, <3>6
  <2>2. \A i, j \in 1 .. Len(d) : \A x \in Long :
           Legible(b, i, x) /\ Legible(b, j, x) => i = j
    <3>1. SUFFICES ASSUME NEW i \in 1 .. Len(d), NEW j \in 1 .. Len(d), NEW x \in Long,
                          Legible(b, i, x), Legible(b, j, x), i # j
                   PROVE  FALSE
      OBVIOUS
    <3>2. CASE i = p
      BY <3>1, <3>2, <2>1, <1>3
    <3>3. CASE j = p
      BY <3>1, <3>3, <2>1, <1>3
    <3>4. CASE i # p /\ j # p
      BY <3>1, <3>4, <1>3, <1>7, <1>9 DEF NamesApart
    <3> QED
      BY <3>2, <3>3, <3>4
  <2> QED
    BY <2>2, <1>2 DEF NamesApart
<1>10. KeepsBut(d, b, cut, 0)
  <2>1. SUFFICES ASSUME NEW j \in 1 .. Len(d), IsAlias(d, j)
                 PROVE  /\ IsAlias(b, j)
                        /\ SameSlot(EntryAt(d, j), EntryAt(b, j))
                        /\ ~cut => EntryAt(b, j) = EntryAt(d, j)
    BY DEF KeepsBut
  <2>2. IsAlias(b, j) /\ b[j] = d[j] /\ j # p
    BY <2>1, <1>3
  <2>3. SameSlot(EntryAt(d, j), EntryAt(b, j))
    BY <2>1, <2>2, <1>1, <1>2, SameSlots
  <2>4. ASSUME ~now
        PROVE  EntryAt(b, j) = EntryAt(d, j)
    <3>1. Whole(d) /\ Whole(b)
      BY <2>4, <1>7, <1>8
    <3>2. \A x : (Group(b, j, x) <=> Group(d, j, x)) /\ (Legible(b, j, x) <=> Legible(d, j, x))
      BY <2>2, <1>3
    <3> QED
      BY <2>1, <2>2, <3>1, <3>2, <1>1, <1>2, EntryStays
  \* A cut off entry lies behind all others.
  <2>5. ASSUME p > Len(d)
        PROVE  EntryAt(b, j) = EntryAt(d, j)
    <3>1. m <= Len(d) + 1 /\ first = m
      BY <2>5, <1>1, <1>3 DEF EndsAt
    <3>2. j < m
      <4>1. SUFFICES ASSUME ~(j < m)
                     PROVE  FALSE
        OBVIOUS
      <4>2. j \in m .. Len(d)
        BY <4>1, <1>1
      <4> QED
        BY <4>2, <2>1, LastIsASlot DEF EndsAt, IsAlias
    <3>3. \A k \in 1 .. j : k \in 1 .. Len(d) /\ k \notin first .. p
      BY <3>1, <3>2, <1>1, <1>3
    <3>4. \A k \in 1 .. j : b[k] = d[k]
      BY <3>3, <1>2
    <3> QED
      BY <3>4, <1>1, EntryLooksBack
  <2> QED
    BY <2>2, <2>3, <2>4, <2>5
<1> QED
  BY <1>2, <1>4, <1>5, <1>6, <1>8, <1>9, <1>10 DEF Sound

\* What is kept from d to g and from there to b is kept from d to b.
LEMMA KeepsOn ==
    ASSUME NEW d, NEW g, NEW b, NEW cut \in BOOLEAN, NEW i,
           KeepsBut(d, g, cut, i), KeepsBut(g, b, cut, 0)
    PROVE  KeepsBut(d, b, cut, i)
<1>1. SUFFICES ASSUME NEW j \in 1 .. Len(d), IsAlias(d, j), j # i
               PROVE  /\ IsAlias(b, j)
                      /\ SameSlot(EntryAt(d, j), EntryAt(b, j))
                      /\ ~cut => EntryAt(b, j) = EntryAt(d, j)
  BY DEF KeepsBut
<1>2. /\ IsAlias(g, j)
      /\ SameSlot(EntryAt(d, j), EntryAt(g, j))
      /\ ~cut => EntryAt(g, j) = EntryAt(d, j)
  BY <1>1 DEF KeepsBut
<1>3. j \in 1 .. Len(g) /\ j # 0
  BY <1>1, <1>2 DEF IsAlias
<1>4. /\ IsAlias(b, j)
      /\ SameSlot(EntryAt(g, j), EntryAt(b, j))
      /\ ~cut => EntryAt(b, j) = EntryAt(g, j)
  BY <1>2, <1>3 DEF KeepsBut
<1> QED
  BY <1>2, <1>4 DEF SameSlot

\* A name that is not found is neither what is read of an alias nor the long
\* name of an entry.
LEMMA NotThere ==
    ASSUME NEW d \in Seq(Slot), NEW m, EndsAt(d, m), NEW n, ~Exists(d, n)
    PROVE  /\ \A i : IsAlias(d, i) => EntryGetAlias(d[i].alias) # n
           /\ \A i : ~Legible(d, i, n)
<1>1. \A i : IsAlias(d, i) => /\ EntryGetAlias(EntryAt(d, i).alias) # n
                              /\ EntryAt(d, i).name # n
  BY AliasAtIs DEF Exists, Matches, Listing
<1>2. \A i : IsAlias(d, i) => EntryAt(d, i).alias = d[i].alias
  BY EntryIs
<1>3. \A i : Legible(d, i, n) => IsAlias(d, i) /\ EntryAt(d, i).name = n
  BY GroupIsTheName DEF Legible, Group
<1> QED
  BY <1>1, <1>2, <1>3

\* The alias an entry gets is one that is not found.
LEMMA AliasIsFree ==
    ASSUME NEW d, NEW n \in Names, ~Exists(d, n), n \in Long => FreeTails(d, n) # {},
           NEW a, a = AliasFor(d, n)
    PROVE  a \in Aliases /\ ~Exists(d, a) /\ (n \in Short => a = n)
<1>1. CASE n \in Short
  BY <1>1 DEF AliasFor, Aliases
<1>2. CASE n \notin Short
  <2>1. n \in Long /\ Tails[n] \in Seq(STRING)
    BY <1>2, NamesAssumption DEF Names
  <2> DEFINE i == Min(FreeTails(d, n))
  <2>2. FreeTails(d, n) \in SUBSET Nat
    BY <2>1 DEF FreeTails
  <2>3. i \in FreeTails(d, n)
    BY <2>1, <2>2, MinIsLeast
  <2>4. i \in 1 .. Len(Tails[n]) /\ ~Exists(d, Tails[n][i]) /\ a = Tails[n][i]
    BY <2>3, <1>2 DEF FreeTails, AliasFor
  <2> HIDE DEF i
  <2>5. a \in TailsOf(n)
    BY <2>4 DEF TailsOf
  <2> QED
    BY <2>1, <2>4, <2>5, <1>2 DEF Aliases
<1> QED
  BY <1>1, <1>2

\* addEntry puts an entry in.
LEMMA WriteIs ==
    ASSUME NEW d \in Seq(Slot), NEW n \in Names, NEW a \in Aliases, NEW dir \in BOOLEAN,
           NEW first \in Nat, first >= 1, NEW p, p = first + Size(n) - 1,
           \A k \in 1 .. Len(d) : k \in first .. p => d[k].kind \in {"free", "last"},
           NEW b, b = WriteEntry(d, n, a, dir, first)
    PROVE  /\ Put(d, b, n, a, first, p)
           /\ \A k \in 1 .. Len(d) : k \in first .. p - 1 => ~b[k].garbled
           /\ p \in 1 .. Len(d) => b[p].start = dir
<1>1. Size(n) \in Nat /\ Size(n) >= 1 /\ Len(d) \in Nat
  BY Sizes
<1>2. p \in Nat /\ p >= first
  BY <1>1
<1>3. b = [k \in 1 .. Len(d) |->
             IF k \in first .. p - 1 THEN LfnSlot(n, a, k = first)
             ELSE IF k = p THEN AliasSlot(a, dir, dir)
             ELSE d[k]]
  BY DEF WriteEntry
<1>4. ASSUME NEW k \in 1 .. Len(d)
      PROVE  /\ b[k] \in Slot
             /\ k \notin first .. p => b[k] = d[k]
             /\ k \in first .. p - 1 => b[k] = LfnSlot(n, a, k = first)
             /\ k = p => b[k] = AliasSlot(a, dir, dir)
  <2>1. CASE k \in first .. p - 1
    <3>1. Size(n) > 1
      BY <2>1, <1>1, <1>2
    <3>2. n \in Long
      BY <3>1, Sizes
    <3>3. b[k] = LfnSlot(n, a, k = first) /\ k # p /\ k \in first .. p
      BY <2>1, <1>2, <1>3
    <3> QED
      BY <2>1, <3>2, <3>3, NewSlots
  <2>2. CASE k = p
    <3>1. b[k] = AliasSlot(a, dir, dir) /\ k \notin first .. p - 1 /\ k \in first .. p
      BY <2>2, <1>2, <1>3
    <3> QED
      BY <3>1, NewSlots
  <2>3. CASE k \notin first .. p - 1 /\ k # p
    BY <2>3, <1>3, <1>2
  <2> QED
    BY <2>1, <2>2, <2>3
<1>5. b \in Seq(Slot) /\ Len(b) = Len(d)
  <2>1. DOMAIN b = 1 .. Len(d) /\ b = [k \in 1 .. Len(d) |-> b[k]]
    BY <1>3
  <2>2. b \in [1 .. Len(d) -> Slot]
    BY <2>1, <1>4
  <2> QED
    BY <2>2, <1>1
<1>6. \A k \in 1 .. Len(d) : k \in first .. p - 1 =>
        /\ b[k].kind = "lfn" /\ b[k].name = n /\ b[k].alias = a
        /\ (b[k].top <=> k = first) /\ ~b[k].garbled
  <2>1. \A t \in BOOLEAN :
          LET s == LfnSlot(n, a, t)
          IN  s.kind = "lfn" /\ s.name = n /\ s.alias = a /\ s.top = t /\ ~s.garbled
    BY DEF LfnSlot
  <2>2. SUFFICES ASSUME NEW k \in 1 .. Len(d), k \in first .. p - 1
                 PROVE  /\ b[k].kind = "lfn" /\ b[k].name = n /\ b[k].alias = a
                        /\ (b[k].top <=> k = first) /\ ~b[k].garbled
    OBVIOUS
  <2> DEFINE t == k = first
  <2>3. b[k] = LfnSlot(n, a, t) /\ t \in BOOLEAN
    BY <2>2, <1>4
  <2> HIDE DEF t
  <2>4. b[k].kind = "lfn" /\ b[k].name = n /\ b[k].alias = a /\ b[k].top = t /\ ~b[k].garbled
    BY <2>1, <2>3
  <2> QED
    BY <2>4 DEF t
<1>7. p \in 1 .. Len(d) => b[p].kind = "alias" /\ b[p].alias = a /\ b[p].start = dir
  BY <1>4 DEF AliasSlot
<1> QED
  BY <1>4, <1>5, <1>6, <1>7 DEF Put

\* FileClose changes no more of the entry than its start cluster, or what the
\* name says.
LEMMA CloseIs ==
    ASSUME NEW d \in Seq(Slot), NEW n \in Names, NEW a, NEW first, NEW p, NEW b,
           Put(d, b, n, a, first, p), NEW i \in first .. p, NEW g \in BOOLEAN,
           NEW c, c = FileClose(b, i, g)
    PROVE  Put(d, c, n, a, first, p)
<1>1. p \in Nat /\ p >= first /\ first \in Nat /\ first >= 1
  BY PutGroups
<1>2. /\ b \in Seq(Slot) /\ Len(b) = Len(d) /\ Len(d) \in Nat
      /\ p = first + Size(n) - 1
      /\ \A k \in 1 .. Len(d) : k \notin first .. p => b[k] = d[k]
      /\ \A k \in 1 .. Len(d) : k \in first .. p => d[k].kind \in {"free", "last"}
  BY DEF Put
<1>3. \A k \in 1 .. Len(d) : k \in first .. p - 1 =>
          /\ b[k].kind = "lfn" /\ b[k].name = n /\ b[k].alias = a
          /\ b[k].top <=> k = first
  BY DEF Put
<1>4. p \in 1 .. Len(d) => b[p].kind = "alias" /\ b[p].alias = a
  BY DEF Put
<1>5. CASE i > Len(d)
  <2>1. c = b
    BY <1>2, <1>5 DEF FileClose
  <2> QED
    BY <2>1, <1>5, <1>1
<1>6. CASE i = p /\ i <= Len(d)
  <2>1. p \in 1 .. Len(d) /\ b[p] \in Slot /\ b[p].kind = "alias"
    BY <1>6, <1>1, <1>2, <1>4
  <2> DEFINE s == [b[p] EXCEPT !.start = TRUE]
  <2>2. c = [b EXCEPT ![p] = s]
    BY <2>1, <1>2, <1>6 DEF FileClose
  <2>3. s \in Slot /\ s.kind = "alias" /\ s.alias = b[p].alias /\ s.start = TRUE
    <3>1. b[p] \in [kind : {"alias"}, alias : Aliases, dir : BOOLEAN, start : BOOLEAN]
      BY <2>1 DEF Slot, Last, Vol
    <3>2. s \in [kind : {"alias"}, alias : Aliases, dir : BOOLEAN, start : BOOLEAN]
      BY <3>1
    <3>3. s.alias = b[p].alias /\ s.start = TRUE
      BY <3>1
    <3> QED
      BY <3>2, <3>3 DEF Slot
  <2> HIDE DEF s
  <2>4. c[p] = s /\ (\A k \in 1 .. Len(d) : k # p => c[k] = b[k])
        /\ c \in Seq(Slot) /\ Len(c) = Len(d)
    BY <2>1, <2>2, <2>3, <1>2
  <2>5. \A k \in 1 .. Len(d) : k \in first .. p - 1 => c[k] = b[k]
    BY <2>4, <1>1
  <2>6. \A k \in 1 .. Len(d) : k \notin first .. p => c[k] = d[k]
    BY <2>4, <1>1, <1>2
  <2>7. Put(d, c, n, a, first, p)
    BY <2>3, <2>4, <2>5, <2>6, <1>1, <1>2, <1>3, <1>4 DEF Put
  <2> QED
    BY <2>3, <2>4, <2>7
<1>7. CASE i # p /\ i <= Len(d)
  <2>1. i \in 1 .. Len(d) /\ i \in first .. p - 1
    BY <1>7, <1>1
  <2>2. b[i] \in Slot /\ b[i].kind = "lfn"
    BY <2>1, <1>2, <1>3
  <2> DEFINE s == [b[i] EXCEPT !.garbled = @ \/ g]
  <2>3. c = [b EXCEPT ![i] = s]
    BY <2>1, <2>2, <1>2 DEF FileClose
  <2>4. s \in Slot /\ s.kind = "lfn" /\ s.alias = b[i].alias /\ s.name = b[i].name
        /\ s.top = b[i].top
    BY <2>2 DEF Slot, Last, Vol
  <2> HIDE DEF s
  <2>5. c[i] = s /\ (\A k \in 1 .. Len(d) : k # i => c[k] = b[k])
        /\ c \in Seq(Slot) /\ Len(c) = Len(d)
    BY <2>1, <2>3, <2>4, <1>2
  <2>6. \A k \in 1 .. Len(d) : k \in first .. p - 1 =>
          /\ c[k].kind = "lfn" /\ c[k].name = n /\ c[k].alias = a
          /\ c[k].top <=> k = first
    BY <2>4, <2>5, <1>3
  <2>7. \A k \in 1 .. Len(d) : k \notin first .. p => c[k] = d[k]
    BY <2>1, <2>5, <1>1, <1>2
  <2>8. p \in 1 .. Len(d) => c[p] = b[p]
    BY <2>5, <1>7
  <2> QED
    BY <2>5, <2>6, <2>7, <2>8, <1>1, <1>2, <1>4, <1>7 DEF Put
<1>8. i > Len(d) \/ (i = p /\ i <= Len(d)) \/ (i # p /\ i <= Len(d))
  <2>1. i \in Int /\ Len(d) \in Int
    BY <1>1, <1>2
  <2> QED
    BY <2>1
<1> QED
  BY <1>5, <1>6, <1>7, <1>8

\* Where dataEnd points to the alias slot, that is given its start cluster.
LEMMA CloseAtAlias ==
    ASSUME NEW b \in Seq(Slot), NEW p \in 1 .. Len(b), b[p].kind = "alias",
           NEW g \in BOOLEAN, NEW c, c = FileClose(b, p, g)
    PROVE  c[p].start = TRUE
<1>1. b[p] \in Slot /\ Len(b) \in Nat
  OBVIOUS
<1>2. b[p] \in [kind : {"alias"}, alias : Aliases, dir : BOOLEAN, start : BOOLEAN]
  BY <1>1 DEF Slot, Last, Vol
<1> DEFINE s == [b[p] EXCEPT !.start = TRUE]
<1>3. s.start = TRUE
  BY <1>2
<1>4. c = [b EXCEPT ![p] = s]
  BY <1>1 DEF FileClose
<1> HIDE DEF s
<1> QED
  BY <1>1, <1>3, <1>4

\* Adding an entry keeps a directory sound and takes no entry away; the entry is
\* filed if it is not cut off and its alias slot is given its start cluster, by
\* FileMakeDir beforehand or by FileClose where dataEnd points to it.
LEMMA AddedIs ==
    ASSUME NEW d, NEW F, NEW cut \in BOOLEAN, Sound(d, F, cut),
           NEW n \in Names, NEW dir \in BOOLEAN, NEW ext,
           NEW add, add = AddEntry(d, n, dir, ext),
           NEW s, s \in Closed(add) \/ s = add.dir
    PROVE  /\ Sound(s, F, cut \/ Lost(add)) /\ KeepsBut(d, s, cut, 0)
           /\ (/\ add.ok /\ ~Lost(add)
               /\ \/ dir /\ s = add.dir
                  \/ s \in Closed(add) /\ add.alias = add.dataEnd)
              => Filed(s, n)
<1> DEFINE a == AliasFor(d, n)
           gap == FindEntryGap(d, Size(n), ext)
           first == gap.dataStart
           p == first + Size(n) - 1
           g == gap.dir
           w == WriteEntry(g, n, a, dir, first)
<1>1. d \in Seq(Slot) /\ Size(n) \in Nat /\ Size(n) >= 1
  BY Sizes DEF Sound
<1>2. PICK m \in Nat : EndsAt(d, m)
  BY DEF Sound
<1>3. KeepsBut(d, d, cut, 0)
  BY DEF KeepsBut, SameSlot
<1>4. /\ g = d \/ g = Grown(d)
      /\ gap.ok => /\ first \in Nat /\ first >= 1 /\ gap.dataEnd \in first .. p
                   /\ \/ /\ p < m /\ g = d
                         /\ \A k \in 1 .. Len(d) : k \in first .. p => d[k].kind = "free"
                      \/ first = m
  BY <1>1, <1>2, GapIs
<1>5. /\ Sound(g, F, cut) /\ KeepsBut(d, g, cut, 0) /\ EndsAt(g, m)
      /\ \A k : IsAlias(g, k) => IsAlias(d, k) /\ g[k] = d[k]
      /\ \A k : Legible(g, k, n) => Legible(d, k, n)
  <2> HIDE DEF gap
  <2>1. CASE g = d
    BY <2>1, <1>2, <1>3
  <2>2. CASE g = Grown(d)
    <3>1. /\ Sound(Grown(d), F, cut) /\ KeepsBut(d, Grown(d), cut, 0)
          /\ EndsAt(Grown(d), m)
          /\ \A k : IsAlias(Grown(d), k) => IsAlias(d, k) /\ Grown(d)[k] = d[k]
          /\ \A k : Legible(Grown(d), k, n) => Legible(d, k, n)
      BY <1>2, GrownIsSound
    <3> QED
      BY <2>2, <3>1
  <2> QED
    BY <2>1, <2>2, <1>4
<1>6. CASE Exists(d, n) \/ (n \in Long /\ FreeTails(d, n) = {})
  <2>1. add.ok = FALSE /\ add.dir = d
    BY <1>6 DEF AddEntry
  <2>2. s = d /\ Lost(add) = FALSE
    BY <2>1 DEF Closed, Lost
  <2> QED
    BY <2>1, <2>2, <1>3
<1>7. CASE ~(Exists(d, n) \/ (n \in Long /\ FreeTails(d, n) = {})) /\ ~gap.ok
  <2>1. add.ok = FALSE /\ add.dir = g
    BY <1>7 DEF AddEntry
  <2> HIDE DEF gap
  <2>2. s = g /\ Lost(add) = FALSE
    BY <2>1 DEF Closed, Lost
  <2> QED
    BY <2>1, <2>2, <1>5
<1>8. CASE ~(Exists(d, n) \/ (n \in Long /\ FreeTails(d, n) = {})) /\ gap.ok
  <2>1. /\ add.ok = TRUE /\ add.dir = w /\ add.alias = p /\ add.dataEnd = gap.dataEnd
    BY <1>8 DEF AddEntry
  <2> DEFINE i == gap.dataEnd
  <2> HIDE DEF gap
  <2>2. a \in Aliases /\ ~Exists(d, a) /\ (n \in Short => a = n)
    BY <1>8, AliasIsFree
  <2> HIDE DEF a
  <2>3. /\ Untaken(g, a)
        /\ \A k \in 1 .. Len(g) : ~Legible(g, k, n)
    <3>1. /\ \A k : IsAlias(d, k) => EntryGetAlias(d[k].alias) # a
          /\ \A k : ~Legible(d, k, n)
      BY <1>1, <1>2, <1>8, <2>2, NotThere
    <3>2. \A k : IsAlias(d, k) /\ d[k].alias \notin DOMAIN Cut => d[k].alias # a
      BY <3>1 DEF EntryGetAlias
    <3> QED
      BY <3>1, <3>2, <1>5 DEF Untaken
  <2>4. /\ first \in Nat /\ first >= 1 /\ i \in first .. p
        /\ \/ /\ p < m /\ g = d
              /\ \A k \in 1 .. Len(d) : k \in first .. p => d[k].kind = "free"
           \/ first = m
    BY <1>4, <1>8
  <2>5. g \in Seq(Slot) /\ Len(g) \in Nat
    BY <1>5 DEF Sound
  <2> HIDE DEF g, i, first
  <2>6. \A k \in 1 .. Len(g) : k \in first .. p => g[k].kind \in {"free", "last"}
    <3>1. CASE first = m
      <4>1. \A k \in 1 .. Len(g) : k \in first .. p => k \in m .. Len(g)
        BY <3>1, <2>4, <2>5
      <4> QED
        BY <4>1, <1>5, LastIsASlot DEF EndsAt
    <3>2. CASE first # m
      BY <3>2, <2>4
    <3> QED
      BY <3>1, <3>2
  <2>7. /\ Put(g, w, n, a, first, p)
        /\ \A k \in 1 .. Len(g) : k \in first .. p - 1 => ~w[k].garbled
        /\ p \in 1 .. Len(g) => w[p].start = dir
    BY <2>2, <2>4, <2>5, <2>6, WriteIs
  <2> HIDE DEF w
  <2>8. p \in Nat /\ p >= first
    BY <2>4, <1>1
  <2> HIDE DEF p
  <2>9. Len(w) = Len(g) /\ (Lost(add) <=> p > Len(g)) /\ Lost(add) \in BOOLEAN
    BY <2>1, <2>7 DEF Put, Lost
  <2>10. s = w \/ \E h \in BOOLEAN : s = FileClose(w, i, h)
    BY <2>1 DEF Closed, i
  <2>11. Put(g, s, n, a, first, p)
    <3>1. ASSUME NEW h \in BOOLEAN, s = FileClose(w, i, h)
          PROVE  Put(g, s, n, a, first, p)
      BY <3>1, <2>4, <2>5, <2>7, CloseIs
    <3> QED
      BY <3>1, <2>7, <2>10
  <2>12. Sound(s, F, cut \/ Lost(add)) /\ KeepsBut(g, s, cut, 0)
    <3>1. p < m \/ first = m
      BY <2>4
    <3>2. (cut \/ Lost(add)) \in BOOLEAN /\ ((cut \/ Lost(add)) <=> (cut \/ p > Len(g)))
      BY <2>9
    <3> DEFINE now == cut \/ Lost(add)
    <3>3. now \in BOOLEAN /\ (now <=> (cut \/ p > Len(g)))
      BY <3>2, <2>9
    <3> HIDE DEF now
    <3>4. Sound(s, F, now) /\ KeepsBut(g, s, cut, 0)
      BY <3>1, <3>3, <1>2, <1>5, <2>3, <2>11, PutIsSound
    <3> QED
      BY <3>4 DEF now
  <2>13. KeepsBut(d, s, cut, 0)
    BY <2>12, <1>5, KeepsOn
  <2>14. ASSUME ~Lost(add),
                \/ dir /\ s = add.dir
                \/ s \in Closed(add) /\ add.alias = add.dataEnd
         PROVE  Filed(s, n)
    <3>1. p \in 1 .. Len(g) /\ Len(s) = Len(g)
      BY <2>4, <2>5, <2>8, <2>9, <2>11, <2>14 DEF Put
    <3>2. /\ s[p].start
          /\ \A k \in 1 .. Len(g) : k \in first .. p - 1 => s[k] = w[k]
      <4>1. CASE dir /\ s = add.dir
        BY <4>1, <3>1, <2>1, <2>7
      <4>2. CASE s \in Closed(add) /\ add.alias = add.dataEnd
        <5>1. i = p
          BY <4>2, <2>1 DEF i
        <5>2. PICK h \in BOOLEAN : s = FileClose(w, i, h)
          BY <4>2, <2>1 DEF Closed, i
        <5>3. s[p].start = TRUE /\ \A k \in 1 .. Len(g) : k # p => s[k] = w[k]
          <6>1. w \in Seq(Slot) /\ p \in 1 .. Len(w) /\ w[p].kind = "alias"
            BY <3>1, <2>7, <2>9 DEF Put
          <6>2. s = FileClose(w, p, h)
            BY <5>1, <5>2
          <6>3. ASSUME NEW k \in 1 .. Len(w), k # p
                PROVE  s[k] = w[k]
            <7>1. s = [w EXCEPT ![p].start = TRUE]
              BY <6>1, <6>2 DEF FileClose
            <7>2. k \in DOMAIN w /\ k # p
              BY <6>1, <6>3
            <7> QED
              BY <7>1, <7>2
          <6>4. s[p].start = TRUE
            BY <6>1, <6>2, CloseAtAlias
          <6> QED
            BY <6>3, <6>4, <2>9
        <5> QED
          BY <5>3, <2>4, <2>8
      <4> QED
        BY <4>1, <4>2, <2>14
    <3>3. s[p].kind = "alias" /\ s[p].alias = a /\ IsAlias(s, p)
      BY <3>1, <2>11 DEF Put, IsAlias
    <3>4. n \notin Short => Legible(s, p, n)
      <4>1. SUFFICES ASSUME n \notin Short
                     PROVE  Legible(s, p, n)
        OBVIOUS
      <4>2. n \in Long /\ Group(s, p, n)
        BY <4>1, <3>1, <2>5, <2>11, PutGroups DEF Names
      <4>3. Parts[n] \in Nat /\ Size(n) = Parts[n] + 1
        BY <4>2, Sizes
      <4>4. p - Parts[n] = first
        BY <4>3, <2>4 DEF p
      <4>5. \A k \in first .. p - 1 : k \in 1 .. Len(g)
        BY <3>1, <2>4, <2>5
      <4> QED
        BY <4>2, <4>4, <4>5, <3>2, <2>7 DEF Legible
    <3> QED
      BY <3>1, <3>2, <3>3, <3>4, <2>2 DEF Filed
  <2> QED
    BY <2>12, <2>13, <2>14
<1> QED
  BY <1>6, <1>7, <1>8

------------------------------------------------------------------------
(* The calls.                                                              *)

\* What a name is looked up as is the entry of an alias slot.
LEMMA FoundIs ==
    ASSUME NEW d \in Seq(Slot), NEW m, EndsAt(d, m), NEW n, Exists(d, n),
           NEW e, e = Found(d, n), NEW i, i = e.dataEnd
    PROVE  IsAlias(d, i) /\ e = EntryAt(d, i) /\ e \in Matches(d, n)
<1> DEFINE M == Matches(d, n)
           S == {f.dataEnd : f \in M}
<1>1. \A f \in M : IsAlias(d, f.dataEnd) /\ f = EntryAt(d, f.dataEnd)
  <2>1. SUFFICES ASSUME NEW f \in M
                 PROVE  IsAlias(d, f.dataEnd) /\ f = EntryAt(d, f.dataEnd)
    OBVIOUS
  <2>2. PICK j \in AliasAt(d) : f = EntryAt(d, j)
    BY DEF Matches, Listing
  <2>3. IsAlias(d, j)
    BY <2>2, AliasAtIs
  <2>4. f.dataEnd = j
    BY <2>2, <2>3, EntryIs
  <2> QED
    BY <2>2, <2>3, <2>4
<1>2. M # {}
  BY DEF Exists
<1>3. S \in SUBSET Nat /\ S # {}
  BY <1>1, <1>2 DEF IsAlias
<1> DEFINE least == Min(S)
<1>4. least \in S /\ \A k \in S : least <= k
  <2> HIDE DEF S
  <2> QED BY <1>3, MinIsLeast
<1>5. \E f \in M : \A h \in M : f.dataEnd <= h.dataEnd
  <2> HIDE DEF M, least
  <2> QED BY <1>4
<1>6. e \in M
  <2> HIDE DEF M
  <2>1. e = CHOOSE f \in M : \A h \in M : f.dataEnd <= h.dataEnd
    BY DEF Found, M
  <2> QED
    BY <2>1, <1>5
<1> QED
  BY <1>1, <1>6

\* The books after a call that adds.
LEMMA RecordedIs ==
    ASSUME NEW s, NEW F, NEW now \in BOOLEAN, Sound(s, F, now), NEW n \in Names,
           NEW G, G = F \/ (G = F \cup {n} /\ Filed(s, n))
    PROVE  Sound(s, G, now)
BY DEF Sound

\* What a call does to the slots and the books; i is the alias slot of the entry
\* it takes out, or 0.
Changes(i) ==
    /\ Sound(slots', files', cutOff')
    /\ KeepsBut(slots, slots', cutOff, i)
    /\ tailIsLast' \in BOOLEAN /\ UNCHANGED kind /\ cutOff' \in BOOLEAN

\* FileCreate of a new name and FileMakeDir.
LEMMA AddingChanges ==
    ASSUME IInv, NEW n \in Names, CreateNew(n) \/ MakeDir(n)
    PROVE  Changes(0) /\ files' \subseteq files \cup {n}
<1>1. Sound(slots, files, cutOff) /\ cutOff \in BOOLEAN /\ tailIsLast \in BOOLEAN
  BY DEF IInv
<1>2. NewTail => tailIsLast' \in BOOLEAN
  BY <1>1 DEF NewTail
<1>4. CASE CreateNew(n)
  <2>0. PICK ext :
            LET add == AddEntry(slots, n, FALSE, ext)
            IN  /\ slots' \in Closed(add) /\ files' = Recorded(n, add, {})
                /\ cutOff' = (cutOff \/ Lost(add)) /\ NewTail /\ UNCHANGED kind
    BY <1>4 DEF CreateNew, Additions
  <2> DEFINE add == AddEntry(slots, n, FALSE, ext)
  <2>1. /\ slots' \in Closed(add) /\ files' = Recorded(n, add, {})
        /\ cutOff' = (cutOff \/ Lost(add)) /\ NewTail /\ UNCHANGED kind
    BY <2>0
  <2>2. /\ Sound(slots', files, cutOff \/ Lost(add)) /\ KeepsBut(slots, slots', cutOff, 0)
        /\ add.ok /\ ~Lost(add) /\ add.alias = add.dataEnd => Filed(slots', n)
    BY <1>1, <2>1, AddedIs
  <2> HIDE DEF add
  <2>3. files' = files \/ (files' = files \cup {n} /\ Filed(slots', n))
    BY <2>1, <2>2 DEF Recorded
  <2>4. cutOff' \in BOOLEAN
    BY <1>1, <2>1 DEF Lost
  <2>5. Sound(slots', files', cutOff')
    BY <2>1, <2>2, <2>3, <2>4, RecordedIs
  <2> QED
    BY <1>2, <2>1, <2>2, <2>3, <2>4, <2>5 DEF Changes
<1>5. CASE MakeDir(n)
  <2>0. PICK ext :
            LET add == AddEntry(slots, n, TRUE, ext)
            IN  /\ slots' = add.dir
                /\ files' = Recorded(n, [add EXCEPT !.dataEnd = add.alias], {})
                /\ cutOff' = (cutOff \/ Lost(add)) /\ NewTail /\ UNCHANGED kind
    BY <1>5 DEF MakeDir, Additions
  <2> DEFINE add == AddEntry(slots, n, TRUE, ext)
             told == [add EXCEPT !.dataEnd = add.alias]
  <2>1. /\ slots' = add.dir /\ files' = Recorded(n, told, {})
        /\ cutOff' = (cutOff \/ Lost(add)) /\ NewTail /\ UNCHANGED kind
    BY <2>0
  <2>2. told.ok = add.ok /\ told.dir = add.dir /\ told.alias = add.alias
    BY DEF AddEntry
  <2>3. /\ Sound(slots', files, cutOff \/ Lost(add)) /\ KeepsBut(slots, slots', cutOff, 0)
        /\ add.ok /\ ~Lost(add) => Filed(slots', n)
    BY <1>1, <2>1, AddedIs
  <2> HIDE DEF add, told
  <2>4. files' = files \/ (files' = files \cup {n} /\ Filed(slots', n))
    BY <2>1, <2>2, <2>3 DEF Recorded, Lost
  <2>5. cutOff' \in BOOLEAN
    BY <1>1, <2>1 DEF Lost
  <2>6. Sound(slots', files', cutOff')
    BY <2>1, <2>3, <2>4, <2>5, RecordedIs
  <2> QED
    BY <1>2, <2>1, <2>3, <2>4, <2>5, <2>6 DEF Changes
<1> QED
  BY <1>4, <1>5

\* FileCreate of a name that is there, and FileDelete.
LEMMA RemovingChanges ==
    ASSUME IInv, NEW n \in Names, Replace(n) \/ Delete(n)
    PROVE  /\ Exists(slots, n) /\ Changes(Found(slots, n).dataEnd)
           /\ files' \subseteq files \cup {n}
<1> DEFINE old == Found(slots, n)
           i == old.dataEnd
           cleared == RemoveEntry(slots, old)
           F == files \ {old.name, old.alias}
<1>1. Sound(slots, files, cutOff) /\ cutOff \in BOOLEAN /\ tailIsLast \in BOOLEAN
  BY DEF IInv
<1>2. Exists(slots, n)
  BY DEF Replace, Delete
<1>3. IsAlias(slots, i) /\ old = EntryAt(slots, i)
  <2>1. slots \in Seq(Slot) /\ \E m : EndsAt(slots, m)
    BY <1>1 DEF Sound
  <2> QED
    BY <2>1, <1>2, FoundIs
<1>4. Sound(cleared, F, cutOff) /\ KeepsBut(slots, cleared, cutOff, i)
  BY <1>1, <1>3, RemovedIsSound
<1>5. NewTail => tailIsLast' \in BOOLEAN
  BY <1>1 DEF NewTail
<1> HIDE DEF old
<1>6. ASSUME /\ slots' = cleared /\ files' = F /\ cutOff' = cutOff
             /\ tailIsLast' \in BOOLEAN /\ UNCHANGED kind
      PROVE  Changes(i) /\ files' \subseteq files \cup {n}
  BY <1>6, <1>1, <1>4 DEF Changes
<1>7. CASE Delete(n)
  <2>1. /\ slots' = cleared /\ files' = F /\ cutOff' = cutOff
        /\ tailIsLast' \in BOOLEAN /\ UNCHANGED kind
    BY <1>7, <1>1 DEF Delete, old
  <2> QED
    BY <2>1, <1>2, <1>6 DEF old
<1>8. CASE Replace(n)
  <2>0. /\ NewTail /\ UNCHANGED kind
        /\ \/ slots' = cleared /\ files' = F /\ UNCHANGED cutOff
           \/ \E ext :
                LET add == AddEntry(cleared, n, FALSE, ext)
                IN  /\ slots' \in Closed(add)
                    /\ files' = Recorded(n, add, {old.name, old.alias})
                    /\ cutOff' = (cutOff \/ Lost(add))
    BY <1>8 DEF Replace, Additions, old
  <2>4. PICK ext :
           \/ slots' = cleared /\ files' = F /\ UNCHANGED cutOff
           \/ LET add == AddEntry(cleared, n, FALSE, ext)
              IN  /\ slots' \in Closed(add)
                  /\ files' = Recorded(n, add, {old.name, old.alias})
                  /\ cutOff' = (cutOff \/ Lost(add))
    BY <2>0
  <2> DEFINE add == AddEntry(cleared, n, FALSE, ext)
  <2>1. /\ NewTail /\ UNCHANGED kind
        /\ \/ slots' = cleared /\ files' = F /\ UNCHANGED cutOff
           \/ /\ slots' \in Closed(add)
              /\ files' = Recorded(n, add, {old.name, old.alias})
              /\ cutOff' = (cutOff \/ Lost(add))
    BY <2>0, <2>4
  <2>2. CASE slots' = cleared /\ files' = F /\ UNCHANGED cutOff
    BY <2>1, <2>2, <1>2, <1>5, <1>6 DEF old
  <2>3. CASE /\ slots' \in Closed(add)
             /\ files' = Recorded(n, add, {old.name, old.alias})
             /\ cutOff' = (cutOff \/ Lost(add))
    <3> HIDE DEF cleared, F
    <3>1. /\ Sound(slots', F, cutOff \/ Lost(add)) /\ KeepsBut(cleared, slots', cutOff, 0)
          /\ add.ok /\ ~Lost(add) /\ add.alias = add.dataEnd => Filed(slots', n)
      BY <2>3, <1>1, <1>4, AddedIs
    <3> HIDE DEF add
    <3>2. files' = F \/ (files' = F \cup {n} /\ Filed(slots', n))
      BY <2>3, <3>1 DEF Recorded, F
    <3>3. cutOff' \in BOOLEAN
      BY <1>1, <2>3 DEF Lost
    <3>4. Sound(slots', files', cutOff')
      BY <2>3, <3>1, <3>2, <3>3, RecordedIs
    <3>5. KeepsBut(slots, slots', cutOff, i)
      BY <1>1, <1>4, <3>1, KeepsOn
    <3>6. files' \subseteq files \cup {n}
      BY <3>2 DEF F
    <3> QED
      BY <2>1, <1>2, <1>5, <3>3, <3>4, <3>5, <3>6 DEF Changes, old
  <2> QED
    BY <2>1, <2>2, <2>3
<1> QED
  BY <1>7, <1>8

\* A new directory is sound: the entries of FileMakeDir are two, those of format
\* none.
LEMMA InitIsSound == Init => IInv
<1>1. SUFFICES ASSUME Init
               PROVE  IInv
  OBVIOUS
<1>2. kind \in Kinds /\ files = {} /\ cutOff = FALSE /\ tailIsLast \in BOOLEAN
  BY <1>1 DEF Init
<1> DEFINE len == (IF kind = "fixed" THEN RootSlots ELSE ClusterSlots)
           dot == AliasSlot(".", TRUE, TRUE)
           dots == AliasSlot("..", TRUE, TRUE)
<1>3. len \in Nat /\ len >= 1 /\ ClusterSlots \in Nat /\ ClusterSlots >= 2
  BY Sizes
<1>4. /\ dot \in Slot /\ dots \in Slot /\ dot.kind = "alias" /\ dots.kind = "alias"
      /\ dot.alias = "." /\ dots.alias = ".."
  BY NewSlots DEF AliasSlot, Aliases
<1>5. ASSUME NEW N \in Nat
      PROVE  Blank(N) \in Seq(Slot) /\ Len(Blank(N)) = N /\ \A k \in 1 .. N : Blank(N)[k] = Last
  <2>1. Blank(N) \in [1 .. N -> Slot] /\ \A k \in 1 .. N : Blank(N)[k] = Last
    BY LastIsASlot DEF Blank
  <2> QED
    BY <2>1
<1> HIDE DEF dot, dots
<1>6. \E m \in Nat :
        /\ slots \in Seq(Slot) /\ m >= 1 /\ m <= 3 /\ m <= Len(slots) + 1
        /\ \A k \in m .. Len(slots) : slots[k] = Last
        /\ m = 2 => slots[1] = Vol
        /\ m # 2 => m = 3 /\ slots[1] = dot /\ slots[2] = dots
  <2>1. CASE kind = "sub"
    <3> DEFINE t == Blank(ClusterSlots - 2)
    <3>1. t \in Seq(Slot) /\ Len(t) = ClusterSlots - 2
          /\ \A k \in 1 .. ClusterSlots - 2 : t[k] = Last
      BY <1>3, <1>5
    <3>2. slots = <<dot, dots>> \o t
      BY <2>1, <1>1 DEF Init, dot, dots
    <3> HIDE DEF t
    <3>3. /\ slots \in Seq(Slot) /\ Len(slots) = ClusterSlots
          /\ slots[1] = dot /\ slots[2] = dots
      BY <3>1, <3>2, <1>3, <1>4
    <3>4. \A k \in 3 .. ClusterSlots : slots[k] = t[k - 2] /\ k - 2 \in 1 .. ClusterSlots - 2
      BY <3>1, <3>2, <1>3, <1>4
    <3>5. \A k \in 3 .. ClusterSlots : slots[k] = Last
      BY <3>1, <3>4
    <3> QED
      BY <3>3, <3>5, <1>3
  <2>2. CASE kind # "sub"
    <3> DEFINE t == Blank(len - 1)
    <3>1. t \in Seq(Slot) /\ Len(t) = len - 1 /\ \A k \in 1 .. len - 1 : t[k] = Last
      <4> HIDE DEF len
      <4>1. len - 1 \in Nat
        BY <1>3
      <4> QED
        BY <4>1, <1>5
    <3>2. slots = <<Vol>> \o t
      BY <2>2, <1>1 DEF Init
    <3> HIDE DEF t, len
    <3>3. slots \in Seq(Slot) /\ Len(slots) = len /\ slots[1] = Vol
      BY <3>1, <3>2, <1>3, LastIsASlot
    <3>4. \A k \in 2 .. len : slots[k] = t[k - 1] /\ k - 1 \in 1 .. len - 1
      BY <3>1, <3>2, <1>3, LastIsASlot
    <3>5. \A k \in 2 .. len : slots[k] = Last
      BY <3>1, <3>4
    <3> QED
      BY <3>3, <3>5, <1>3
  <2> QED
    BY <2>1, <2>2
<1>7. PICK m \in Nat :
        /\ slots \in Seq(Slot) /\ m >= 1 /\ m <= 3 /\ m <= Len(slots) + 1
        /\ \A k \in m .. Len(slots) : slots[k] = Last
        /\ m = 2 => slots[1] = Vol
        /\ m # 2 => m = 3 /\ slots[1] = dot /\ slots[2] = dots
  BY <1>6
<1>8. Len(slots) \in Nat
  BY <1>7
<1>9. \A k \in 1 .. Len(slots) : k = 1 \/ k = 2 \/ k \in m .. Len(slots)
  BY <1>7, <1>8
<1>10. /\ \A k \in 1 .. Len(slots) : ~IsLfn(slots, k)
       /\ \A k \in 1 .. Len(slots) : IsAlias(slots, k) => m = 3 /\ (k = 1 \/ k = 2)
  <2>1. SUFFICES ASSUME NEW k \in 1 .. Len(slots)
                 PROVE  ~IsLfn(slots, k) /\ (IsAlias(slots, k) => m = 3 /\ (k = 1 \/ k = 2))
    OBVIOUS
  <2>2. CASE k \in m .. Len(slots)
    <3>1. slots[k].kind = "last"
      BY <2>2, <1>7, LastIsASlot
    <3> QED
      BY <3>1 DEF IsLfn, IsAlias
  <2>3. CASE k \notin m .. Len(slots)
    <3>1. (k = 1 \/ k = 2) /\ (m = 2 => k = 1)
      BY <2>3, <1>7, <1>8
    <3> QED
      BY <3>1, <1>4, <1>7, LastIsASlot DEF IsLfn, IsAlias
  <2> QED
    BY <2>2, <2>3
<1>11. EndsAt(slots, m)
  <2>1. \A k \in 1 .. m - 1 : k = 1 \/ (k = 2 /\ m = 3)
    BY <1>7
  <2>2. \A k \in 1 .. m - 1 : slots[k].kind # "last"
    BY <2>1, <1>4, <1>7, LastIsASlot
  <2> QED
    BY <2>2, <1>7, <1>8 DEF EndsAt
<1>12. AliasesApart(slots)
  BY <1>4, <1>7, <1>10 DEF AliasesApart
<1>13. Whole(slots)
  BY <1>10 DEF Whole
<1>14. NamesApart(slots)
  <2>1. SUFFICES ASSUME NEW k \in 1 .. Len(slots), NEW n \in Long, Group(slots, k, n)
                 PROVE  FALSE
    BY DEF NamesApart, Legible
  <2>2. Parts[n] \in Nat /\ Parts[n] >= 1 /\ k - Parts[n] >= 1
        /\ \A j \in k - Parts[n] .. k - 1 : slots[j].kind = "lfn"
    BY <2>1, Sizes DEF Group
  <2> DEFINE j == k - 1
  <2>3. j \in k - Parts[n] .. k - 1 /\ j \in 1 .. Len(slots)
    BY <2>2, <1>8
  <2> HIDE DEF j
  <2>4. IsLfn(slots, j)
    BY <2>2, <2>3 DEF IsLfn
  <2> QED
    BY <2>3, <2>4, <1>10
<1> QED
  BY <1>2, <1>7, <1>11, <1>12, <1>13, <1>14 DEF IInv, Sound

\* Every call changes the directory in one of the two ways.
LEMMA CallChanges ==
    ASSUME IInv, Next
    PROVE  \E n \in Names :
              /\ files' \subseteq files \cup {n}
              /\ Changes(0) \/ (Exists(slots, n) /\ Changes(Found(slots, n).dataEnd))
BY AddingChanges, RemovingChanges DEF Next

\* At any time the long names, the aliases and the end mark of a directory are
\* as IInv says, whatever has been added, replaced and deleted.
THEOREM DirectoryInvariant == Spec => []IInv
<1>1. Init => IInv
  BY InitIsSound
<1>2. IInv /\ [Next]_vars => IInv'
  <2>1. SUFFICES ASSUME IInv, [Next]_vars
                 PROVE  IInv'
    OBVIOUS
  <2>2. CASE Next
    <3>1. PICK i : Changes(i)
      BY <2>1, <2>2, CallChanges
    <3> QED
      BY <2>1, <3>1 DEF Changes, IInv
  <2>3. CASE UNCHANGED vars
    BY <2>1, <2>3 DEF vars, IInv
  <2> QED
    BY <2>1, <2>2, <2>3
<1> QED
  BY <1>1, <1>2, PTL DEF Spec

\* Every variable keeps its type, whatever the calls write into the slots.
THEOREM DirectoryTypes == Spec => []TypeOK
<1>1. IInv => TypeOK
  BY DEF IInv, Sound, TypeOK
<1> QED
  BY <1>1, DirectoryInvariant, PTL

\* No two entries share an alias that reads back as it was written: addEntry
\* looks each alias up before it takes it, among the entries that FindEntryGap,
\* removeEntry and FileClose keep.
THEOREM NoAliasTwice == Spec => []AliasesDistinct
<1>1. IInv => AliasesDistinct
  <2>1. SUFFICES ASSUME IInv, NEW i \in AliasAt(slots), NEW j \in AliasAt(slots),
                        EntryAt(slots, i).alias = EntryAt(slots, j).alias,
                        EntryAt(slots, i).alias \notin DOMAIN Cut
                 PROVE  i = j
    BY DEF AliasesDistinct, Listing
  <2>2. slots \in Seq(Slot) /\ AliasesApart(slots) /\ \E m : EndsAt(slots, m)
    BY <2>1 DEF IInv, Sound
  <2>3. IsAlias(slots, i) /\ IsAlias(slots, j)
    BY <2>1, <2>2, AliasAtIs
  <2>4. slots[i].alias = slots[j].alias /\ slots[i].alias \notin DOMAIN Cut
    BY <2>1, <2>2, <2>3, EntryIs
  <2> QED
    BY <2>2, <2>3, <2>4 DEF AliasesApart, IsAlias
<1> QED
  BY <1>1, DirectoryInvariant, PTL

\* No call writes behind the end mark or moves it past a slot that is an end
\* mark, so getNextEntry, which stops there, misses nothing.
THEOREM EndIsTheEnd == Spec => []NothingBehindTheEnd
<1>1. IInv => NothingBehindTheEnd
  <2>1. SUFFICES ASSUME IInv, NEW i \in 1 .. Len(slots), i >= EndMark(slots)
                 PROVE  slots[i] = Last
    BY DEF NothingBehindTheEnd
  <2>2. slots \in Seq(Slot) /\ Len(slots) \in Nat
    BY <2>1 DEF IInv, Sound
  <2>3. PICK m : EndsAt(slots, m)
    BY <2>1 DEF IInv, Sound
  <2>4. EndMark(slots) = m /\ m \in Nat
    BY <2>2, <2>3, EndMarkIs
  <2>5. i \in m .. Len(slots)
    BY <2>1, <2>2, <2>4
  <2> QED
    BY <2>3, <2>5 DEF EndsAt
<1> QED
  BY <1>1, DirectoryInvariant, PTL

\* The entries a name is looked up as are called by it.
LEMMA MatchIs ==
    ASSUME IInv, NEW n \in Names, NEW e \in Matches(slots, n),
           NEW i, i = e.dataEnd
    PROVE  /\ IsAlias(slots, i) /\ e = EntryAt(slots, i)
           /\ n \in Short => EntryGetAlias(slots[i].alias) = n
           /\ n \notin Short /\ ~cutOff => Legible(slots, i, n)
<1>1. slots \in Seq(Slot) /\ (~cutOff => Whole(slots))
  BY DEF IInv, Sound
<1>2. PICK m : EndsAt(slots, m)
  BY DEF IInv, Sound
<1>3. PICK j \in AliasAt(slots) : e = EntryAt(slots, j)
  BY DEF Matches, Listing
<1>4. e.name = n \/ EntryGetAlias(e.alias) = n
  BY DEF Matches
<1>5. IsAlias(slots, j)
  BY <1>1, <1>2, <1>3, AliasAtIs
<1> DEFINE t == LongNameStart(slots, j)
<1>6. /\ j = i /\ e.alias = slots[i].alias /\ e.alias \in Aliases
      /\ t = 0 => e.name = EntryGetAlias(slots[i].alias)
      /\ t # 0 => e.name \in Long \cup {Garbled}
  BY <1>1, <1>3, <1>5, EntryIs
<1> HIDE DEF t
<1>7. ASSUME n \in Short
      PROVE  EntryGetAlias(slots[i].alias) = n
  <2>1. n \notin Long /\ n # Garbled
    BY <1>7, NamesAssumption DEF Aliases, Names
  <2> QED
    BY <1>4, <1>6, <2>1
<1>8. ASSUME n \notin Short, ~cutOff
      PROVE  Legible(slots, i, n)
  <2>1. n \in Long /\ EntryGetAlias(e.alias) # n /\ n # Garbled
    BY <1>6, <1>8, ReadIs, NamesAssumption DEF Names
  <2>2. e.name = n
    BY <1>4, <1>6, <2>1
  <2>3. PICK x : Group(slots, i, x)
    <3>1. (\A x : ~Group(slots, i, x))
              => EntryAt(slots, i).name = EntryGetAlias(slots[i].alias)
      BY <1>1, <1>5, <1>6, <1>8, NoGroupNoName
    <3> QED
      BY <3>1, <2>1, <2>2, <1>3, <1>6
  <2>4. e.name = IF Legible(slots, i, x) THEN x ELSE Garbled
    BY <2>3, <1>1, <1>3, <1>6, GroupIsTheName
  <2> QED
    BY <2>1, <2>2, <2>4
<1> QED
  BY <1>3, <1>5, <1>6, <1>7, <1>8

\* Files and directories are found by their names: a short name is the alias of
\* one entry, a long name, while none has been cut off, is that of one entry.
THEOREM NamesAreFound == Spec => []FilesAreFound
<1>1. IInv => FilesAreFound
  <2>1. SUFFICES ASSUME IInv, NEW n \in files
                 PROVE  /\ \E e \in Matches(slots, n) : e.start
                        /\ n \in Short =>
                              Cardinality({e \in Matches(slots, n) : e.alias = n}) = 1
                        /\ n \in Long /\ ~cutOff => Cardinality(Matches(slots, n)) = 1
    BY DEF FilesAreFound
  <2>2. /\ slots \in Seq(Slot) /\ AliasesApart(slots) /\ n \in Names /\ Filed(slots, n)
        /\ ~cutOff => NamesApart(slots)
    BY <2>1 DEF IInv, Sound
  <2>3. PICK m : EndsAt(slots, m)
    BY <2>1 DEF IInv, Sound
  <2>4. PICK i \in 1 .. Len(slots) :
            /\ IsAlias(slots, i) /\ slots[i].start
            /\ IF n \in Short THEN slots[i].alias = n ELSE Legible(slots, i, n)
    BY <2>2 DEF Filed
  <2> DEFINE e == EntryAt(slots, i)
             M == Matches(slots, n)
  <2>5. /\ e \in Listing(slots) /\ e.start = slots[i].start
        /\ e.alias = slots[i].alias /\ e.dataEnd = i
    <3>1. e \in Listing(slots)
      BY <2>2, <2>3, <2>4, AliasAtIs DEF Listing
    <3>2. e.start = slots[i].start /\ e.alias = slots[i].alias /\ e.dataEnd = i
      BY DEF EntryAt
    <3> QED
      BY <3>1, <3>2
  <2>6. n \notin Short => e.name = n
    BY <2>2, <2>4, GroupIsTheName DEF Legible
  <2>7. n \in Short => n \notin DOMAIN Cut /\ EntryGetAlias(n) = n
    BY NamesAssumption DEF EntryGetAlias
  <2>8. e \in M /\ e.start
    <3> HIDE DEF e
    <3> QED BY <2>4, <2>5, <2>6, <2>7 DEF Matches
  <2>9. ASSUME NEW f \in M
        PROVE  /\ f.dataEnd \in 1 .. Len(slots) /\ IsAlias(slots, f.dataEnd)
               /\ f = EntryAt(slots, f.dataEnd) /\ f.alias = slots[f.dataEnd].alias
               /\ n \notin Short /\ ~cutOff => Legible(slots, f.dataEnd, n)
    <3> DEFINE j == f.dataEnd
    <3>1. /\ IsAlias(slots, j) /\ f = EntryAt(slots, j)
          /\ n \notin Short /\ ~cutOff => Legible(slots, j, n)
      BY <2>1, <2>2, <2>9, MatchIs
    <3> HIDE DEF j
    <3>2. j \in 1 .. Len(slots) /\ f.alias = slots[j].alias
      BY <3>1, <2>2, EntryIs DEF IsAlias
    <3> QED
      BY <3>1, <3>2 DEF j
  <2> HIDE DEF M, e
  <2>10. ASSUME n \in Short
         PROVE  Cardinality({f \in M : f.alias = n}) = 1
    <3>1. ASSUME NEW f \in M, f.alias = n
          PROVE  f = e
      BY <3>1, <2>2, <2>4, <2>7, <2>9, <2>10 DEF AliasesApart, e
    <3>2. {f \in M : f.alias = n} = {e}
      BY <2>4, <2>5, <2>8, <2>10, <3>1
    <3> QED
      BY <3>2, FS_Singleton
  <2>11. ASSUME n \in Long, ~cutOff
         PROVE  Cardinality(M) = 1
    <3>1. n \notin Short
      BY <2>11, NamesAssumption DEF Aliases
    <3>2. ASSUME NEW f \in M
          PROVE  f = e
      BY <3>1, <3>2, <2>2, <2>4, <2>9, <2>11 DEF NamesApart, e
    <3>3. M = {e}
      BY <2>8, <3>2
    <3> QED
      BY <3>3, FS_Singleton
  <2> QED
    BY <2>8, <2>10, <2>11 DEF M
<1> QED
  BY <1>1, DirectoryInvariant, PTL

\* A call takes away no entry but the one it replaces or deletes.
THEOREM NoOtherEntryGoes == Spec => OthersKept
<1> DEFINE A == \E before \in {Listing(slots)}, after \in {Listing(slots')} :
                \E n \in Names :
                   /\ files' \ files \subseteq {n}
                   /\ \A e \in before :
                        Stays(e, after) \/ (Exists(slots, n) /\ e = Found(slots, n))
           S(e) == Stays(e, Listing(slots'))
<1>1. IInv /\ IInv' /\ [Next]_vars => [A]_vars
  <2>1. SUFFICES ASSUME IInv, IInv', Next
                 PROVE  A
    BY DEF vars
  <2>2. PICK n \in Names :
            /\ files' \subseteq files \cup {n}
            /\ Changes(0) \/ (Exists(slots, n) /\ Changes(Found(slots, n).dataEnd))
    BY <2>1, CallChanges
  <2>3. slots \in Seq(Slot) /\ slots' \in Seq(Slot) /\ \E m : EndsAt(slots, m)
    BY <2>1 DEF IInv, Sound
  <2>4. PICK q : EndsAt(slots', q)
    BY <2>1 DEF IInv, Sound
  <2>5. ASSUME NEW i, Changes(i), NEW e \in Listing(slots), ~S(e)
        PROVE  e = EntryAt(slots, i) /\ IsAlias(slots, i)
    <3>1. PICK j \in AliasAt(slots) : e = EntryAt(slots, j)
      BY <2>5 DEF Listing
    <3>2. IsAlias(slots, j) /\ j \in 1 .. Len(slots) /\ e.dataEnd = j
      BY <3>1, <2>3, AliasAtIs DEF IsAlias, EntryAt
    <3>3. ASSUME j # i
          PROVE  FALSE
      <4>1. /\ IsAlias(slots', j)
            /\ SameSlot(EntryAt(slots, j), EntryAt(slots', j))
            /\ ~cutOff => EntryAt(slots', j) = EntryAt(slots, j)
        BY <3>2, <3>3, <2>5 DEF Changes, KeepsBut
      <4>2. j \in AliasAt(slots')
        BY <4>1, <2>3, <2>4, AliasAtIs
      <4>3. S(e)
        BY <4>1, <4>2, <3>1, <3>2 DEF Stays, Listing
      <4> QED
        BY <4>3, <2>5
    <3> QED
      BY <3>1, <3>2, <3>3
  <2>6. ASSUME NEW e \in Listing(slots), ~S(e)
        PROVE  Exists(slots, n) /\ e = Found(slots, n)
    <3>1. CASE Changes(0)
      <4>1. ~IsAlias(slots, 0)
        BY <2>3 DEF IsAlias
      <4> QED
        BY <3>1, <4>1, <2>5, <2>6
    <3>2. CASE Exists(slots, n) /\ Changes(Found(slots, n).dataEnd)
      <4>1. Found(slots, n) = EntryAt(slots, Found(slots, n).dataEnd)
        BY <3>2, <2>3, FoundIs
      <4> QED
        BY <3>2, <4>1, <2>5, <2>6
    <3> QED
      BY <2>2, <3>1, <3>2
  <2> QED
    BY <2>2, <2>6
<1>2. OthersKept <=> [][A]_vars
  BY DEF OthersKept
<1> HIDE DEF A
<1> QED
  BY <1>1, <1>2, DirectoryInvariant, PTL DEF Spec
=============================================================================
