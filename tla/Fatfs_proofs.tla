--------------------------- MODULE Fatfs_proofs ---------------------------
(***************************************************************************)
(* Proofs about Fatfs for volumes, directories, contents, names and paths  *)
(* of any number and size.  A walk, a trail and the levels of the tree are *)
(* functions that are defined by recursion; that they exist is proved once *)
(* (RecursionExists), and what they give follows by induction (UpTo).      *)
(*                                                                         *)
(* The second half describes how a tree lies in a volume: every node has a *)
(* run of clusters, no two runs meet, and a directory's slots are what its *)
(* run holds (Laid).  A volume is sound exactly if its nodes lie so        *)
(* (SoundIsIntact, IntactIsSound).  What is written outside a node's run   *)
(* and slots leaves the node as it is, and a directory is given room for   *)
(* an entry by a slot of its run or by one cluster more.                   *)
(***************************************************************************)
EXTENDS Fatfs, FiniteSetTheorems, WellFoundedInduction, TLAPS

------------------------------------------------------------------------
(* Recursion over numbers.                                                 *)

\* A non-empty set of natural numbers has a least element.
LEMMA LeastNumber ==
    ASSUME NEW S \in SUBSET Nat, S # {}
    PROVE  \E n \in S : \A m \in S : n <= m
<1> DEFINE R == OpToRel(<, Nat)
<1>1. IsWellFoundedOn(R, Nat)
  BY NatLessThanWellFounded
<1>2. PICK n \in S : \A m \in S : <<m, n>> \notin R
  <2> HIDE DEF R
  <2> QED BY <1>1, WFMin
<1>3. ASSUME NEW m \in S, m < n
      PROVE  FALSE
  <2>1. <<m, n>> \in Nat \X Nat /\ <<m, n>>[1] < <<m, n>>[2]
    BY <1>3
  <2>2. <<m, n>> \in R
    BY <2>1 DEF OpToRel
  <2> QED
    BY <2>2, <1>2
<1> QED
  BY <1>3

\* Induction up to n, with a set in the place of the predicate.
LEMMA UpTo ==
    ASSUME NEW m \in Nat, NEW n \in Nat, NEW S,
           m <= n => m \in S, \A k \in m + 1 .. n : k - 1 \in S => k \in S
    PROVE  m .. n \subseteq S
<1> DEFINE Bad == {k \in m .. n : k \notin S}
<1> SUFFICES ASSUME Bad # {} PROVE FALSE
  OBVIOUS
<1>1. Bad \in SUBSET Nat
  OBVIOUS
<1>2. PICK k \in Bad : \A j \in Bad : k <= j
  <2> HIDE DEF Bad
  <2> QED BY <1>1, LeastNumber
<1> QED
  BY <1>2

\* A recursion with values in S has a solution.
Follows(g, S, a, m, n, f) ==
    /\ g \in [m .. n -> S]
    /\ g[m] = a
    /\ \A k \in m + 1 .. n : g[k] = f[<<k, g[k - 1]>>]

LEMMA RecursionExists ==
    ASSUME NEW S, NEW a \in S, NEW m \in Nat, NEW n \in Nat, m <= n,
           NEW f \in [Nat \X S -> S]
    PROVE  \E g : Follows(g, S, a, m, n, f)
<1> DEFINE Good(j, g) == g[m] = a /\ \A k \in m + 1 .. j : g[k] = f[<<k, g[k - 1]>>]
           Done == {j \in m .. n : \E g \in [m .. j -> S] : Good(j, g)}
<1>1. m \in Done
  <2> DEFINE g == [k \in m .. m |-> a]
  <2>1. g \in [m .. m -> S] /\ Good(m, g)
    OBVIOUS
  <2> HIDE DEF g
  <2> QED BY <2>1
<1>2. ASSUME NEW j \in m + 1 .. n, j - 1 \in Done
      PROVE  j \in Done
  <2>1. PICK g \in [m .. j - 1 -> S] : Good(j - 1, g)
    BY <1>2
  <2> DEFINE h == [k \in m .. j |-> IF k = j THEN f[<<j, g[j - 1]>>] ELSE g[k]]
  <2>2. g[j - 1] \in S /\ f[<<j, g[j - 1]>>] \in S
    BY <2>1
  <2>3. h \in [m .. j -> S]
    BY <2>1, <2>2
  <2>4. h[m] = a
    BY <2>1
  <2>5. ASSUME NEW k \in m + 1 .. j
        PROVE  h[k] = f[<<k, h[k - 1]>>]
    <3>1. h[k - 1] = g[k - 1] /\ k - 1 \in m .. j - 1
      OBVIOUS
    <3>2. CASE k = j
      <4>1. h[k] = f[<<j, g[j - 1]>>]
        BY <3>2
      <4> QED
        BY <4>1, <3>1, <3>2
    <3>3. CASE k # j
      <4>1. k \in m + 1 .. j - 1 /\ h[k] = g[k]
        BY <3>3
      <4> QED
        BY <4>1, <3>1, <2>1
    <3> QED
      BY <3>2, <3>3
  <2>6. Good(j, h)
    BY <2>4, <2>5
  <2>7. j \in m .. n
    BY <1>2
  <2> HIDE DEF h, Good
  <2> QED
    BY <2>3, <2>6, <2>7
<1>3. m .. n \subseteq Done
  <2> HIDE DEF Done
  <2> QED BY <1>1, <1>2, UpTo
<1>4. n \in Done
  BY <1>3
<1> QED
  BY <1>4 DEF Follows

\* What the operators on sets of numbers give.
LEMMA MinIs ==
    ASSUME NEW S \in SUBSET Int, NEW n \in S, \A m \in S : n <= m
    PROVE  Min(S) = n
<1>1. Min(S) \in S /\ \A m \in S : Min(S) <= m
  BY DEF Min
<1>2. Min(S) <= n /\ n <= Min(S) /\ Min(S) \in Int /\ n \in Int
  BY <1>1
<1> QED
  BY <1>2

LEMMA MinIsLeast ==
    ASSUME NEW S \in SUBSET Nat, S # {}
    PROVE  Min(S) \in S /\ \A n \in S : Min(S) <= n
<1>1. PICK n \in S : \A m \in S : n <= m
  BY LeastNumber
<1>2. S \in SUBSET Int
  OBVIOUS
<1>3. Min(S) = n
  BY <1>1, <1>2, MinIs
<1> QED
  BY <1>1, <1>3

------------------------------------------------------------------------
(* Types.                                                                  *)

\* The entries that are no clusters never change, and a hint past the table means
\* that nothing is free.
Firm(t, h) ==
    /\ t[ROOT] = EOF /\ t[PastEnd] = FREE
    /\ h = PastEnd => \A c \in Cluster : t[c] # FREE

Typed(v) ==
    /\ v \in Volume /\ \A a \in Areas : Len(v.cells[a]) = SlotsOf(a)
    /\ Firm(v.table, v.firstFree)

\* The places of the slots.
Position == {p \in Areas \X Nat : p[2] \in 1 .. SlotsOf(p[1])}

LEMMA Numbers ==
    /\ LastCluster \in Nat /\ LastCluster >= 2
    /\ PastEnd = LastCluster + 1 /\ Cluster = 2 .. LastCluster
    /\ Table!Entry = 0 .. PastEnd /\ FREE = 0 /\ ROOT = 0
    /\ EOF \in Nat /\ EOF > PastEnd /\ Table!CLUSTER_EOF = EOF /\ Table!CLUSTER_FREE = FREE
    /\ Table!PastEnd = PastEnd /\ Table!Cluster = Cluster
    /\ Table!Value = Table!Entry \cup {EOF}
    /\ Table!CLUSTER_FIRST = 2
    /\ Areas = {0} \cup (2 .. PastEnd)
    /\ ClusterSlots \in Nat /\ ClusterSlots >= 2 /\ RootSlots \in Nat /\ RootSlots >= ClusterSlots
<1>1. LastCluster \in Int /\ 2 <= LastCluster /\ LastCluster <= Table!MaxLastCluster
  <2>1. Table!MaxLastCluster \in Int /\ Table!CLUSTER_FIRST = 2
    BY SMT DEF Table!CLUSTER_FIRST, Table!MaxLastCluster
  <2> QED
    BY <2>1, ClusterAssumption
<1>2. Table!MaxLastCluster \in Int /\ EOF = Table!MaxLastCluster + 10
  BY SMT DEF Table!MaxLastCluster, EOF, Table!CLUSTER_EOF
<1>3. /\ PastEnd = LastCluster + 1 /\ Cluster = 2 .. LastCluster
      /\ Table!Entry = 0 .. PastEnd /\ FREE = 0 /\ ROOT = 0 /\ Table!CLUSTER_EOF = EOF
      /\ Table!PastEnd = PastEnd /\ Table!Cluster = Cluster /\ Table!CLUSTER_FREE = FREE
      /\ Table!Value = Table!Entry \cup {EOF} /\ Table!CLUSTER_FIRST = 2
  BY DEF PastEnd, Cluster, FREE, EOF, ROOT, Table!PastEnd, Table!Cluster, Table!Entry,
         Table!Value, Table!CLUSTER_FREE, Table!CLUSTER_FIRST
<1>4. Areas = {0} \cup (2 .. PastEnd)
  BY <1>3 DEF Areas
<1> QED
  BY <1>1, <1>2, <1>3, <1>4, SlotsAssumption

LEMMA AreaIsArea ==
    ASSUME NEW c \in Table!Entry
    PROVE  Area(c) \in Areas
  BY Numbers DEF Area

LEMMA SlotsOfIsPositive ==
    ASSUME NEW a \in Areas
    PROVE  SlotsOf(a) \in Nat /\ SlotsOf(a) >= 2
  BY Numbers DEF SlotsOf

LEMMA VolumeFields ==
    ASSUME NEW v, Typed(v)
    PROVE  /\ v \in Volume
           /\ v.table \in [Table!Entry -> Table!Value]
           /\ v.firstFree \in 2 .. PastEnd /\ v.cwd \in Table!Entry
           /\ v.cells \in [Areas -> Seq(Slot)]
           /\ \A a \in Areas : Len(v.cells[a]) = SlotsOf(a)
  BY Numbers DEF Typed, Volume

LEMMA FirmVolume ==
    ASSUME NEW v, Typed(v)
    PROVE  Firm(v.table, v.firstFree)
  BY DEF Typed

LEMMA AtIsSlot ==
    ASSUME NEW v, Typed(v), NEW p \in Position
    PROVE  At(v, p) \in Slot
  BY VolumeFields DEF Position, At

LEMMA PositionFields ==
    ASSUME NEW p \in Position
    PROVE  p[1] \in Areas /\ p[2] \in 1 .. SlotsOf(p[1]) /\ p = <<p[1], p[2]>>
  BY DEF Position

LEMMA IsPosition ==
    ASSUME NEW a \in Areas, NEW i \in 1 .. SlotsOf(a)
    PROVE  <<a, i>> \in Position
  BY SlotsOfIsPositive DEF Position

LEMMA EntryIsSlot ==
    ASSUME NEW n \in Names \cup {".", ".."}, NEW d \in BOOLEAN, NEW c \in Table!Entry, NEW z \in Nat
    PROVE  Entry(n, d, c, z) \in EntrySlot /\ Entry(n, d, c, z) \in Slot
  BY DEF Entry, EntrySlot, Slot

LEMMA MarksAreSlots ==
    /\ EndMark \in Slot /\ Free \in Slot /\ Label \in Slot /\ Residue \in Slot
    /\ RootEntry \in EntrySlot
  BY Numbers DEF Slot, EntrySlot, RootEntry, Entry

\* Writing all slots of an area.
LEMMA CellsTyped ==
    ASSUME NEW v, Typed(v), NEW a \in Areas, NEW s \in Seq(Slot), Len(s) = SlotsOf(a)
    PROVE  Typed([v EXCEPT !.cells[a] = s])
<1> DEFINE w == [v EXCEPT !.cells[a] = s]
<1>1. w.cells = [v.cells EXCEPT ![a] = s] /\ w.table = v.table /\ w.firstFree = v.firstFree
      /\ w.cwd = v.cwd
  BY VolumeFields DEF Volume
<1>2. w.cells \in [Areas -> Seq(Slot)]
  BY <1>1, VolumeFields
<1>3. w \in Volume
  BY <1>2, VolumeFields DEF Volume
<1>4. \A b \in Areas : Len(w.cells[b]) = SlotsOf(b)
  BY <1>1, VolumeFields
<1> QED
  BY <1>1, <1>3, <1>4 DEF Typed

LEMMA PutTyped ==
    ASSUME NEW v, Typed(v), NEW p \in Position, NEW s \in Slot
    PROVE  Typed(Put(v, p, s))
<1> DEFINE a == p[1]
           r == [v.cells[a] EXCEPT ![p[2]] = s]
<1>1. v.cells[a] \in Seq(Slot) /\ Len(v.cells[a]) = SlotsOf(a) /\ a \in Areas
  BY VolumeFields, PositionFields
<1>2. r \in Seq(Slot) /\ Len(r) = SlotsOf(a)
  BY <1>1, PositionFields
<1>3. Put(v, p, s) = [v EXCEPT !.cells[a] = r]
  BY DEF Put
<1> QED
  BY <1>1, <1>2, <1>3, CellsTyped

LEMMA BlankTyped ==
    ASSUME NEW v, Typed(v), NEW c \in 2 .. PastEnd
    PROVE  Typed(Blank(v, c))
<1> DEFINE s == [i \in 1 .. ClusterSlots |-> EndMark]
<1>1. s \in Seq(Slot) /\ Len(s) = SlotsOf(c) /\ c \in Areas
  BY Numbers, MarksAreSlots DEF SlotsOf
<1> QED
  BY <1>1, CellsTyped DEF Blank

------------------------------------------------------------------------
(* The table.                                                              *)

\* What the search for a free cluster gives.
LEMMA FindFreeIs ==
    ASSUME NEW t \in [Table!Entry -> Table!Value], NEW h \in 2 .. PastEnd
    PROVE  /\ Table!FindFree(t, h) \in {FREE, PastEnd} \cup Cluster
           /\ Table!FindFree(t, h) # FREE => t[Table!FindFree(t, h)] = FREE
           /\ Table!FindFree(t, h) = FREE => \A c \in Cluster : t[c] # FREE
           /\ Table!FindFree(t, h) = PastEnd => h = PastEnd
<1> DEFINE ahead == Table!FreeFrom(t, h)
           behind == Table!FreeFrom(t, 2)
<1>1. /\ ahead = {e \in {h} \cup (h .. LastCluster) : t[e] = FREE}
      /\ behind = {e \in {2} \cup (2 .. LastCluster) : t[e] = FREE}
  BY Numbers DEF Table!FreeFrom
<1>2. /\ ahead \in SUBSET Nat /\ behind \in SUBSET Nat
      /\ \A e \in ahead : t[e] = FREE /\ e \in Cluster \cup {PastEnd} /\ (e = PastEnd => h = PastEnd)
      /\ \A e \in behind : t[e] = FREE /\ e \in Cluster
      /\ behind = {} => \A c \in Cluster : t[c] # FREE
  BY <1>1, Numbers
<1>3. Table!FindFree(t, h) = IF ahead # {} THEN Min(ahead)
                             ELSE IF behind # {} THEN Min(behind) ELSE FREE
  <2>1. Table!SearchStart(h) = h
    BY Numbers DEF Table!SearchStart
  <2>2. Table!Min(ahead) = Min(ahead) /\ Table!Min(behind) = Min(behind)
    BY DEF Table!Min, Min
  <2> QED
    BY <2>1, <2>2, Numbers DEF Table!FindFree
<1> HIDE DEF ahead, behind
<1>4. (ahead # {} => Min(ahead) \in ahead) /\ (behind # {} => Min(behind) \in behind)
  BY <1>2, MinIsLeast
<1> DEFINE new == Table!FindFree(t, h)
<1>5. CASE ahead # {}
  <2>1. new \in ahead
    BY <1>3, <1>4, <1>5
  <2> HIDE DEF new
  <2>2. t[new] = FREE /\ new \in Cluster \cup {PastEnd} /\ (new = PastEnd => h = PastEnd)
    BY <2>1, <1>2
  <2>3. new # FREE /\ (new \in Cluster => new # PastEnd)
    BY <2>2, Numbers
  <2> QED
    BY <2>2, <2>3 DEF new
<1>6. CASE ahead = {} /\ behind # {}
  <2>1. new \in behind
    BY <1>3, <1>4, <1>6
  <2> HIDE DEF new
  <2>2. t[new] = FREE /\ new \in Cluster
    BY <2>1, <1>2
  <2>3. new # FREE /\ (new \in Cluster => new # PastEnd)
    BY <2>2, Numbers
  <2> QED
    BY <2>2, <2>3 DEF new
<1>7. CASE ahead = {} /\ behind = {}
  <2>1. new = FREE
    BY <1>3, <1>7
  <2> HIDE DEF new
  <2> QED
    BY <2>1, <1>2, <1>7, Numbers DEF new
<1> QED
  BY <1>5, <1>6, <1>7

\* The new cluster is written, if at all, into the table's own entries.
LEMMA LinkIsFirm ==
    ASSUME NEW t \in [Table!Entry -> Table!Value], NEW h \in 2 .. PastEnd, Firm(t, h),
           NEW c \in Table!Entry
    PROVE  LET r == Table!LinkFreeCluster(t, h, c) IN Firm(r.table, r.firstFree)
<1> DEFINE r == Table!LinkFreeCluster(t, h, c)
           new == Table!FindFree(t, h)
<1>1. /\ new \in {FREE, PastEnd} \cup Cluster
      /\ new # FREE => t[new] = FREE
      /\ new = FREE => \A d \in Cluster : t[d] # FREE
      /\ new = PastEnd => h = PastEnd
  BY FindFreeIs
<1>2. /\ ROOT \in Table!Entry /\ PastEnd \in Table!Entry /\ ROOT \notin Cluster /\ PastEnd \notin Cluster
      /\ Cluster \subseteq Table!Entry /\ FREE \notin Cluster /\ FREE # PastEnd /\ EOF # FREE
      /\ Table!Cluster = Cluster /\ Table!PastEnd = PastEnd /\ Table!CLUSTER_EOF = EOF
      /\ Table!CLUSTER_FREE = FREE
  BY Numbers
<1> HIDE DEF new
<1>3. CASE c > LastCluster \/ Table!HasLink(t, c)
  <2>1. r.table = t /\ r.firstFree = h
    BY <1>3 DEF Table!LinkFreeCluster
  <2> QED
    BY <2>1
<1>4. CASE ~(c > LastCluster \/ Table!HasLink(t, c)) /\ new = FREE
  <2>1. r.table = t /\ r.firstFree = PastEnd
    BY <1>2, <1>4 DEF Table!LinkFreeCluster, new
  <2> QED
    BY <2>1, <1>1, <1>4 DEF Firm
<1>5. CASE ~(c > LastCluster \/ Table!HasLink(t, c)) /\ new # FREE
  <2> DEFINE l == Table!LinkTo(t, c, new)
  <2>1. r.table = Table!MarkEnd(l, new) /\ r.firstFree = new
    BY <1>2, <1>5 DEF Table!LinkFreeCluster, new
  <2>2. l = t \/ (c \in Cluster /\ l = [t EXCEPT ![c] = new])
    BY <1>2 DEF Table!LinkTo, Table!WriteFatEntry
  <2> HIDE DEF l
  <2>3. /\ \A e \in Table!Entry : l[e] = t[e] \/ (e \in Cluster /\ l[e] = new)
        /\ l \in [Table!Entry -> Table!Value \cup {new}]
    BY <2>2, <1>2
  <2>4. r.table = l \/ (new \in Cluster /\ r.table = [l EXCEPT ![new] = EOF])
    BY <2>1, <1>2 DEF Table!MarkEnd, Table!WriteFatEntry
  <2>5. \A e \in Table!Entry : r.table[e] = l[e] \/ (e \in Cluster /\ r.table[e] = EOF)
    BY <2>3, <2>4, <1>2
  <2>6. r.table[ROOT] = EOF /\ r.table[PastEnd] = FREE
    BY <2>3, <2>5, <1>2 DEF Firm
  <2>7. ASSUME r.firstFree = PastEnd, NEW d \in Cluster
        PROVE  r.table[d] # FREE
    <3>1. t[d] # FREE
      BY <2>1, <2>7, <1>1 DEF Firm
    <3>2. d \in Table!Entry
      BY <1>2
    <3>3. r.table[d] \in {t[d], new, EOF}
      BY <2>3, <2>5, <3>2
    <3> QED
      BY <3>1, <3>3, <1>2, <1>5
  <2> QED
    BY <2>6, <2>7 DEF Firm
<1> QED
  BY <1>3, <1>4, <1>5

LEMMA ChainOfNone ==
    ASSUME NEW t, NEW c, c \notin Cluster
    PROVE  Table!Chain(t, c) = {}
<1>1. {c} \cap Table!Cluster = {} /\ {} \in SUBSET Table!Cluster
  BY Numbers
<1>2. Table!ClosedUnder(t, {})
  BY DEF Table!ClosedUnder
<1> QED
  BY <1>1, <1>2 DEF Table!Chain

\* A free cluster is linked: what is left as it is, and what the caller gets.
LEMMA LinkFreeTyped ==
    ASSUME NEW v, Typed(v), NEW c \in Table!Entry
    PROVE  /\ Typed(LinkFree(v, c).vol)
           /\ LinkFree(v, c).cluster \in {FREE, PastEnd} \cup Cluster
           /\ LinkFree(v, c).vol.cells = v.cells /\ LinkFree(v, c).vol.cwd = v.cwd
<1> DEFINE r == Table!LinkFreeCluster(v.table, v.firstFree, c)
           new == Table!FindFree(v.table, v.firstFree)
<1>0. v.table \in [Table!Entry -> Table!Value] /\ v.firstFree \in 2 .. PastEnd /\ v.table[c] \in Table!Value
  BY VolumeFields
<1>1. new \in {FREE, PastEnd} \cup Cluster
  BY <1>0, FindFreeIs
<1>2. ASSUME NEW t \in [Table!Entry -> Table!Value], NEW d, NEW x \in Table!Value
      PROVE  Table!WriteFatEntry(t, d, x) \in [Table!Entry -> Table!Value]
  BY Numbers DEF Table!WriteFatEntry
<1>3. Table!MarkEnd(Table!LinkTo(v.table, c, new), new) \in [Table!Entry -> Table!Value]
  <2>1. new \in Table!Value /\ EOF \in Table!Value
    BY <1>1, Numbers
  <2>2. Table!LinkTo(v.table, c, new) \in [Table!Entry -> Table!Value]
    BY <1>0, <1>2, <2>1 DEF Table!LinkTo
  <2> QED
    BY <1>2, <2>1, <2>2, Numbers DEF Table!MarkEnd
<1>4. /\ r.table \in [Table!Entry -> Table!Value] /\ r.firstFree \in 2 .. PastEnd
      /\ r.ret \in {FREE, PastEnd} \cup Cluster
  <2> HIDE DEF new
  <2>1. CASE c > LastCluster \/ Table!HasLink(v.table, c)
    BY <2>1, <1>0, Numbers DEF Table!LinkFreeCluster, Table!HasLink
  <2>2. CASE ~(c > LastCluster \/ Table!HasLink(v.table, c)) /\ new = FREE
    <3>1. r.table = v.table /\ r.firstFree = PastEnd /\ r.ret = FREE
      BY <2>2, Numbers DEF Table!LinkFreeCluster, new
    <3> QED
      BY <3>1, <1>0, Numbers
  <2>3. CASE ~(c > LastCluster \/ Table!HasLink(v.table, c)) /\ new # FREE
    <3>1. r.table = Table!MarkEnd(Table!LinkTo(v.table, c, new), new) /\ r.firstFree = new /\ r.ret = new
      BY <2>3, Numbers DEF Table!LinkFreeCluster, new
    <3> QED
      BY <3>1, <1>1, <1>3, <2>3, Numbers
  <2> QED
    BY <2>1, <2>2, <2>3
<1>5. /\ LinkFree(v, c).vol = [v EXCEPT !.table = r.table, !.firstFree = r.firstFree]
      /\ LinkFree(v, c).cluster = r.ret
  BY DEF LinkFree, Linked
<1>6. Firm(r.table, r.firstFree)
  <2>1. Firm(v.table, v.firstFree)
    BY FirmVolume
  <2> QED
    BY <1>0, <2>1, LinkIsFirm
<1> HIDE DEF r
<1>7. v \in Volume /\ \A a \in Areas : Len(v.cells[a]) = SlotsOf(a)
  BY DEF Typed
<1>8. LinkFree(v, c).vol \in Volume
  BY <1>4, <1>5, <1>7, Numbers DEF Volume
<1> QED
  BY <1>4, <1>5, <1>6, <1>7, <1>8 DEF Typed, Volume

LEMMA FreedTyped ==
    ASSUME NEW v, Typed(v), NEW c \in Table!Entry
    PROVE  Typed(Freed(v, c)) /\ Freed(v, c).cells = v.cells /\ Freed(v, c).cwd = v.cwd
<1>1. Table!ClearLinks(v.table, c) \in [Table!Entry -> Table!Value]
  BY VolumeFields, Numbers DEF Table!ClearLinks
<1>2. Table!LoweredHint(v.firstFree, c) \in 2 .. PastEnd
  BY VolumeFields, Numbers DEF Table!LoweredHint
<1> DEFINE t == Table!ClearLinks(v.table, c)
           h == Table!LoweredHint(v.firstFree, c)
<1>3. /\ v \in Volume /\ Firm(v.table, v.firstFree)
      /\ \A a \in Areas : Len(v.cells[a]) = SlotsOf(a)
  BY DEF Typed
<1>4. Freed(v, c) = [v EXCEPT !.table = t, !.firstFree = h]
  BY DEF Freed
<1>5. Firm(t, h)
  <2>1. /\ \A e \in Table!Entry : t[e] = IF e \in Table!Chain(v.table, c) THEN FREE ELSE v.table[e]
        /\ Table!Chain(v.table, c) \subseteq Cluster
        /\ ROOT \in Table!Entry /\ PastEnd \in Table!Entry /\ ROOT \notin Cluster /\ PastEnd \notin Cluster
        /\ Cluster \subseteq Table!Entry
    <3>1. Table!Chain(v.table, c) \subseteq Cluster
      BY Numbers DEF Table!Chain
    <3>2. \A e \in Table!Entry : t[e] = IF e \in Table!Chain(v.table, c) THEN FREE ELSE v.table[e]
      BY Numbers, Zenon DEF Table!ClearLinks
    <3> HIDE DEF t
    <3> QED
      BY <3>1, <3>2, Numbers
  <2> HIDE DEF t
  <2>2. t[ROOT] = EOF /\ t[PastEnd] = FREE
    BY <2>1, <1>3 DEF Firm
  <2>3. ASSUME h = PastEnd
        PROVE  \A d \in Cluster : t[d] # FREE
    <3>1. v.firstFree = PastEnd /\ c \notin Cluster
      BY <2>3, VolumeFields, Numbers DEF Table!LoweredHint
    <3>2. Table!Chain(v.table, c) = {}
      BY <3>1, ChainOfNone
    <3> QED
      BY <3>1, <3>2, <2>1, <1>3 DEF Firm
  <2> QED
    BY <2>2, <2>3 DEF Firm
<1> HIDE DEF t, h
<1>6. Freed(v, c) \in Volume
  BY <1>1, <1>2, <1>3, <1>4, Numbers DEF Volume, t, h
<1> QED
  BY <1>3, <1>4, <1>5, <1>6 DEF Typed, Volume

------------------------------------------------------------------------
(* The walk along a directory.                                             *)

\* A walk has come to the end of an area, and an area has two slots at least.
Walks == {so \in Seq(Position) : Len(so) >= 2 /\ so[Len(so)][2] = SlotsOf(so[Len(so)][1])}

LEMMA AreaSlotsTyped ==
    ASSUME NEW v, Typed(v), NEW a \in Areas
    PROVE  /\ AreaSlots(v, a) \in Walks
           /\ Len(AreaSlots(v, a)) = SlotsOf(a)
           /\ \A i \in 1 .. SlotsOf(a) : AreaSlots(v, a)[i] = <<a, i>>
<1>1. AreaSlots(v, a) = [i \in 1 .. SlotsOf(a) |-> <<a, i>>]
  BY VolumeFields DEF AreaSlots
<1>2. SlotsOf(a) \in Nat /\ SlotsOf(a) >= 2
  BY SlotsOfIsPositive
<1>3. \A i \in 1 .. SlotsOf(a) : <<a, i>> \in Position
  BY IsPosition
<1>4. AreaSlots(v, a) \in Seq(Position) /\ Len(AreaSlots(v, a)) = SlotsOf(a)
  BY <1>1, <1>2, <1>3
<1> QED
  BY <1>1, <1>2, <1>4 DEF Walks

LEMMA EndsIs ==
    ASSUME NEW v, Typed(v), NEW p \in Position
    PROVE  Ends(v, p) <=> /\ p[2] = SlotsOf(p[1])
                          /\ p[1] = ROOT \/ v.table[p[1]] = EOF
  BY VolumeFields, PositionFields DEF Ends, LastOfArea

\* Where a walk goes on.
LEMMA OnwardArea ==
    ASSUME NEW v, Typed(v), NEW p \in Position, p[1] # ROOT, v.table[p[1]] # EOF
    PROVE  v.table[p[1]] \in Table!Entry /\ Area(v.table[p[1]]) \in Areas
  BY VolumeFields, PositionFields, AreaIsArea, Numbers

LEMMA LongerTyped ==
    ASSUME NEW v, Typed(v), NEW so \in Walks
    PROVE  Longer(v, so) \in Walks
<1> DEFINE p == so[Len(so)]
           next == AreaSlots(v, Area(v.table[p[1]]))
<1>1. so \in Seq(Position) /\ Len(so) \in Nat /\ Len(so) >= 2 /\ p \in Position
      /\ p[2] = SlotsOf(p[1]) /\ Last(so) = p
  BY DEF Walks, Last
<1>2. CASE Ends(v, p)
  BY <1>1, <1>2 DEF Longer
<1>3. CASE ~Ends(v, p)
  <2>1. Area(v.table[p[1]]) \in Areas
    BY <1>1, <1>3, EndsIs, OnwardArea
  <2>2. next \in Walks
    BY <2>1, AreaSlotsTyped
  <2>3. Longer(v, so) = so \o next
    BY <1>1, <1>3 DEF Longer
  <2> HIDE DEF next, p
  <2>4. next \in Seq(Position) /\ Len(next) \in Nat /\ Len(next) >= 2
        /\ next[Len(next)][2] = SlotsOf(next[Len(next)][1])
    BY <2>2 DEF Walks
  <2>5. so \o next \in Seq(Position) /\ Len(so \o next) = Len(so) + Len(next)
        /\ (so \o next)[Len(so) + Len(next)] = next[Len(next)]
    BY <1>1, <2>4
  <2>6. Len(so \o next) >= 2
    BY <2>5, <1>1, <2>4
  <2> QED
    BY <2>3, <2>4, <2>5, <2>6 DEF Walks
<1> QED
  BY <1>2, <1>3

\* The walk is what its recursion says.
LEMMA WalkIs ==
    ASSUME NEW v, Typed(v), NEW c \in Table!Entry
    PROVE  /\ Walk(v, c)[0] = AreaSlots(v, Area(c))
           /\ \A k \in 1 .. PastEnd : Walk(v, c)[k] = Longer(v, Walk(v, c)[k - 1])
           /\ \A k \in 0 .. PastEnd : Walk(v, c)[k] \in Walks
<1> DEFINE a == AreaSlots(v, Area(c))
           f == [x \in Nat \X Walks |-> Longer(v, x[2])]
           Solves(w) == w = [k \in 0 .. PastEnd |-> IF k = 0 THEN a ELSE Longer(v, w[k - 1])]
           W == Walk(v, c)
<1>1. a \in Walks
  BY AreaIsArea, AreaSlotsTyped
<1>2. f \in [Nat \X Walks -> Walks]
  BY LongerTyped
<1>3. PastEnd \in Nat /\ 0 <= PastEnd
  BY Numbers
<1>4. PICK g : Follows(g, Walks, a, 0, PastEnd, f)
  <2> HIDE DEF a, f
  <2> QED BY <1>1, <1>2, <1>3, RecursionExists
<1>5. ASSUME NEW k \in 0 .. PastEnd
      PROVE  g[k] = IF k = 0 THEN a ELSE Longer(v, g[k - 1])
  <2>1. CASE k = 0
    BY <2>1, <1>4 DEF Follows
  <2>2. CASE k # 0
    <3>1. k \in 0 + 1 .. PastEnd /\ k - 1 \in 0 .. PastEnd /\ k \in Nat
      BY <2>2, <1>3
    <3>2. <<k, g[k - 1]>> \in Nat \X Walks
      BY <3>1, <1>4 DEF Follows
    <3> QED
      BY <2>2, <3>1, <3>2, <1>4 DEF Follows
  <2> QED
    BY <2>1, <2>2
<1>6. Solves(g)
  <2> HIDE DEF a, f
  <2> QED BY <1>4, <1>5 DEF Follows
<1>7. W = CHOOSE w : Solves(w)
  BY DEF Walk
<1>8. Solves(W)
  <2> HIDE DEF Solves, W
  <2> QED BY <1>6, <1>7
<1>9. W[0] = a /\ \A k \in 1 .. PastEnd : W[k] = Longer(v, W[k - 1])
  <2> HIDE DEF W, a
  <2> QED BY <1>8, <1>3
<1>10. \A k \in 0 .. PastEnd : W[k] \in Walks
  <2> HIDE DEF W, a, f
  <2> DEFINE S == {k \in Nat : W[k] \in Walks}
  <2>1. 0 \in S
    BY <1>9, <1>1
  <2>2. \A k \in 0 + 1 .. PastEnd : k - 1 \in S => k \in S
    BY <1>9, <1>3, LongerTyped
  <2>3. 0 .. PastEnd \subseteq S
    <3> HIDE DEF S
    <3> QED BY <2>1, <2>2, <1>3, UpTo
  <2> QED
    BY <2>3
<1> QED
  BY <1>9, <1>10

LEMMA SlotsTyped ==
    ASSUME NEW v, Typed(v), NEW c \in Table!Entry
    PROVE  Slots(v, c) \in Walks
  BY WalkIs, Numbers DEF Slots

------------------------------------------------------------------------
(* Looking up names.                                                       *)

Found == [found : BOOLEAN, pos : Position, entry : EntrySlot]

LEMMA NotFoundTyped ==
    NotFound \in Found
<1>1. <<ROOT, 1>> \in Position
  BY Numbers, IsPosition DEF SlotsOf
<1> QED
  BY <1>1, MarksAreSlots DEF NotFound, Found

\* A slot that holds an entry is one of EntrySlot.
LEMMA EntryKind ==
    ASSUME NEW s \in Slot
    PROVE  s.kind = "entry" <=> s \in EntrySlot
  BY DEF Slot, EntrySlot, EndMark, Free, Label, Residue

\* A slot of a walk.
LEMMA WalkSlot ==
    ASSUME NEW v, Typed(v), NEW so \in Walks, NEW i \in DOMAIN so
    PROVE  so[i] \in Position /\ At(v, so[i]) \in Slot /\ i \in 1 .. Len(so)
<1>1. so[i] \in Position /\ i \in 1 .. Len(so)
  BY DEF Walks
<1> QED
  BY <1>1, AtIsSlot

\* A lookup answers with the first of the slots that fit.
LEMMA LookupInIs ==
    ASSUME NEW v, Typed(v), NEW so \in Walks, NEW n, NEW more \in BOOLEAN
    PROVE  /\ Hits(v, so, n, more) = {} => LookupIn(v, so, n, more) = NotFound
           /\ Hits(v, so, n, more) # {} =>
                \E i \in Hits(v, so, n, more) :
                    /\ \A j \in Hits(v, so, n, more) : i <= j
                    /\ so[i] \in Position /\ At(v, so[i]) \in EntrySlot
                    /\ LookupIn(v, so, n, more) =
                            [found |-> TRUE, pos |-> so[i], entry |-> At(v, so[i])]
<1> DEFINE hits == Hits(v, so, n, more)
<1>1. \A i \in hits : i \in DOMAIN so /\ At(v, so[i]).kind = "entry"
  BY DEF Hits, Listed
<1>2. hits \in SUBSET Nat
  BY <1>1 DEF Walks
<1>3. LookupIn(v, so, n, more) = IF hits = {} THEN NotFound ELSE FoundAt(v, so[Min(hits)])
  BY DEF LookupIn, FirstOf
<1>4. ASSUME hits # {}
      PROVE  \E i \in hits : /\ \A j \in hits : i <= j
                             /\ so[i] \in Position /\ At(v, so[i]) \in EntrySlot
                             /\ LookupIn(v, so, n, more) =
                                    [found |-> TRUE, pos |-> so[i], entry |-> At(v, so[i])]
  <2> DEFINE i == Min(hits)
  <2>1. i \in hits /\ \A j \in hits : i <= j
    <3> HIDE DEF hits
    <3> QED BY <1>2, <1>4, MinIsLeast
  <2> HIDE DEF hits, i
  <2>2. so[i] \in Position /\ At(v, so[i]) \in Slot /\ At(v, so[i]).kind = "entry"
    BY <2>1, <1>1, WalkSlot
  <2>3. LookupIn(v, so, n, more) = [found |-> TRUE, pos |-> so[i], entry |-> At(v, so[i])]
    BY <1>3, <1>4 DEF FoundAt, i
  <2> QED
    BY <2>1, <2>2, <2>3, EntryKind
<1> QED
  BY <1>3, <1>4

LEMMA LookupTyped ==
    ASSUME NEW v, Typed(v), NEW c \in Table!Entry, NEW n, NEW more \in BOOLEAN
    PROVE  Lookup(v, c, n, more) \in Found
<1>1. Slots(v, c) \in Walks
  BY SlotsTyped
<1>2. Lookup(v, c, n, more) = LookupIn(v, Slots(v, c), n, more)
  BY DEF Lookup
<1>3. CASE Hits(v, Slots(v, c), n, more) = {}
  BY <1>1, <1>2, <1>3, LookupInIs, NotFoundTyped
<1>4. CASE Hits(v, Slots(v, c), n, more) # {}
  <2>1. PICK i : /\ Slots(v, c)[i] \in Position /\ At(v, Slots(v, c)[i]) \in EntrySlot
                 /\ LookupIn(v, Slots(v, c), n, more) =
                       [found |-> TRUE, pos |-> Slots(v, c)[i], entry |-> At(v, Slots(v, c)[i])]
    BY <1>1, <1>4, LookupInIs
  <2> QED
    BY <2>1, <1>2 DEF Found
<1> QED
  BY <1>3, <1>4

LEMMA BelowTyped ==
    ASSUME NEW v, Typed(v), NEW dir \in Found, NEW n, NEW more \in BOOLEAN
    PROVE  Below(v, dir, n, more) \in Found
<1>1. dir.entry.cluster \in Table!Entry
  BY DEF Found, EntrySlot
<1> QED
  BY <1>1, LookupTyped, NotFoundTyped DEF Below

LEMMA PathFields ==
    ASSUME NEW p \in Paths
    PROVE  /\ p.abs \in BOOLEAN /\ Len(p.names) \in Nat
           /\ \A i \in 1 .. Len(p.names) : p.names[i] \in Names \cup {".", ".."}
           /\ p.names \in Seq(Names \cup {".", ".."})
           /\ p = [abs |-> p.abs, names |-> p.names]
           /\ p.names = <<>> => p = Root
  BY PathsAssumption DEF Root

LEMMA StartTyped ==
    ASSUME NEW v, Typed(v), NEW p \in Paths
    PROVE  StartOf(v, p) \in Found /\ StartOf(v, p).found
           /\ StartOf(v, p).entry.cluster = (IF p.abs THEN ROOT ELSE v.cwd)
           /\ StartOf(v, p).entry.dir
<1>1. (IF p.abs THEN ROOT ELSE v.cwd) \in Table!Entry
  BY VolumeFields, Numbers
<1>2. NotFound \in Found /\ NotFound.entry.dir
  BY NotFoundTyped DEF NotFound, RootEntry, Entry
<1> QED
  BY <1>1, <1>2 DEF StartOf, Found, EntrySlot

LEMMA TrailIs ==
    ASSUME NEW v, Typed(v), NEW p \in Paths
    PROVE  /\ Trail(v, p)[0] = StartOf(v, p)
           /\ \A i \in 1 .. Len(p.names) :
                Trail(v, p)[i] = Below(v, Trail(v, p)[i - 1], p.names[i], i < Len(p.names))
           /\ \A i \in 0 .. Len(p.names) : Trail(v, p)[i] \in Found
<1> DEFINE n == Len(p.names)
           a == StartOf(v, p)
           f == [x \in Nat \X Found |-> Below(v, x[2], p.names[x[1]], x[1] < n)]
           Solves(w) == w = [i \in 0 .. n |-> IF i = 0 THEN a
                                              ELSE Below(v, w[i - 1], p.names[i], i < n)]
           W == Trail(v, p)
<1>1. a \in Found
  BY StartTyped
<1>2. f \in [Nat \X Found -> Found]
  <2>1. ASSUME NEW x \in Nat \X Found
        PROVE  Below(v, x[2], p.names[x[1]], x[1] < n) \in Found
    <3>1. x[2] \in Found /\ (x[1] < n) \in BOOLEAN
      OBVIOUS
    <3> QED
      BY <3>1, BelowTyped
  <2> QED
    BY <2>1
<1>3. n \in Nat /\ 0 <= n
  BY PathFields
<1>4. PICK g : Follows(g, Found, a, 0, n, f)
  <2> HIDE DEF a, f, n
  <2> QED BY <1>1, <1>2, <1>3, RecursionExists
<1>5. ASSUME NEW k \in 0 .. n
      PROVE  g[k] = IF k = 0 THEN a ELSE Below(v, g[k - 1], p.names[k], k < n)
  <2> HIDE DEF n
  <2>1. CASE k = 0
    BY <2>1, <1>4 DEF Follows
  <2>2. CASE k # 0
    <3>1. k \in 0 + 1 .. n /\ k - 1 \in 0 .. n /\ k \in Nat
      BY <2>2, <1>3
    <3>2. <<k, g[k - 1]>> \in Nat \X Found
      BY <3>1, <1>4 DEF Follows
    <3> QED
      BY <2>2, <3>1, <3>2, <1>4 DEF Follows
  <2> QED
    BY <2>1, <2>2
<1>6. Solves(g)
  <2> HIDE DEF a, f, n
  <2> QED BY <1>4, <1>5 DEF Follows
<1>7. W = CHOOSE w : Solves(w)
  BY DEF Trail
<1>8. Solves(W)
  <2> HIDE DEF Solves, W
  <2> QED BY <1>6, <1>7
<1>9. W[0] = a /\ \A k \in 1 .. n : W[k] = Below(v, W[k - 1], p.names[k], k < n)
  <2> HIDE DEF W, a, n
  <2> QED BY <1>8, <1>3
<1>10. \A k \in 0 .. n : W[k] \in Found
  <2> HIDE DEF W, a, f, n
  <2> DEFINE S == {k \in Nat : W[k] \in Found}
  <2>1. 0 \in S
    BY <1>9, <1>1
  <2>2. ASSUME NEW k \in 0 + 1 .. n, k - 1 \in S
        PROVE  k \in S
    <3>1. W[k - 1] \in Found /\ k \in 1 .. n /\ (k < n) \in BOOLEAN
      BY <2>2
    <3>2. Below(v, W[k - 1], p.names[k], k < n) \in Found
      BY <3>1, BelowTyped
    <3> QED
      BY <3>1, <3>2, <1>9
  <2>3. 0 .. n \subseteq S
    <3> HIDE DEF S
    <3> QED BY <2>1, <2>2, <1>3, UpTo
  <2> QED
    BY <2>3
<1> QED
  BY <1>9, <1>10

LEMMA ResolveTyped ==
    ASSUME NEW v, Typed(v), NEW p \in Paths, NEW k \in 0 .. Len(p.names)
    PROVE  Resolve(v, p, k) \in Found
  BY TrailIs DEF Resolve

LEMMA EntryFromPathTyped ==
    ASSUME NEW v, Typed(v), NEW p \in Paths
    PROVE  EntryFromPath(v, p) \in Found
<1>1. Len(p.names) \in 0 .. Len(p.names)
  BY PathFields
<1>2. [NotFound EXCEPT !.found = TRUE] \in Found
  BY NotFoundTyped DEF Found
<1> QED
  BY <1>1, <1>2, ResolveTyped DEF EntryFromPath

\* A new entry has a name, and a directory it goes to.
LEMMA ParentTyped ==
    ASSUME NEW v, Typed(v), NEW p \in NewPaths
    PROVE  p \in Paths /\ Leaf(p) \in Names /\ Parent(v, p) \in Found /\ Len(p.names) >= 1
<1>1. p \in Paths /\ Leaf(p) \in Names /\ p.names # <<>>
  BY DEF NewPaths
<1>2. Len(p.names) - 1 \in 0 .. Len(p.names) /\ Len(p.names) >= 1
  <2>1. Len(p.names) \in Nat /\ p.names \in Seq(Names \cup {".", ".."})
    BY <1>1, PathFields
  <2>2. Len(p.names) # 0
    BY <2>1, <1>1
  <2> QED
    BY <2>1, <2>2
<1> QED
  BY <1>1, <1>2, ResolveTyped DEF Parent

------------------------------------------------------------------------
(* Entries are added and deleted.                                          *)

StepTyped(r) == r.ok \in BOOLEAN /\ Typed(r.vol) /\ r.pos \in Position

LEMMA StepOnTyped ==
    ASSUME NEW v, Typed(v), NEW p \in Position
    PROVE  StepTyped(StepOn(v, p))
<1> DEFINE new == LinkFree(v, p[1])
<1>0. p[1] \in Areas /\ p[2] \in 1 .. SlotsOf(p[1]) /\ Len(v.cells[p[1]]) = SlotsOf(p[1])
  BY VolumeFields, PositionFields
<1>1. CASE ~LastOfArea(v, p)
  <2>1. p[2] + 1 \in 1 .. SlotsOf(p[1])
    BY <1>0, <1>1, SlotsOfIsPositive DEF LastOfArea
  <2>2. <<p[1], p[2] + 1>> \in Position
    BY <2>1, <1>0, IsPosition
  <2> QED
    BY <1>1, <2>2 DEF StepOn, Step, StepTyped
<1>2. CASE LastOfArea(v, p) /\ p[1] = ROOT
  BY <1>2 DEF StepOn, Step, StepTyped
<1>3. CASE LastOfArea(v, p) /\ p[1] # ROOT /\ v.table[p[1]] # EOF
  <2>1. Area(v.table[p[1]]) \in Areas
    BY <1>3, OnwardArea
  <2>2. <<Area(v.table[p[1]]), 1>> \in Position
    BY <2>1, IsPosition, SlotsOfIsPositive
  <2> QED
    BY <1>3, <2>2 DEF StepOn, Step, StepTyped
<1>4. CASE LastOfArea(v, p) /\ p[1] # ROOT /\ v.table[p[1]] = EOF
  <2>1. StepOn(v, p) = Grown(new, p)
    BY <1>4 DEF StepOn
  <2>2. p[1] \in Table!Entry
    BY <1>0, Numbers
  <2>3. Typed(new.vol) /\ new.cluster \in {FREE, PastEnd} \cup Cluster
    BY <2>2, LinkFreeTyped
  <2> HIDE DEF new
  <2>4. CASE new.cluster = FREE
    BY <2>1, <2>3, <2>4 DEF Grown, Step, StepTyped
  <2>5. CASE new.cluster # FREE
    <3>1. new.cluster \in 2 .. PastEnd /\ new.cluster \in Areas
      BY <2>3, <2>5, Numbers
    <3>2. Typed(Blank(new.vol, new.cluster))
      BY <2>3, <3>1, BlankTyped
    <3>3. <<new.cluster, 1>> \in Position
      BY <3>1, IsPosition, SlotsOfIsPositive
    <3> QED
      BY <2>1, <2>5, <3>2, <3>3 DEF Grown, Step, StepTyped
  <2> QED
    BY <2>4, <2>5
<1> QED
  BY <1>1, <1>2, <1>3, <1>4

LEMMA AtMarkTyped ==
    ASSUME NEW v, Typed(v), NEW p \in Position
    PROVE  StepTyped(AtMark(v, p))
<1>1. StepTyped(StepOn(v, p))
  BY StepOnTyped
<1>2. Typed(Put(StepOn(v, p).vol, StepOn(v, p).pos, EndMark))
  BY <1>1, PutTyped, MarksAreSlots DEF StepTyped
<1> QED
  BY <1>1, <1>2 DEF AtMark, MarkedAfter, StepTyped, Step

LEMMA FindEntryGapTyped ==
    ASSUME NEW v, Typed(v), NEW c \in Table!Entry
    PROVE  StepTyped(FindEntryGap(v, c))
<1> DEFINE s == Slots(v, c)
           gaps == {i \in DOMAIN s : At(v, s[i]) \in {EndMark, Free}}
<1>1. s \in Walks /\ FindEntryGap(v, c) = GapAmong(v, s)
  BY SlotsTyped DEF FindEntryGap
<1> HIDE DEF s
<1>2. CASE gaps = {}
  <2>1. Last(s) \in Position
    BY <1>1 DEF Walks, Last
  <2>2. StepTyped(StepOn(v, Last(s)))
    BY <2>1, StepOnTyped
  <2>3. StepTyped(BehindLast(StepOn(v, Last(s))))
    BY <2>2, AtMarkTyped DEF BehindLast, StepTyped
  <2>4. GapAmong(v, s) = BehindLast(StepOn(v, Last(s)))
    BY <1>2 DEF GapAmong
  <2> QED
    BY <1>1, <2>3, <2>4
<1>3. CASE gaps # {}
  <2> DEFINE p == s[Min(gaps)]
  <2>1. gaps \in SUBSET Nat
    BY <1>1 DEF Walks
  <2>2. Min(gaps) \in gaps
    <3> HIDE DEF gaps
    <3> QED BY <2>1, <1>3, MinIsLeast
  <2>3. p \in Position
    <3>1. Min(gaps) \in DOMAIN s
      BY <2>2
    <3> HIDE DEF gaps
    <3> QED BY <3>1, <1>1, WalkSlot
  <2>4. GapAmong(v, s) = IF At(v, p) = Free THEN Step(TRUE, v, p) ELSE AtMark(v, p)
    BY <1>3 DEF GapAmong
  <2> HIDE DEF p
  <2>5. StepTyped(Step(TRUE, v, p)) /\ StepTyped(AtMark(v, p))
    BY <2>3, AtMarkTyped DEF Step, StepTyped
  <2> QED
    BY <1>1, <2>4, <2>5
<1> QED
  BY <1>2, <1>3

LEMMA AddEntryTyped ==
    ASSUME NEW v, Typed(v), NEW c \in Table!Entry, NEW e \in EntrySlot
    PROVE  StepTyped(AddEntry(v, c, e))
<1> DEFINE gap == FindEntryGap(v, c)
<1>1. StepTyped(gap) /\ e \in Slot
  BY FindEntryGapTyped DEF Slot
<1>2. AddEntry(v, c, e) = Step(FALSE, v, <<ROOT, 1>>) \/ AddEntry(v, c, e) = Filled(gap, e)
  BY DEF AddEntry
<1>3. StepTyped(Step(FALSE, v, <<ROOT, 1>>))
  BY IsPosition, SlotsOfIsPositive, Numbers DEF StepTyped, Step
<1>4. StepTyped(Filled(gap, e))
  <2> HIDE DEF gap
  <2>1. Typed(Put(gap.vol, gap.pos, e))
    BY <1>1, PutTyped DEF StepTyped
  <2> QED
    BY <1>1, <2>1 DEF Filled, StepTyped, Step
<1> QED
  BY <1>2, <1>3, <1>4

LEMMA DeleteEntryTyped ==
    ASSUME NEW v, Typed(v), NEW f \in Found
    PROVE  Typed(DeleteEntry(v, f).vol) /\ DeleteEntry(v, f).ok \in BOOLEAN
<1> DEFINE w == Freed(v, f.entry.cluster)
<1>1. f.entry.cluster \in Table!Entry /\ f.pos \in Position
  BY DEF Found, EntrySlot
<1>2. Typed(w)
  BY <1>1, FreedTyped
<1>3. Typed(Put(w, f.pos, Free))
  BY <1>1, <1>2, PutTyped, MarksAreSlots
<1>4. DeleteEntry(v, f) = IF ~MayDelete(v, f.entry) THEN [ok |-> FALSE, vol |-> v]
                          ELSE [ok |-> f.entry.cluster \in Cluster \cup {FREE} /\ ~Ends(w, f.pos),
                                vol |-> Put(w, f.pos, Free)]
  BY DEF DeleteEntry
<1>5. CASE ~MayDelete(v, f.entry)
  BY <1>4, <1>5
<1>6. CASE MayDelete(v, f.entry)
  <2> HIDE DEF w
  <2> DEFINE ok == f.entry.cluster \in Cluster \cup {FREE} /\ ~Ends(w, f.pos)
  <2>1. DeleteEntry(v, f) = [ok |-> ok, vol |-> Put(w, f.pos, Free)]
    BY <1>4, <1>6
  <2>2. ok \in BOOLEAN
    OBVIOUS
  <2> HIDE DEF ok
  <2> QED
    BY <2>1, <2>2, <1>3
<1> QED
  BY <1>5, <1>6

AnswerTyped(r) == r.ok \in BOOLEAN /\ Typed(r.vol)

LEMMA DeleteFileTyped ==
    ASSUME NEW v, Typed(v), NEW p \in Paths
    PROVE  AnswerTyped(DeleteFile(v, p))
<1>1. EntryFromPath(v, p) \in Found
  BY EntryFromPathTyped
<1> QED
  BY <1>1, DeleteEntryTyped DEF DeleteFile, DeleteFound, Answer, AnswerTyped

------------------------------------------------------------------------
(* Files are written.                                                      *)

LEMMA FilledWithTyped ==
    ASSUME NEW v, Typed(v), NEW c \in Table!Entry, NEW x \in Contents, NEW k \in Nat \ {0}
    PROVE  Typed(FilledWith(v, c, x, k))
<1> DEFINE a == Area(c)
           r == [i \in 1 .. SlotsOf(a) |-> PieceAt(x, k, i, v.cells[a][i])]
<1>1. a \in Areas /\ v.cells[a] \in Seq(Slot) /\ Len(v.cells[a]) = SlotsOf(a)
  BY VolumeFields, AreaIsArea
<1>2. ASSUME NEW i \in 1 .. SlotsOf(a)
      PROVE  PieceAt(x, k, i, v.cells[a][i]) \in Slot
  <2>1. v.cells[a][i] \in Slot /\ EndMark \in Slot
    BY <1>1, MarksAreSlots
  <2> DEFINE piece == (k - 1) * ClusterSlots + i
  <2>2. piece \in Nat
    <3>1. k - 1 \in Nat /\ ClusterSlots \in Nat /\ i \in Nat
      BY <1>1, Numbers, SlotsOfIsPositive
    <3>2. (k - 1) * ClusterSlots \in Nat
      BY <3>1
    <3> HIDE DEF a
    <3> QED
      BY <3>1, <3>2
  <2>3. PieceAt(x, k, i, v.cells[a][i]) = IF i <= ClusterSlots /\ piece <= Length[x] THEN Piece(x, piece)
                                         ELSE IF k = 1 THEN v.cells[a][i] ELSE EndMark
    BY DEF PieceAt
  <2> HIDE DEF piece
  <2>4. Piece(x, piece) \in Slot
    BY <2>2 DEF Piece, Slot
  <2> QED
    BY <2>1, <2>3, <2>4
<1>3. r \in Seq(Slot) /\ Len(r) = SlotsOf(a)
  BY <1>1, <1>2, SlotsOfIsPositive
<1>4. FilledWith(v, c, x, k) = [v EXCEPT !.cells[a] = r]
  BY <1>1 DEF FilledWith
<1> HIDE DEF a, r
<1> QED
  BY <1>1, <1>3, <1>4, CellsTyped

\* What writing has come to.
WriteState == {r \in [ok : BOOLEAN, vol : Volume, cluster : Table!Entry, size : Nat] : Typed(r.vol)}

LEMMA LengthIs ==
    ASSUME NEW x \in Contents
    PROVE  Length[x] \in Nat /\ Length[x] >= 1
  BY SlotsAssumption

\* The sectors a size needs.
LEMMA SectorsIs ==
    ASSUME NEW n \in Nat
    PROVE  Sectors(n) \in Nat /\ (n >= 1 => Sectors(n) >= 1)
<1>1. ClusterSlots \in Nat /\ ClusterSlots >= 1 /\ n + ClusterSlots - 1 \in Nat
  BY Numbers
<1>2. \A i \in Nat, j \in Nat \ {0} : i \div j \in Nat /\ (i >= j => i \div j >= 1)
  BY SMT
<1> QED
  BY <1>1, <1>2 DEF Sectors

LEMMA WriteToTyped ==
    ASSUME NEW v, Typed(v), NEW c \in Table!Entry, NEW x \in Contents, NEW k \in Nat \ {0}
    PROVE  WriteTo(v, c, x, k) \in WriteState
<1> DEFINE n == Min({Length[x], k * ClusterSlots})
<1>1. Length[x] \in Nat /\ k * ClusterSlots \in Nat
  BY LengthIs, Numbers
<1>2. {Length[x], k * ClusterSlots} \in SUBSET Nat /\ {Length[x], k * ClusterSlots} # {}
  BY <1>1
<1>3. n \in {Length[x], k * ClusterSlots}
  BY <1>2, MinIsLeast
<1>4. n \in Nat
  BY <1>1, <1>3
<1>5. Typed(FilledWith(v, c, x, k)) /\ FilledWith(v, c, x, k) \in Volume
  BY FilledWithTyped DEF Typed
<1>6. WriteTo(v, c, x, k) = Written(TRUE, FilledWith(v, c, x, k), c, n)
  BY DEF WriteTo
<1> HIDE DEF n
<1> QED
  BY <1>4, <1>5, <1>6 DEF Written, WriteState

LEMMA NextForWritingTyped ==
    ASSUME NEW v, Typed(v), NEW c \in Table!Entry
    PROVE  Typed(NextForWriting(v, c).vol) /\ NextForWriting(v, c).cluster \in Table!Entry
<1>1. CASE v.table[c] \in {EOF, FREE}
  <2>1. Typed(LinkFree(v, c).vol) /\ LinkFree(v, c).cluster \in {FREE, PastEnd} \cup Cluster
    BY LinkFreeTyped
  <2> QED
    BY <1>1, <2>1, Numbers DEF NextForWriting
<1>2. CASE v.table[c] \notin {EOF, FREE}
  <2>1. v.table[c] \in Table!Entry
    BY <1>2, VolumeFields, Numbers
  <2> QED
    BY <1>2, <2>1 DEF NextForWriting
<1> QED
  BY <1>1, <1>2

LEMMA WriteOnTyped ==
    ASSUME NEW so \in WriteState, NEW x \in Contents, NEW k \in Nat \ {0}
    PROVE  WriteOn(so, x, k) \in WriteState
<1> DEFINE next == NextForWriting(so.vol, so.cluster)
<1>1. Typed(so.vol) /\ so.cluster \in Table!Entry /\ so.size \in Nat
  BY DEF WriteState
<1>2. Typed(next.vol) /\ next.cluster \in Table!Entry
  BY <1>1, NextForWritingTyped
<1>3. WriteOn(so, x, k) = IF so.ok THEN WriteNext(so, next, x, k) ELSE so
  BY DEF WriteOn
<1> HIDE DEF next
<1>4. WriteTo(next.vol, next.cluster, x, k) \in WriteState
  BY <1>2, WriteToTyped
<1>5. Written(FALSE, next.vol, so.cluster, so.size) \in WriteState
  BY <1>1, <1>2 DEF Written, WriteState, Typed
<1> QED
  BY <1>3, <1>4, <1>5 DEF WriteNext

LEMMA WritingIs ==
    ASSUME NEW v, Typed(v), NEW c \in Table!Entry, NEW x \in Contents
    PROVE  /\ Writing(v, c, x)[1] = WriteTo(v, c, x, 1)
           /\ \A k \in 2 .. Sectors(Length[x]) :
                Writing(v, c, x)[k] = WriteOn(Writing(v, c, x)[k - 1], x, k)
           /\ \A k \in 1 .. Sectors(Length[x]) : Writing(v, c, x)[k] \in WriteState
<1> DEFINE n == Sectors(Length[x])
           a == WriteTo(v, c, x, 1)
           f == [y \in Nat \X WriteState |-> IF y[1] = 0 THEN y[2] ELSE WriteOn(y[2], x, y[1])]
           Solves(w) == w = [k \in 1 .. n |-> IF k = 1 THEN a ELSE WriteOn(w[k - 1], x, k)]
           W == Writing(v, c, x)
<1>1. a \in WriteState
  BY WriteToTyped
<1>2. f \in [Nat \X WriteState -> WriteState]
  BY WriteOnTyped
<1>3. n \in Nat /\ 1 <= n
  BY LengthIs, SectorsIs
<1>4. PICK g : Follows(g, WriteState, a, 1, n, f)
  <2> HIDE DEF a, f, n
  <2> QED BY <1>1, <1>2, <1>3, RecursionExists
<1>5. ASSUME NEW k \in 1 .. n
      PROVE  g[k] = IF k = 1 THEN a ELSE WriteOn(g[k - 1], x, k)
  <2> HIDE DEF n
  <2>1. CASE k = 1
    BY <2>1, <1>4 DEF Follows
  <2>2. CASE k # 1
    <3>1. k \in 1 + 1 .. n /\ k - 1 \in 1 .. n /\ k \in Nat /\ k # 0
      BY <2>2, <1>3
    <3>2. <<k, g[k - 1]>> \in Nat \X WriteState
      BY <3>1, <1>4 DEF Follows
    <3>3. f[<<k, g[k - 1]>>] = WriteOn(g[k - 1], x, k)
      BY <3>1, <3>2
    <3>4. g[k] = f[<<k, g[k - 1]>>]
      <4> HIDE DEF f
      <4> QED BY <3>1, <1>4 DEF Follows
    <3> QED
      BY <2>2, <3>3, <3>4
  <2> QED
    BY <2>1, <2>2
<1>6. Solves(g)
  <2> HIDE DEF a, f, n
  <2> QED BY <1>4, <1>5 DEF Follows
<1>7. W = CHOOSE w : Solves(w)
  BY DEF Writing, Pieces
<1>8. Solves(W)
  <2> HIDE DEF Solves, W
  <2> QED BY <1>6, <1>7
<1>9. W[1] = a /\ \A k \in 2 .. n : W[k] = WriteOn(W[k - 1], x, k)
  <2> HIDE DEF W, a, n
  <2> QED BY <1>8, <1>3
<1>10. \A k \in 1 .. n : W[k] \in WriteState
  <2> HIDE DEF W, a, f, n
  <2> DEFINE S == {k \in Nat : W[k] \in WriteState}
  <2>1. 1 \in S
    BY <1>9, <1>1
  <2>2. ASSUME NEW k \in 1 + 1 .. n, k - 1 \in S
        PROVE  k \in S
    <3>1. W[k - 1] \in WriteState /\ k \in 2 .. n /\ k \in Nat \ {0}
      BY <2>2
    <3>2. WriteOn(W[k - 1], x, k) \in WriteState
      BY <3>1, WriteOnTyped
    <3> QED
      BY <3>1, <3>2, <1>9
  <2>3. 1 .. n \subseteq S
    <3> HIDE DEF S
    <3> QED BY <2>1, <2>2, <1>3, UpTo
  <2> QED
    BY <2>3
<1> QED
  BY <1>9, <1>10

LEMMA FileWriteTyped ==
    ASSUME NEW v, Typed(v), NEW c \in Table!Entry, NEW x \in Contents
    PROVE  FileWrite(v, c, x) \in WriteState
<1>1. Sectors(Length[x]) \in 1 .. Sectors(Length[x])
  BY LengthIs, SectorsIs
<1> QED
  BY <1>1, WritingIs DEF FileWrite

LEMMA FileCloseTyped ==
    ASSUME NEW v, Typed(v), NEW p \in Position, NEW c \in Table!Entry, NEW n \in Nat
    PROVE  Typed(FileClose(v, p, c, n))
<1>1. At(v, p) \in Slot
  BY AtIsSlot
<1>2. ASSUME At(v, p).kind = "entry"
      PROVE  [At(v, p) EXCEPT !.cluster = c, !.size = n] \in Slot
  BY <1>1, <1>2, EntryKind DEF EntrySlot, Slot
<1>3. ASSUME At(v, p).kind = "data"
      PROVE  [At(v, p) EXCEPT !.piece = 0] \in Slot
  BY <1>1, <1>3 DEF EntrySlot, Slot, EndMark, Free, Label, Residue
<1> QED
  BY <1>2, <1>3, PutTyped DEF FileClose

------------------------------------------------------------------------
(* The calls keep the types.                                               *)

LEMMA PathLeaf ==
    ASSUME NEW p \in NewPaths, NEW d \in BOOLEAN, NEW c \in Table!Entry
    PROVE  Entry(Leaf(p), d, c, 0) \in EntrySlot
<1>1. Leaf(p) \in Names
  BY DEF NewPaths
<1> QED
  BY <1>1, EntryIsSlot

LEMMA AnswerIsTyped ==
    ASSUME NEW v, Typed(v), NEW ok \in BOOLEAN
    PROVE  AnswerTyped(Answer(ok, v))
  BY DEF Answer, AnswerTyped

LEMMA MkDirTyped ==
    ASSUME NEW v, Typed(v), NEW p \in NewPaths
    PROVE  AnswerTyped(MkDir(v, p))
<1> DEFINE parent == Parent(v, p)
           new == LinkFree(v, FREE)
<1>1. parent \in Found /\ parent.entry.cluster \in Table!Entry
  BY ParentTyped DEF Found, EntrySlot
<1>2. Typed(new.vol) /\ new.cluster \in {FREE, PastEnd} \cup Cluster
  BY LinkFreeTyped, Numbers
<1>3. MkDir(v, p) = Answer(FALSE, v) \/ MkDir(v, p) = MkDirAt(new, Leaf(p), parent.entry.cluster)
  BY DEF MkDir, MkDirIn
<1> HIDE DEF parent, new
<1>4. CASE new.cluster = FREE
  <2>1. MkDirAt(new, Leaf(p), parent.entry.cluster) = Answer(FALSE, new.vol)
    BY <1>4 DEF MkDirAt
  <2>2. AnswerTyped(Answer(FALSE, v)) /\ AnswerTyped(Answer(FALSE, new.vol))
    BY <1>2, AnswerIsTyped
  <2> QED
    BY <1>3, <2>1, <2>2
<1>5. CASE new.cluster # FREE
  <2> DEFINE c == new.cluster
             e == Entry(Leaf(p), TRUE, c, 0)
             d == parent.entry.cluster
             add == AddEntry(Blank(new.vol, c), d, e)
  <2>1. c \in 2 .. PastEnd /\ c \in Areas /\ c \in Table!Entry /\ SlotsOf(c) = ClusterSlots
    BY <1>2, <1>5, Numbers DEF SlotsOf
  <2>2. e \in EntrySlot
    BY <2>1, PathLeaf
  <2>3. Typed(Blank(new.vol, c))
    BY <1>2, <2>1, BlankTyped
  <2>4. StepTyped(add)
    <3> HIDE DEF c, e
    <3> QED BY <1>1, <2>2, <2>3, AddEntryTyped
  <2>5. MkDirAt(new, Leaf(p), d) = WithDots(add, c, d)
    BY <1>5 DEF MkDirAt
  <2>6. Dots(c, d) \in Seq(Slot) /\ Len(Dots(c, d)) = SlotsOf(c)
    <3> HIDE DEF c, d
    <3>1. Entry(".", TRUE, c, 0) \in Slot /\ Entry("..", TRUE, d, 0) \in Slot
      BY <2>1, <1>1, EntryIsSlot DEF d
    <3>2. \A i \in 1 .. ClusterSlots : (CASE i = 1 -> Entry(".", TRUE, c, 0)
                                         [] i = 2 -> Entry("..", TRUE, d, 0)
                                         [] OTHER -> EndMark) \in Slot
      BY <3>1, MarksAreSlots
    <3>3. Dots(c, d) \in [1 .. ClusterSlots -> Slot] /\ ClusterSlots \in Nat
      BY <3>2, Numbers DEF Dots
    <3> HIDE DEF Dots
    <3> QED
      BY <3>3, <2>1
  <2> HIDE DEF add, c, d, e
  <2>7. Typed([add.vol EXCEPT !.cells[c] = Dots(c, d)])
    BY <2>1, <2>4, <2>6, CellsTyped DEF StepTyped
  <2>8. AnswerTyped(WithDots(add, c, d))
    BY <2>4, <2>7, AnswerIsTyped DEF WithDots, StepTyped
  <2>9. AnswerTyped(Answer(FALSE, v))
    BY AnswerIsTyped
  <2> QED
    BY <1>3, <2>5, <2>8, <2>9 DEF d
<1> QED
  BY <1>4, <1>5

LEMMA CdTyped ==
    ASSUME NEW v, Typed(v), NEW p \in Paths
    PROVE  AnswerTyped(Cd(v, p))
<1> DEFINE dir == EntryFromPath(v, p)
           w == [v EXCEPT !.cwd = dir.entry.cluster]
<1>1. dir.entry.cluster \in Table!Entry
  BY EntryFromPathTyped DEF Found, EntrySlot
<1>0. v \in Volume
  BY DEF Typed
<1>2. Cd(v, p) = Answer(TRUE, w) \/ Cd(v, p) = Answer(FALSE, v)
  BY DEF Cd, CdTo
<1> HIDE DEF dir
<1>3. Typed(w)
  BY <1>1 DEF Typed, Volume
<1> QED
  BY <1>2, <1>3, AnswerIsTyped

\* A file that has been created has a slot and a first cluster.
CreateTyped(r) ==
    AnswerTyped(r) /\ (r.ok => r.pos \in Position /\ r.cluster \in Table!Entry)

LEMMA CreateInTyped ==
    ASSUME NEW v, Typed(v), NEW p \in NewPaths
    PROVE  CreateTyped(CreateIn(v, p, Parent(v, p)))
<1> DEFINE parent == Parent(v, p)
           add == AddEntry(v, parent.entry.cluster, Entry(Leaf(p), FALSE, 0, 0))
           new == LinkFree(add.vol, FREE)
<1>1. parent.entry.cluster \in Table!Entry
  BY ParentTyped DEF Found, EntrySlot
<1>2. Entry(Leaf(p), FALSE, 0, 0) \in EntrySlot
  <2>1. 0 \in Table!Entry
    BY Numbers
  <2> QED
    BY <2>1, PathLeaf
<1>3. StepTyped(add)
  <2> HIDE DEF parent
  <2> QED BY <1>1, <1>2, AddEntryTyped
<1>4. CreateIn(v, p, parent) = Answer(FALSE, v) \/ CreateIn(v, p, parent) = WithCluster(add)
  BY DEF CreateIn
<1> HIDE DEF add, parent
<1>5. Typed(new.vol) /\ new.cluster \in {FREE, PastEnd} \cup Cluster
  BY <1>3, LinkFreeTyped, Numbers DEF StepTyped
<1>6. new.cluster \in Table!Entry
  BY <1>5, Numbers
<1>7. WithCluster(add) = IF add.ok THEN Opened(add.pos, new) ELSE Answer(FALSE, add.vol)
  BY DEF WithCluster
<1> HIDE DEF new
<1>8. CreateTyped(WithCluster(add))
  BY <1>3, <1>5, <1>6, <1>7 DEF Opened, Answer, AnswerTyped, StepTyped, CreateTyped
<1>9. CreateTyped(Answer(FALSE, v))
  BY DEF Answer, AnswerTyped, CreateTyped
<1> QED
  BY <1>4, <1>8, <1>9 DEF parent

LEMMA FileCreateTyped ==
    ASSUME NEW v, Typed(v), NEW p \in NewPaths
    PROVE  CreateTyped(FileCreate(v, p))
<1> DEFINE old == EntryFromPath(v, p)
           gone == IF old.found THEN DeleteEntry(v, old) ELSE Answer(TRUE, v)
<1>1. old \in Found
  BY ParentTyped, EntryFromPathTyped
<1>2. Typed(gone.vol)
  BY <1>1, DeleteEntryTyped DEF Answer
<1>3. FileCreate(v, p) = IF IsDirectory(old) THEN Answer(FALSE, v) ELSE CreateAfter(gone, p)
  BY DEF FileCreate, CreateInstead
<1> HIDE DEF old, gone
<1>4. CreateTyped(CreateIn(gone.vol, p, Parent(gone.vol, p)))
  BY <1>2, CreateInTyped
<1>5. CreateTyped(Answer(FALSE, gone.vol)) /\ CreateTyped(Answer(FALSE, v))
  BY <1>2 DEF Answer, AnswerTyped, CreateTyped
<1> QED
  BY <1>3, <1>4, <1>5 DEF CreateAfter

LEMMA WriteFileTyped ==
    ASSUME NEW v, Typed(v), NEW p \in NewPaths, NEW x \in Contents
    PROVE  Typed(WriteFile(v, p, x).vol)
<1> DEFINE file == FileCreate(v, p)
           w == FileWrite(file.vol, file.cluster, x)
           closed == FileClose(w.vol, file.pos, file.cluster, w.size)
<1>1. CreateTyped(file)
  BY FileCreateTyped
<1>2. WriteFile(v, p, x) = WriteInto(file, p, x)
  BY DEF WriteFile
<1> HIDE DEF file
<1>3. CASE ~file.ok
  BY <1>1, <1>2, <1>3 DEF WriteInto, Answer, CreateTyped, AnswerTyped
<1>4. CASE file.ok
  <2>1. Typed(file.vol) /\ file.pos \in Position /\ file.cluster \in Table!Entry
    BY <1>1, <1>4 DEF CreateTyped, AnswerTyped
  <2>2. w \in WriteState
    BY <2>1, FileWriteTyped
  <2>3. WriteFile(v, p, x) = CloseWritten(file, p, w)
    BY <1>2, <1>4 DEF WriteInto
  <2> HIDE DEF w
  <2>4. Typed(w.vol) /\ w.size \in Nat
    BY <2>2 DEF WriteState
  <2>5. Typed(closed)
    BY <2>1, <2>4, FileCloseTyped
  <2>6. Typed(DeleteFile(closed, p).vol)
    <3> HIDE DEF closed
    <3> QED BY <2>5, ParentTyped, DeleteFileTyped DEF AnswerTyped
  <2> QED
    BY <2>3, <2>5, <2>6 DEF CloseWritten, Closed, Answer
<1> QED
  BY <1>3, <1>4

LEMMA ForgetIs ==
    ASSUME NEW v, Typed(v)
    PROVE  /\ Forget(v).table = v.table /\ Forget(v).firstFree = v.firstFree
           /\ Forget(v).cwd = v.cwd
           /\ \A a \in Areas : Forget(v).cells[a] =
                IF a # ROOT /\ v.table[a] = FREE THEN [i \in 1 .. ClusterSlots |-> Residue]
                ELSE v.cells[a]
           /\ Typed(Forget(v))
<1> DEFINE w == Forget(v)
           residue == [i \in 1 .. ClusterSlots |-> Residue]
           cells == [a \in DOMAIN v.cells |->
                        IF a # ROOT /\ v.table[a] = FREE THEN residue ELSE v.cells[a]]
<1>1. w = [v EXCEPT !.cells = cells] /\ DOMAIN v.cells = Areas
  BY VolumeFields DEF Forget
<1>2. residue \in Seq(Slot) /\ Len(residue) = ClusterSlots
  BY MarksAreSlots, Numbers
<1> HIDE DEF residue
<1>3. cells = [a \in Areas |-> IF a # ROOT /\ v.table[a] = FREE THEN residue ELSE v.cells[a]]
  BY <1>1
<1> HIDE DEF w, cells
<1>4. \A a \in Areas : cells[a] \in Seq(Slot) /\ Len(cells[a]) = SlotsOf(a)
  BY <1>3, <1>2, VolumeFields DEF SlotsOf
<1>5. cells \in [Areas -> Seq(Slot)]
  BY <1>3, <1>4
<1>6. w.cells = cells /\ w.table = v.table /\ w.firstFree = v.firstFree /\ w.cwd = v.cwd
  BY <1>1, VolumeFields DEF Volume
<1>7. w \in Volume
  <2>1. w = [v EXCEPT !.cells = cells] /\ v \in Volume /\ cells \in [Areas -> Seq(Slot)]
    BY <1>1, <1>5, VolumeFields
  <2> QED
    BY <2>1 DEF Volume
<1>8. Typed(w)
  BY <1>4, <1>6, <1>7, FirmVolume DEF Typed
<1>9. \A a \in Areas : w.cells[a] = IF a # ROOT /\ v.table[a] = FREE THEN residue ELSE v.cells[a]
  BY <1>3, <1>6
<1> QED
  BY <1>6, <1>8, <1>9 DEF w, residue

LEMMA ForgetTyped ==
    ASSUME NEW v, Typed(v)
    PROVE  Typed(Forget(v))
  BY ForgetIs

LEMMA MountedTyped ==
    ASSUME NEW v, Typed(v)
    PROVE  Typed(Mounted(v))
<1>1. 2 \in 2 .. PastEnd /\ Table!CLUSTER_FIRST \in Table!CLUSTER_FIRST .. PastEnd
      /\ ROOT \in Table!Entry
  BY Numbers
<1>2. Table!CLUSTER_FIRST # PastEnd
  BY Numbers
<1>3. v \in Volume /\ Firm(v.table, v.firstFree) /\ \A a \in Areas : Len(v.cells[a]) = SlotsOf(a)
  BY DEF Typed
<1>4. /\ Mounted(v).table = v.table /\ Mounted(v).cells = v.cells
      /\ Mounted(v).firstFree = Table!CLUSTER_FIRST /\ Mounted(v) \in Volume
  BY <1>1, <1>3 DEF Mounted, Volume
<1> QED
  BY <1>2, <1>3, <1>4 DEF Typed, Firm

LEMMA CreatedTyped ==
    Typed(Created)
<1>1. Created.cells \in [Areas -> Seq(Slot)]
      /\ \A a \in Areas : Len(Created.cells[a]) = SlotsOf(a)
  BY MarksAreSlots, Numbers DEF Created, SlotsOf
<1>2. Table!InitialTable \in [Table!Entry -> Table!Value]
  BY Numbers DEF Table!InitialTable
<1>3. Table!CLUSTER_FIRST \in Table!CLUSTER_FIRST .. PastEnd /\ ROOT \in Table!Entry
  BY Numbers
<1>4. Firm(Created.table, Created.firstFree)
  <2>1. ROOT \in Table!Entry /\ PastEnd \in Table!Entry /\ ROOT < Table!CLUSTER_FIRST
        /\ ~(PastEnd < Table!CLUSTER_FIRST) /\ Table!CLUSTER_FIRST # PastEnd
    BY Numbers
  <2> QED
    BY <2>1, Numbers DEF Created, Firm, Table!InitialTable
<1> QED
  BY <1>1, <1>2, <1>3, <1>4 DEF Created, Typed, Volume

\* What every call makes of a volume is a volume.
LEMMA CallTyped ==
    ASSUME Typed(vol), Call
    PROVE  \E new : Typed(new) /\ BecomesExactly(new)
<1>1. ASSUME NEW p \in NewPaths, mkdir(p)
      PROVE  \E new : Typed(new) /\ BecomesExactly(new)
  BY <1>1, MkDirTyped, ForgetTyped DEF mkdir, Becomes, AnswerTyped
<1>2. ASSUME NEW p \in NewPaths, NEW x \in Contents, writefile(p, x)
      PROVE  \E new : Typed(new) /\ BecomesExactly(new)
  BY <1>2, WriteFileTyped, ForgetTyped DEF writefile, Becomes
<1>3. ASSUME NEW p \in Paths, cd(p)
      PROVE  \E new : Typed(new) /\ BecomesExactly(new)
  BY <1>3, CdTyped, ForgetTyped DEF cd, Becomes, AnswerTyped
<1>4. ASSUME NEW p \in Paths, deletefile(p)
      PROVE  \E new : Typed(new) /\ BecomesExactly(new)
  BY <1>4, DeleteFileTyped, ForgetTyped DEF deletefile, Becomes, AnswerTyped
<1>5. ASSUME mount
      PROVE  \E new : Typed(new) /\ BecomesExactly(new)
  BY <1>5, MountedTyped, ForgetTyped DEF mount, Becomes
<1> QED
  BY <1>1, <1>2, <1>3, <1>4, <1>5 DEF Call

LEMMA AlwaysTyped == Spec => [](Typed(vol))
<1>2. Init => Typed(vol)
  BY CreatedTyped DEF Init
<1>3. Typed(vol) /\ [Next]_fatfsVars => Typed(vol)'
  <2> SUFFICES ASSUME Typed(vol), [Next]_fatfsVars
               PROVE  Typed(vol')
    BY DEF Typed
  <2>1. CASE Next
    <3>1. PICK new : Typed(new) /\ BecomesExactly(new)
      BY <2>1, CallTyped DEF Next
    <3> QED
      BY <3>1 DEF BecomesExactly
  <2>2. CASE UNCHANGED fatfsVars
    BY <2>2 DEF fatfsVars
  <2> QED
    BY <2>1, <2>2
<1> QED
  BY <1>2, <1>3, PTL DEF Spec

\* The image always is a table with its hint, a current directory and cells of the
\* right sizes: no call runs past the table or past the end of a cluster.
THEOREM VolumeIsTyped == Spec => []TypeOK
<1>1. Typed(vol) => TypeOK
  BY DEF TypeOK, Typed
<1> QED
  BY <1>1, AlwaysTyped, PTL

------------------------------------------------------------------------
(* The nodes of a volume.                                                  *)

NodeSet == [path : Seq(Names), pos : Areas \X Nat, entry : EntrySlot]

LEMMA TopIsNode ==
    Top \in NodeSet
<1>1. <<ROOT, 0>> \in Areas \X Nat
  BY Numbers
<1>2. <<>> \in Seq(Names)
  OBVIOUS
<1> QED
  BY <1>1, <1>2, MarksAreSlots DEF Top, NodeSet

\* What is listed in a directory.
IsWithin(v, d, m, i) ==
    LET so == Slots(v, d.entry.cluster)
    IN  /\ i \in Listed(v, so) /\ At(v, so[i]) \in EntrySlot /\ At(v, so[i]).name \in Names
        /\ m = NodeAt(v, d, so[i])

LEMMA WithinIs ==
    ASSUME NEW v, Typed(v), NEW d \in NodeSet, NEW m
    PROVE  m \in Within(v, d) <=> \E i \in Nat : IsWithin(v, d, m, i)
<1> DEFINE so == Slots(v, d.entry.cluster)
<1>1. d.entry.cluster \in Table!Entry
  BY DEF NodeSet, EntrySlot
<1>2. so \in Walks
  BY <1>1, SlotsTyped
<1>3. Within(v, d) = {NodeAt(v, d, p) : p \in {q \in EntriesOf(v, so) :
                                At(v, q).kind = "entry" /\ ~IsDot(At(v, q))}}
  BY DEF Within, Entries
<1> HIDE DEF so
<1>4. \A i \in Listed(v, so) : i \in DOMAIN so /\ i \in Nat /\ At(v, so[i]) \in Slot
  <2>1. \A i \in Listed(v, so) : i \in DOMAIN so
    BY DEF Listed
  <2> QED
    BY <2>1, <1>2, WalkSlot DEF Walks
<1>5. ASSUME m \in Within(v, d)
      PROVE  \E i \in Nat : IsWithin(v, d, m, i)
  <2>1. PICK i \in Listed(v, so) : /\ At(v, so[i]).kind = "entry" /\ ~IsDot(At(v, so[i]))
                                   /\ m = NodeAt(v, d, so[i])
    BY <1>3, <1>5 DEF EntriesOf
  <2>2. At(v, so[i]) \in EntrySlot
    BY <1>4, <2>1, EntryKind
  <2>3. At(v, so[i]).name \in Names
    BY <2>1, <2>2 DEF IsDot, EntrySlot
  <2> QED
    BY <1>4, <2>1, <2>2, <2>3 DEF IsWithin, so
<1>6. ASSUME NEW i \in Nat, IsWithin(v, d, m, i)
      PROVE  m \in Within(v, d)
  <2>1. /\ i \in Listed(v, so) /\ At(v, so[i]) \in EntrySlot /\ At(v, so[i]).name \in Names
        /\ m = NodeAt(v, d, so[i])
    BY <1>6 DEF IsWithin, so
  <2>2. At(v, so[i]).kind = "entry" /\ ~IsDot(At(v, so[i]))
    BY <2>1, SlotsAssumption DEF IsDot, EntrySlot
  <2>3. so[i] \in EntriesOf(v, so)
    BY <2>1 DEF EntriesOf
  <2> QED
    BY <1>3, <2>1, <2>2, <2>3
<1> QED
  BY <1>5, <1>6

LEMMA WithinTyped ==
    ASSUME NEW v, Typed(v), NEW d \in NodeSet, NEW m \in Within(v, d)
    PROVE  m \in NodeSet /\ m.path # <<>> /\ Front(m.path) = d.path
<1> DEFINE so == Slots(v, d.entry.cluster)
<1>1. so \in Walks
  BY SlotsTyped DEF NodeSet, EntrySlot
<1>2. PICK i \in Nat : IsWithin(v, d, m, i)
  BY WithinIs
<1>3. /\ i \in Listed(v, so) /\ At(v, so[i]) \in EntrySlot /\ At(v, so[i]).name \in Names
      /\ m = [path |-> Append(d.path, At(v, so[i]).name), pos |-> so[i], entry |-> At(v, so[i])]
  BY <1>2 DEF IsWithin, NodeAt
<1> HIDE DEF so
<1>4. so[i] \in Areas \X Nat
  <2>1. i \in DOMAIN so
    BY <1>3 DEF Listed
  <2> QED
    BY <2>1, <1>1, WalkSlot DEF Position
<1> DEFINE n == At(v, so[i]).name
<1>5. d.path \in Seq(Names) /\ n \in Names
  BY <1>3 DEF NodeSet
<1> HIDE DEF n
<1>6. Append(d.path, n) \in Seq(Names) /\ Append(d.path, n) # <<>> /\ Front(Append(d.path, n)) = d.path
  <2>1. Append(d.path, n) \in Seq(Names) /\ Len(Append(d.path, n)) = Len(d.path) + 1
        /\ Len(d.path) \in Nat
    BY <1>5
  <2>2. Front(Append(d.path, n)) = SubSeq(Append(d.path, n), 1, Len(d.path))
    BY <2>1 DEF Front
  <2>3. SubSeq(Append(d.path, n), 1, Len(d.path)) = d.path
    BY <1>5
  <2>4. Append(d.path, n) # <<>>
    BY <2>1
  <2> QED
    BY <2>1, <2>2, <2>3, <2>4
<1> QED
  BY <1>3, <1>4, <1>6 DEF NodeSet, n

\* The directories below those of a level.
NextLevel(v, nodes) == UNION {Within(v, d) : d \in {n \in nodes : n.entry.dir}}

LEMMA LevelsAre ==
    ASSUME NEW v, Typed(v)
    PROVE  /\ Levels(v)[0] = {Top}
           /\ \A k \in 1 .. PastEnd : Levels(v)[k] = NextLevel(v, Levels(v)[k - 1])
           /\ \A k \in 0 .. PastEnd : Levels(v)[k] \in SUBSET NodeSet
<1> DEFINE S == SUBSET NodeSet
           a == {Top}
           f == [x \in Nat \X S |-> NextLevel(v, x[2])]
           Solves(w) == w = [k \in 0 .. PastEnd |->
                                IF k = 0 THEN {Top}
                                ELSE UNION {Within(v, d) : d \in {n \in w[k - 1] : n.entry.dir}}]
           W == Levels(v)
<1>1. a \in S
  BY TopIsNode
<1>2. \A nodes \in S : NextLevel(v, nodes) \in S
  BY WithinTyped DEF NextLevel
<1>3. f \in [Nat \X S -> S]
  BY <1>2
<1>4. PastEnd \in Nat /\ 0 <= PastEnd
  BY Numbers
<1>5. PICK g : Follows(g, S, a, 0, PastEnd, f)
  <2> HIDE DEF a, f, S
  <2> QED BY <1>1, <1>3, <1>4, RecursionExists
<1>6. ASSUME NEW k \in 0 .. PastEnd
      PROVE  g[k] = IF k = 0 THEN {Top} ELSE NextLevel(v, g[k - 1])
  <2>1. CASE k = 0
    BY <2>1, <1>5 DEF Follows
  <2>2. CASE k # 0
    <3>1. k \in 0 + 1 .. PastEnd /\ k - 1 \in 0 .. PastEnd /\ k \in Nat
      BY <2>2, <1>4
    <3> HIDE DEF S
    <3>2. <<k, g[k - 1]>> \in Nat \X S
      BY <3>1, <1>5 DEF Follows
    <3>3. f[<<k, g[k - 1]>>] = NextLevel(v, g[k - 1])
      BY <3>2
    <3>4. g[k] = f[<<k, g[k - 1]>>]
      <4> HIDE DEF f
      <4> QED BY <3>1, <1>5 DEF Follows
    <3> QED
      BY <2>2, <3>3, <3>4
  <2> QED
    BY <2>1, <2>2
<1>7. Solves(g)
  <2>1. g = [k \in 0 .. PastEnd |-> IF k = 0 THEN {Top} ELSE NextLevel(v, g[k - 1])]
    <3> HIDE DEF S, f
    <3> QED BY <1>5, <1>6 DEF Follows
  <2> QED
    BY <2>1 DEF NextLevel
<1>8. W = CHOOSE w : Solves(w)
  BY DEF Levels
<1>9. Solves(W)
  <2> HIDE DEF Solves, W
  <2> QED BY <1>7, <1>8
<1>10. W[0] = a /\ \A k \in 1 .. PastEnd : W[k] = NextLevel(v, W[k - 1])
  <2>1. W = [k \in 0 .. PastEnd |-> IF k = 0 THEN {Top} ELSE NextLevel(v, W[k - 1])]
    <3> HIDE DEF W
    <3> QED BY <1>9 DEF NextLevel
  <2> HIDE DEF W
  <2>2. 0 \in 0 .. PastEnd /\ \A k \in 1 .. PastEnd : k \in 0 .. PastEnd /\ k # 0
    BY <1>4
  <2> QED BY <2>1, <2>2
<1>11. \A k \in 0 .. PastEnd : W[k] \in S
  <2> HIDE DEF W, a, f, S
  <2> DEFINE R == {k \in Nat : W[k] \in S}
  <2>1. 0 \in R
    BY <1>10, <1>1
  <2>2. \A k \in 0 + 1 .. PastEnd : k - 1 \in R => k \in R
    BY <1>10, <1>4, <1>2
  <2>3. 0 .. PastEnd \subseteq R
    <3> HIDE DEF R
    <3> QED BY <2>1, <2>2, <1>4, UpTo
  <2> QED
    BY <2>3
<1> QED
  BY <1>10, <1>11

\* Every node but the root is an entry of a node.
LEMMA NodesAre ==
    ASSUME NEW v, Typed(v)
    PROVE  /\ Top \in NodesOf(v) /\ NodesOf(v) \in SUBSET NodeSet
           /\ \A n \in NodesOf(v) : n = Top \/ \E d \in NodesOf(v) : d.entry.dir /\ n \in Within(v, d)
<1>1. 0 \in 0 .. PastEnd
  BY Numbers
<1>2. Top \in NodesOf(v) /\ NodesOf(v) \in SUBSET NodeSet
  BY <1>1, LevelsAre DEF NodesOf
<1>3. ASSUME NEW n \in NodesOf(v), n # Top
      PROVE  \E d \in NodesOf(v) : d.entry.dir /\ n \in Within(v, d)
  <2>1. PICK k \in 0 .. PastEnd : n \in Levels(v)[k]
    BY DEF NodesOf
  <2>2. k \in 1 .. PastEnd /\ k - 1 \in 0 .. PastEnd
    BY <2>1, <1>3, LevelsAre, Numbers
  <2>3. n \in NextLevel(v, Levels(v)[k - 1])
    BY <2>1, <2>2, LevelsAre
  <2>4. PICK d \in Levels(v)[k - 1] : d.entry.dir /\ n \in Within(v, d)
    BY <2>3 DEF NextLevel
  <2>5. d \in NodesOf(v)
    BY <2>2, <2>4 DEF NodesOf
  <2> QED
    BY <2>4, <2>5
<1> QED
  BY <1>2, <1>3

------------------------------------------------------------------------
(* The nodes of a sound volume.                                            *)

\* The first slots of a directory are its references, and what the root has
\* not.
References(v, d, so) ==
    /\ d = Top => \A i \in DOMAIN so : ~IsDot(At(v, so[i]))
    /\ d # Top =>
        /\ 1 \in Listed(v, so) /\ 2 \in Listed(v, so)
        /\ At(v, so[1]) = Entry(".", TRUE, d.entry.cluster, 0)
        /\ \E e \in NodesOf(v) : /\ e.entry.dir /\ e.path = Front(d.path)
                                 /\ At(v, so[2]) = Entry("..", TRUE, e.entry.cluster, 0)

\* What the search along a path needs of a volume, be it sound or not: a path names
\* one node, a directory's entries are nodes, and its references are right.
Formed(v) ==
    /\ \A n, m \in NodesOf(v) : n.path = m.path => n = m
    /\ \A d \in NodesOf(v) : d.entry.dir =>
            /\ Within(v, d) \subseteq NodesOf(v)
            /\ References(v, d, Slots(v, d.entry.cluster))
            /\ d # Top => d.entry.cluster # ROOT

\* The current directory is one of them.
Navigable(v) == Formed(v) /\ \E n \in NodesOf(v) : n.entry.dir /\ n.entry.cluster = v.cwd

LEMMA SoundReferences ==
    ASSUME NEW v, Typed(v), Sound(v, NodesOf(v)), NEW d \in NodesOf(v), d.entry.dir
    PROVE  /\ Slots(v, d.entry.cluster) \in Walks
           /\ References(v, d, Slots(v, d.entry.cluster))
<1> DEFINE nodes == NodesOf(v)
           so == Slots(v, d.entry.cluster)
           up == (CHOOSE m \in nodes : m.path = Front(d.path)).entry.cluster
<1>1. so \in Walks
  BY NodesAre, SlotsTyped DEF NodeSet, EntrySlot
<1>2. SoundSlots(v, d, IF d.path = <<>> THEN ROOT ELSE up, so)
  BY DEF Sound, SoundDirectory
<1>0. /\ \A n, m \in nodes : n.path = m.path => n = m
      /\ Top \in nodes
  BY NodesAre DEF Sound
<1>3. Top.path = <<>> /\ (d # Top => d.path # <<>>)
  BY <1>0 DEF Top
<1> HIDE DEF so
<1>4. ASSUME d = Top
      PROVE  \A i \in DOMAIN so : ~IsDot(At(v, so[i]))
  <2>1. \A p \in Range(so) : ~IsDot(At(v, p))
    BY <1>2, <1>3, <1>4 DEF SoundSlots
  <2> QED
    BY <2>1 DEF Range
<1>5. ASSUME d # Top
      PROVE  /\ 1 \in Listed(v, so) /\ 2 \in Listed(v, so)
             /\ At(v, so[1]) = Entry(".", TRUE, d.entry.cluster, 0)
             /\ \E e \in nodes : /\ e.entry.dir /\ e.path = Front(d.path)
                                 /\ At(v, so[2]) = Entry("..", TRUE, e.entry.cluster, 0)
  <2>1. /\ At(v, so[1]) = Entry(".", TRUE, d.entry.cluster, 0)
        /\ At(v, so[2]) = Entry("..", TRUE, up, 0)
        /\ \A i \in Marks(v, so), j \in DOMAIN so : j > i => j \in Marks(v, so)
    BY <1>2, <1>3, <1>5 DEF SoundSlots
  <2>2. 1 \in DOMAIN so /\ 2 \in DOMAIN so /\ \A i \in DOMAIN so : i \in Nat /\ i >= 1
    BY <1>1 DEF Walks
  <2>3. At(v, so[1]).kind = "entry" /\ At(v, so[2]).kind = "entry"
    BY <2>1 DEF Entry
  <2>4. 2 \notin Marks(v, so)
    BY <2>3 DEF Marks, EndMark
  <2>5. \A i \in Marks(v, so) : 2 < i
    <3>1. ASSUME NEW i \in Marks(v, so), ~(2 < i)
          PROVE  FALSE
      <4>1. i \in DOMAIN so
        BY DEF Marks
      <4>2. i \in Nat /\ i >= 1 /\ i # 2
        BY <2>2, <2>4, <4>1
      <4>3. 2 > i
        BY <4>2, <3>1
      <4> QED
        BY <2>1, <2>2, <2>4, <4>3
    <3> QED
      BY <3>1
  <2>6. \A i \in Marks(v, so) : 1 < i
    BY <2>5, <2>2 DEF Marks
  <2>7. 1 \in Listed(v, so) /\ 2 \in Listed(v, so)
    BY <2>2, <2>3, <2>5, <2>6 DEF Listed
  <2>8. PICK e \in nodes : e.entry.dir /\ d \in Within(v, e)
    BY <1>5, NodesAre
  <2>9. e.path = Front(d.path)
    BY <2>8, NodesAre, WithinTyped
  <2>10. up = e.entry.cluster
    BY <2>9, <1>0
  <2> HIDE DEF up
  <2> QED
    BY <2>1, <2>7, <2>8, <2>9, <2>10
<1> QED
  BY <1>1, <1>4, <1>5 DEF References, so

LEMMA SoundIsNavigable ==
    ASSUME NEW v, Typed(v), Sound(v, NodesOf(v))
    PROVE  Navigable(v)
<1>1. /\ \A n, m \in NodesOf(v) : n.path = m.path => n = m
      /\ \A d \in NodesOf(v) : d.entry.dir => Within(v, d) \subseteq NodesOf(v)
      /\ \A n \in NodesOf(v) : n.path # <<>> => n.entry.cluster \in Cluster
      /\ \E n \in NodesOf(v) : n.entry.dir /\ n.entry.cluster = v.cwd
  BY DEF Sound, SoundChains
<1>2. \A c \in Cluster : c # ROOT
  BY Numbers
<1>3. Top.path = <<>> /\ Top \in NodesOf(v)
  BY NodesAre DEF Top
<1>4. \A d \in NodesOf(v) : d.entry.dir => References(v, d, Slots(v, d.entry.cluster))
  BY SoundReferences
<1> QED
  BY <1>1, <1>2, <1>3, <1>4 DEF Navigable, Formed

\* A path names one node, and only the root directory lies at the root.
LEMMA FormedNodes ==
    ASSUME NEW v, Typed(v), Formed(v)
    PROVE  /\ \A n, m \in NodesOf(v) : n.path = m.path => n = m
           /\ \A n \in NodesOf(v) : n.path = <<>> => n = Top
           /\ \A n \in NodesOf(v) : n # Top => n.path # <<>>
           /\ \A n \in NodesOf(v) : n.entry.dir /\ n # Top => n.entry.cluster # ROOT
           /\ \A d \in NodesOf(v) : d.entry.dir => Within(v, d) \subseteq NodesOf(v)
           /\ \A d, m \in NodesOf(v), n \in Names :
                m.path = Append(d.path, n) => m \in Within(v, d) /\ d.entry.dir
<1> DEFINE nodes == NodesOf(v)
<1>1. /\ \A n, m \in nodes : n.path = m.path => n = m
      /\ \A d \in nodes : d.entry.dir => Within(v, d) \subseteq nodes
      /\ \A n \in nodes : n.entry.dir /\ n # Top => n.entry.cluster # ROOT
  BY DEF Formed
<1>2. Top \in nodes /\ nodes \in SUBSET NodeSet
      /\ \A n \in nodes : n = Top \/ \E d \in nodes : d.entry.dir /\ n \in Within(v, d)
  BY NodesAre
<1> HIDE DEF nodes
<1>3. Top.path = <<>>
  BY DEF Top
<1>4. \A n \in nodes : n.path = <<>> => n = Top
  BY <1>1, <1>2, <1>3
<1>6. ASSUME NEW d \in nodes, NEW m \in nodes, NEW n \in Names, m.path = Append(d.path, n)
      PROVE  m \in Within(v, d) /\ d.entry.dir
  <2>1. d.path \in Seq(Names) /\ Append(d.path, n) # <<>> /\ Front(Append(d.path, n)) = d.path
    <3>1. d.path \in Seq(Names)
      BY <1>2 DEF NodeSet
    <3>2. Append(d.path, n) \in Seq(Names) /\ Len(Append(d.path, n)) = Len(d.path) + 1
          /\ Len(d.path) \in Nat
      BY <3>1
    <3>3. Front(Append(d.path, n)) = SubSeq(Append(d.path, n), 1, Len(d.path))
      BY <3>2 DEF Front
    <3>4. SubSeq(Append(d.path, n), 1, Len(d.path)) = d.path
      BY <3>1
    <3>5. Append(d.path, n) # <<>>
      BY <3>2
    <3> QED
      BY <3>1, <3>3, <3>4, <3>5
  <2>2. m # Top
    BY <1>6, <1>3, <2>1
  <2>3. PICK e \in nodes : e.entry.dir /\ m \in Within(v, e)
    BY <1>2, <2>2
  <2>4. Front(m.path) = e.path
    BY <1>2, <2>3, WithinTyped
  <2>5. e.path = d.path
    BY <2>1, <2>4, <1>6
  <2>6. e = d
    BY <1>1, <2>5
  <2> QED
    BY <2>3, <2>6
<1> QED
  BY <1>1, <1>4, <1>6 DEF nodes

LEMMA ReferencesAre ==
    ASSUME NEW v, Typed(v), Formed(v), NEW d \in NodesOf(v), d.entry.dir
    PROVE  /\ Slots(v, d.entry.cluster) \in Walks
           /\ References(v, d, Slots(v, d.entry.cluster))
  BY NodesAre, SlotsTyped DEF NodeSet, EntrySlot, Formed

\* A directory is found under an ordinary name where the tree has one; the last
\* name of a path may be a file's.
Fits(m, more) == more => m.entry.dir

LEMMA LookupOfName ==
    ASSUME NEW v, Typed(v), Formed(v), NEW d \in NodesOf(v), d.entry.dir,
           NEW n \in Names, NEW more \in BOOLEAN
    PROVE  LET f == Lookup(v, d.entry.cluster, n, more)
           IN  /\ f.found \in BOOLEAN
               /\ f.found => \E m \in NodesOf(v) : /\ m.path = Append(d.path, n) /\ Fits(m, more)
                                                   /\ m.entry = f.entry /\ m.pos = f.pos
               /\ \A m \in NodesOf(v) : m.path = Append(d.path, n) /\ Fits(m, more) => f.found
<1> DEFINE so == Slots(v, d.entry.cluster)
           hits == Hits(v, so, n, more)
           f == Lookup(v, d.entry.cluster, n, more)
<1>0. d \in NodeSet
  BY NodesAre
<1>1. so \in Walks
  BY <1>0, SlotsTyped DEF NodeSet, EntrySlot
<1>2. f = LookupIn(v, so, n, more)
  BY DEF Lookup
<1>3. hits = {} => ~f.found
  <2> HIDE DEF so
  <2> QED BY <1>1, <1>2, LookupInIs DEF NotFound
<1>4. ASSUME hits # {}
      PROVE  /\ f.found = TRUE
             /\ \E m \in NodesOf(v) : /\ m.path = Append(d.path, n) /\ Fits(m, more)
                                      /\ m.entry = f.entry /\ m.pos = f.pos
  <2> HIDE DEF so
  <2>1. PICK i \in hits : At(v, so[i]) \in EntrySlot
                          /\ f = [found |-> TRUE, pos |-> so[i], entry |-> At(v, so[i])]
    BY <1>1, <1>2, <1>4, LookupInIs
  <2>2. i \in Listed(v, so) /\ At(v, so[i]).name = n /\ (more => At(v, so[i]).dir)
    BY DEF Hits
  <2>3. i \in Nat
    BY <2>2, <1>1 DEF Listed, Walks
  <2> DEFINE m == NodeAt(v, d, so[i])
  <2>4. IsWithin(v, d, m, i)
    BY <2>1, <2>2 DEF IsWithin, so
  <2>5. m \in Within(v, d)
    <3> HIDE DEF m
    <3> QED BY <2>3, <2>4, <1>0, WithinIs
  <2>6. m \in NodesOf(v)
    BY <2>5, FormedNodes
  <2>7. m.path = Append(d.path, n) /\ m.entry = At(v, so[i]) /\ m.pos = so[i]
    BY <2>2 DEF NodeAt
  <2>8. m.entry = f.entry /\ m.pos = f.pos /\ Fits(m, more) /\ f.found = TRUE
    BY <2>1, <2>2, <2>7 DEF Fits
  <2> HIDE DEF m, f
  <2> QED
    BY <2>6, <2>7, <2>8
<1>5. ASSUME NEW m \in NodesOf(v), m.path = Append(d.path, n), Fits(m, more)
      PROVE  hits # {}
  <2>1. m \in Within(v, d)
    BY <1>5, FormedNodes
  <2>2. PICK i \in Nat : IsWithin(v, d, m, i)
    BY <1>0, <2>1, WithinIs
  <2>3. i \in Listed(v, so) /\ At(v, so[i]) \in EntrySlot /\ m = NodeAt(v, d, so[i])
    BY <2>2 DEF IsWithin
  <2>4. m.path = Append(d.path, At(v, so[i]).name) /\ m.entry = At(v, so[i])
    BY <2>3 DEF NodeAt
  <2>5. At(v, so[i]).name = n
    <3>1. d.path \in Seq(Names)
      BY <1>0 DEF NodeSet
    <3> DEFINE k == At(v, so[i]).name
    <3>2. Append(d.path, n) = Append(d.path, k)
      BY <1>5, <2>4
    <3> HIDE DEF k
    <3> QED
      BY <3>1, <3>2 DEF k
  <2>6. At(v, so[i]).kind = "entry" /\ (more => At(v, so[i]).dir)
    BY <1>5, <2>3, <2>4 DEF EntrySlot, Fits
  <2> QED
    BY <2>3, <2>5, <2>6 DEF Hits
<1>6. hits # {} \/ hits = {}
  OBVIOUS
<1> HIDE DEF hits, f
<1>7. f.found \in BOOLEAN
  BY <1>3, <1>4, LookupTyped, <1>0 DEF f, NodeSet, EntrySlot, Found
<1> QED
  BY <1>3, <1>4, <1>5, <1>7 DEF f

\* "." leads back to the directory and ".." to the one above; the root has neither.
Referred(v, d, n, f) ==
    /\ d = Top => ~f.found
    /\ d # Top =>
        /\ f.found = TRUE /\ f.entry.dir = TRUE
        /\ \E e \in NodesOf(v) : /\ e.entry.dir /\ e.entry.cluster = f.entry.cluster
                                 /\ e.path = IF n = "." THEN d.path ELSE Front(d.path)

LEMMA LookupOfDot ==
    ASSUME NEW v, Typed(v), Formed(v), NEW d \in NodesOf(v), d.entry.dir,
           NEW n \in {".", ".."}, NEW more \in BOOLEAN
    PROVE  Referred(v, d, n, Lookup(v, d.entry.cluster, n, more))
<1> DEFINE so == Slots(v, d.entry.cluster)
           hits == Hits(v, so, n, more)
           f == Lookup(v, d.entry.cluster, n, more)
<1>1. so \in Walks /\ References(v, d, so)
  BY ReferencesAre
<1>2. f = LookupIn(v, so, n, more)
  BY DEF Lookup
<1>3. \A i \in hits : i \in DOMAIN so /\ At(v, so[i]).kind = "entry" /\ At(v, so[i]).name = n
  BY DEF Hits, Listed
<1>4. CASE d = Top
  <2>1. \A i \in DOMAIN so : ~IsDot(At(v, so[i]))
    BY <1>1, <1>4 DEF References
  <2>2. hits = {}
    BY <2>1, <1>3 DEF IsDot
  <2>3. ~f.found
    <3> HIDE DEF so, f
    <3> QED BY <1>1, <1>2, <2>2, LookupInIs DEF NotFound
  <2> QED
    BY <1>4, <2>3 DEF Referred
<1>5. CASE d # Top
  <2> HIDE DEF so
  <2>1. PICK e \in NodesOf(v) :
            /\ 1 \in Listed(v, so) /\ 2 \in Listed(v, so)
            /\ At(v, so[1]) = Entry(".", TRUE, d.entry.cluster, 0)
            /\ e.entry.dir /\ e.path = Front(d.path)
            /\ At(v, so[2]) = Entry("..", TRUE, e.entry.cluster, 0)
    BY <1>1, <1>5 DEF References
  <2>2. /\ At(v, so[1]).kind = "entry" /\ At(v, so[1]).name = "." /\ At(v, so[1]).dir = TRUE
        /\ At(v, so[1]).cluster = d.entry.cluster
        /\ At(v, so[2]).kind = "entry" /\ At(v, so[2]).name = ".." /\ At(v, so[2]).dir = TRUE
        /\ At(v, so[2]).cluster = e.entry.cluster
    BY <2>1 DEF Entry
  <2>3. n = "." => 1 \in hits
    BY <2>1, <2>2 DEF Hits
  <2>4. n = ".." => 2 \in hits
    BY <2>1, <2>2 DEF Hits
  <2>5. hits # {}
    BY <2>3, <2>4
  <2>6. PICK i \in hits : /\ \A j \in hits : i <= j
                          /\ f = [found |-> TRUE, pos |-> so[i], entry |-> At(v, so[i])]
    BY <1>1, <1>2, <2>5, LookupInIs
  <2>7. i \in Nat /\ i >= 1
    BY <1>3, <1>1 DEF Walks
  <2>8. i = IF n = "." THEN 1 ELSE 2
    <3>1. CASE n = "."
      BY <3>1, <2>3, <2>6, <2>7
    <3>2. CASE n = ".."
      <4>1. i <= 2
        BY <3>2, <2>4, <2>6
      <4>2. At(v, so[i]).name = ".."
        BY <3>2, <1>3
      <4>3. i # 1
        BY <4>2, <2>2
      <4> QED
        BY <3>2, <4>1, <4>3, <2>7
    <3> QED
      BY <3>1, <3>2
  <2>9. f.found = TRUE /\ f.entry = At(v, so[i])
    BY <2>6
  <2> HIDE DEF f
  <2>10. CASE n = "."
    <3>1. f.entry.dir = TRUE /\ d.entry.cluster = f.entry.cluster
      BY <2>2, <2>8, <2>9, <2>10
    <3> QED
      BY <1>5, <2>9, <2>10, <3>1 DEF f, Referred
  <2>11. CASE n = ".."
    <3>1. f.entry.dir = TRUE /\ e.entry.cluster = f.entry.cluster
      BY <2>2, <2>8, <2>9, <2>11
    <3> QED
      BY <1>5, <2>1, <2>9, <2>11, <3>1 DEF f, Referred
  <2> QED
    BY <2>10, <2>11
<1> QED
  BY <1>4, <1>5

------------------------------------------------------------------------
(* The tree and its paths.                                                 *)

\* What a file reads as is never "dir".
LEMMA ReadsAsContents ==
    ASSUME NEW v, NEW n
    PROVE  ReadsAs(v, n) \in Contents \cup {"garbled"}
<1> DEFINE r == FileRead(v, n.entry.cluster, n.entry.size)
           as == {x \in Contents : r.ok /\ r.data = Whole(x)}
<1>1. ReadsAs(v, n) = IF as = {} THEN "garbled" ELSE CHOOSE x \in as : TRUE
  BY DEF ReadsAs, Recognised
<1>2. as \subseteq Contents
  OBVIOUS
<1> HIDE DEF as
<1> QED
  BY <1>1, <1>2

LEMMA TreeIs ==
    ASSUME NEW v, Typed(v), Formed(v)
    PROVE  LET t == TreeOf(v, NodesOf(v))
           IN  /\ DOMAIN t = {n.path : n \in NodesOf(v)}
               /\ \A n \in NodesOf(v) : t[n.path] = "dir" <=> n.entry.dir
               /\ DOMAIN t \subseteq Seq(Names)
<1> DEFINE nodes == NodesOf(v)
           t == TreeOf(v, nodes)
           shown(n) == IF n.entry.dir THEN "dir" ELSE ReadsAs(v, n)
<1>1. t = [p \in {n.path : n \in nodes} |-> shown(CHOOSE n \in nodes : n.path = p)]
  BY DEF TreeOf
<1>2. \A n \in nodes : n.path \in Seq(Names) /\ n.entry.dir \in BOOLEAN
  BY NodesAre DEF NodeSet, EntrySlot
<1>3. \A n, m \in nodes : n.path = m.path => n = m
  BY FormedNodes
<1> HIDE DEF nodes
<1>4. ASSUME NEW n \in nodes
      PROVE  t[n.path] = shown(n)
  <2>1. (CHOOSE m \in nodes : m.path = n.path) = n
    BY <1>3
  <2>2. n.path \in {m.path : m \in nodes}
    OBVIOUS
  <2> HIDE DEF t, shown
  <2> QED
    BY <1>1, <2>1, <2>2
<1>5. ASSUME NEW n \in nodes
      PROVE  shown(n) = "dir" <=> n.entry.dir
  BY <1>2, ReadsAsContents, SlotsAssumption
<1>6. DOMAIN t = {n.path : n \in nodes}
  BY <1>1
<1>7. DOMAIN t \subseteq Seq(Names)
  BY <1>2, <1>6
<1> HIDE DEF t, shown
<1> QED
  BY <1>4, <1>5, <1>6, <1>7 DEF t, nodes

PathNames == Names \cup {".", ".."}

LEMMA StepInTreeTyped ==
    ASSUME NEW t, NEW at \in Seq(PathNames), NEW n \in PathNames
    PROVE  StepInTree(t, at, n) \in Seq(PathNames)
<1>1. Nowhere \in Seq(PathNames) /\ Append(at, n) \in Seq(PathNames)
  BY DEF Nowhere, PathNames
<1>2. at # <<>> => Front(at) \in Seq(PathNames)
  BY DEF Front
<1> QED
  BY <1>1, <1>2 DEF StepInTree

LEMMA TreeTrailIs ==
    ASSUME NEW t, NEW at \in Seq(Names), NEW p \in Paths
    PROVE  /\ TreeTrail(t, at, p)[0] = IF p.abs THEN <<>> ELSE at
           /\ \A i \in 1 .. Len(p.names) :
                TreeTrail(t, at, p)[i] = StepInTree(t, TreeTrail(t, at, p)[i - 1], p.names[i])
<1> DEFINE S == Seq(PathNames)
           n == Len(p.names)
           a == IF p.abs THEN <<>> ELSE at
           f == [x \in Nat \X S |->
                    IF x[1] \in 1 .. n THEN StepInTree(t, x[2], p.names[x[1]]) ELSE x[2]]
           Solves(w) == w = [i \in 0 .. n |-> IF i = 0 THEN IF p.abs THEN <<>> ELSE at
                                              ELSE StepInTree(t, w[i - 1], p.names[i])]
           W == TreeTrail(t, at, p)
<1>1. a \in S
  BY DEF PathNames
<1>2. f \in [Nat \X S -> S]
  <2>1. ASSUME NEW x \in Nat \X S, x[1] \in 1 .. n
        PROVE  StepInTree(t, x[2], p.names[x[1]]) \in S
    <3>1. x[2] \in S /\ p.names[x[1]] \in PathNames
      BY <2>1, PathFields DEF PathNames
    <3> QED
      BY <3>1, StepInTreeTyped
  <2> QED
    BY <2>1
<1>3. n \in Nat /\ 0 <= n
  BY PathFields
<1>4. PICK g : Follows(g, S, a, 0, n, f)
  <2> HIDE DEF a, f, n, S
  <2> QED BY <1>1, <1>2, <1>3, RecursionExists
<1>5. ASSUME NEW k \in 0 .. n
      PROVE  g[k] = IF k = 0 THEN a ELSE StepInTree(t, g[k - 1], p.names[k])
  <2> HIDE DEF n
  <2>1. CASE k = 0
    BY <2>1, <1>4 DEF Follows
  <2>2. CASE k # 0
    <3>1. k \in 0 + 1 .. n /\ k - 1 \in 0 .. n /\ k \in Nat /\ k \in 1 .. n
      BY <2>2, <1>3
    <3> HIDE DEF S
    <3>2. <<k, g[k - 1]>> \in Nat \X S
      BY <3>1, <1>4 DEF Follows
    <3>3. f[<<k, g[k - 1]>>] = StepInTree(t, g[k - 1], p.names[k])
      BY <3>1, <3>2
    <3>4. g[k] = f[<<k, g[k - 1]>>]
      <4> HIDE DEF f
      <4> QED BY <3>1, <1>4 DEF Follows
    <3> QED
      BY <2>2, <3>3, <3>4
  <2> QED
    BY <2>1, <2>2
<1>6. Solves(g)
  <2>1. g = [i \in 0 .. n |-> IF i = 0 THEN a ELSE StepInTree(t, g[i - 1], p.names[i])]
    <3> HIDE DEF S, a, f, n
    <3> QED BY <1>4, <1>5 DEF Follows
  <2> QED
    BY <2>1
<1>7. W = CHOOSE w : Solves(w)
  BY DEF TreeTrail
<1>8. Solves(W)
  <2> HIDE DEF Solves, W
  <2> QED BY <1>6, <1>7
<1>9. W[0] = a /\ \A k \in 1 .. n : W[k] = StepInTree(t, W[k - 1], p.names[k])
  <2>1. W = [i \in 0 .. n |-> IF i = 0 THEN a ELSE StepInTree(t, W[i - 1], p.names[i])]
    <3> HIDE DEF W
    <3> QED BY <1>8
  <2> HIDE DEF W, a, n
  <2> QED BY <2>1, <1>3
<1> QED
  BY <1>9

\* What is found stands for the node at a path, and nothing is found where the
\* tree has no node.
Leading(v, f, to, more) ==
    /\ f.found \in BOOLEAN
    /\ f.found => \E m \in NodesOf(v) : /\ m.path = to /\ Fits(m, more)
                                        /\ m.entry.dir = f.entry.dir
                                        /\ m.entry.cluster = f.entry.cluster
    /\ \A m \in NodesOf(v) : m.path = to /\ Fits(m, more) => f.found

LEMMA NowhereIsNoNode ==
    ASSUME NEW v, Typed(v), NEW m \in NodesOf(v)
    PROVE  m.path # Nowhere
<1>1. m.path \in Seq(Names)
  BY NodesAre DEF NodeSet
<1>2. ASSUME <<".">> \in Seq(Names)
      PROVE  FALSE
  <2>1. <<".">>[1] \in Names
    BY <1>2
  <2> QED
    BY <2>1, SlotsAssumption
<1> QED
  BY <1>1, <1>2 DEF Nowhere

LEMMA BelowFollows ==
    ASSUME NEW v, Typed(v), Formed(v), NEW f, NEW at, Leading(v, f, at, TRUE),
           NEW n \in PathNames, NEW more \in BOOLEAN
    PROVE  Leading(v, Below(v, f, n, more), StepInTree(TreeOf(v, NodesOf(v)), at, n), more)
<1> DEFINE nodes == NodesOf(v)
           t == TreeOf(v, nodes)
           to == StepInTree(t, at, n)
           g == Below(v, f, n, more)
<1>1. /\ DOMAIN t = {m.path : m \in nodes}
      /\ \A m \in nodes : t[m.path] = "dir" <=> m.entry.dir
  BY TreeIs
<1>2. /\ \A m, d \in nodes : m.path = d.path => m = d
      /\ \A m \in nodes : m.path = <<>> => m = Top
      /\ Top \in nodes /\ Top.path = <<>>
  BY FormedNodes, NodesAre DEF Top
<1>3. CASE ~f.found
  <2>1. \A m \in nodes : m.path = at => ~m.entry.dir
    BY <1>3 DEF Leading, Fits
  <2>2. at \notin DOMAIN t \/ t[at] # "dir"
    <3> HIDE DEF nodes, t
    <3> QED BY <1>1, <2>1
  <2>3. to = Nowhere
    <3> HIDE DEF t
    <3> QED BY <2>2 DEF StepInTree
  <2>4. g.found = FALSE
    BY <1>3 DEF Below, NotFound
  <2> HIDE DEF to, g
  <2> QED
    BY <2>3, <2>4, NowhereIsNoNode DEF Leading, to, g
<1>4. CASE f.found
  <2>1. PICK d \in nodes : d.path = at /\ d.entry.dir /\ d.entry.cluster = f.entry.cluster
    BY <1>4 DEF Leading, Fits
  <2>2. at \in DOMAIN t /\ t[at] = "dir"
    <3> HIDE DEF nodes, t
    <3> QED BY <1>1, <2>1
  <2>3. to = IF n \notin {".", ".."} THEN Append(at, n)
             ELSE IF at = <<>> THEN Nowhere
             ELSE IF n = "." THEN at ELSE Front(at)
    <3> HIDE DEF t
    <3> QED BY <2>2 DEF StepInTree
  <2>4. g = Lookup(v, d.entry.cluster, n, more)
    BY <1>4, <2>1 DEF Below
  <2>5. CASE n \notin {".", ".."}
    <3>1. n \in Names
      BY <2>5 DEF PathNames
    <3>2. /\ g.found \in BOOLEAN
          /\ g.found => \E m \in nodes : /\ m.path = Append(d.path, n) /\ Fits(m, more)
                                         /\ m.entry = g.entry /\ m.pos = g.pos
          /\ \A m \in nodes : m.path = Append(d.path, n) /\ Fits(m, more) => g.found
      <4>1. d.entry.dir
        BY <2>1
      <4> HIDE DEF g
      <4> QED BY <4>1, <2>4, <3>1, LookupOfName, Zenon
    <3>3. to = Append(d.path, n)
      BY <2>1, <2>3, <2>5
    <3> HIDE DEF to, g
    <3> QED
      BY <3>2, <3>3 DEF Leading, to, g
  <2>6. CASE n \in {".", ".."} /\ at = <<>>
    <3>1. d = Top
      BY <1>2, <2>1, <2>6
    <3>2. ~g.found
      <4>1. d.entry.dir /\ n \in {".", ".."}
        BY <2>1, <2>6
      <4> HIDE DEF g
      <4>2. Referred(v, d, n, g)
        BY <4>1, <2>4, LookupOfDot, Zenon
      <4> QED
        BY <4>2, <3>1 DEF Referred
    <3>3. to = Nowhere
      BY <2>3, <2>6
    <3>4. g.found \in BOOLEAN
      BY <2>1, <2>4, NodesAre, LookupTyped DEF NodeSet, EntrySlot, Found
    <3> HIDE DEF to, g
    <3> QED
      BY <3>2, <3>3, <3>4, NowhereIsNoNode DEF Leading, to, g
  <2>7. CASE n \in {".", ".."} /\ at # <<>>
    <3>1. d # Top
      BY <1>2, <2>1, <2>7
    <3>2. /\ g.found = TRUE /\ g.entry.dir = TRUE
          /\ \E e \in nodes : /\ e.entry.dir /\ e.entry.cluster = g.entry.cluster
                              /\ e.path = IF n = "." THEN d.path ELSE Front(d.path)
      <4>1. d.entry.dir /\ n \in {".", ".."}
        BY <2>1, <2>7
      <4> HIDE DEF g
      <4>2. Referred(v, d, n, g)
        BY <4>1, <2>4, LookupOfDot, Zenon
      <4> QED
        BY <4>2, <3>1 DEF Referred
    <3>3. PICK e \in nodes : /\ e.entry.dir /\ e.entry.cluster = g.entry.cluster
                             /\ e.path = IF n = "." THEN d.path ELSE Front(d.path)
      BY <3>2
    <3>4. to = e.path
      BY <2>1, <2>3, <2>7, <3>3
    <3>5. e.entry.dir \in BOOLEAN
      BY NodesAre DEF NodeSet, EntrySlot
    <3>6. e.entry.dir = g.entry.dir /\ Fits(e, more)
      BY <3>2, <3>3, <3>5 DEF Fits
    <3> HIDE DEF to, g
    <3> QED
      BY <3>2, <3>3, <3>4, <3>6 DEF Leading, to, g
  <2> QED
    BY <2>5, <2>6, <2>7
<1> QED
  BY <1>3, <1>4

\* The node the current directory is.
Here(v) == CHOOSE n \in NodesOf(v) : n.entry.dir /\ n.entry.cluster = v.cwd

LEMMA HereIs ==
    ASSUME NEW v, Typed(v), Navigable(v)
    PROVE  /\ Here(v) \in NodesOf(v) /\ Here(v).entry.dir /\ Here(v).entry.cluster = v.cwd
           /\ Here(v).path \in Seq(Names)
           /\ Here(v).path = <<>> <=> v.cwd = ROOT
<1>1. Formed(v) /\ \E n \in NodesOf(v) : n.entry.dir /\ n.entry.cluster = v.cwd
  BY DEF Navigable
<1>2. Here(v) \in NodesOf(v) /\ Here(v).entry.dir /\ Here(v).entry.cluster = v.cwd
  BY <1>1 DEF Here
<1>3. Here(v).path \in Seq(Names)
  BY <1>2, NodesAre DEF NodeSet
<1>4. Top.path = <<>> /\ Top.entry.cluster = ROOT
  BY DEF Top, RootEntry, Entry
<1> QED
  BY <1>1, <1>2, <1>3, <1>4, FormedNodes

\* Each part of a path leads where the tree says.
LEMMA TrailFollows ==
    ASSUME NEW v, Typed(v), Navigable(v), NEW p \in Paths, NEW i \in 0 .. Len(p.names)
    PROVE  Leading(v, Trail(v, p)[i], TreeTrail(TreeOf(v, NodesOf(v)), Here(v).path, p)[i],
                   i < Len(p.names) \/ i = 0)
<1> DEFINE t == TreeOf(v, NodesOf(v))
           n == Len(p.names)
           Tr(j) == Trail(v, p)[j]
           To(j) == TreeTrail(t, Here(v).path, p)[j]
           S == {j \in Nat : Leading(v, Tr(j), To(j), j < n \/ j = 0)}
<1>1. n \in Nat
  BY PathFields
<1>2. /\ Tr(0) = StartOf(v, p)
      /\ \A j \in 1 .. n : Tr(j) = Below(v, Tr(j - 1), p.names[j], j < n)
  BY TrailIs
<1>3. /\ To(0) = IF p.abs THEN <<>> ELSE Here(v).path
      /\ \A j \in 1 .. n : To(j) = StepInTree(t, To(j - 1), p.names[j])
  <2>1. Here(v).path \in Seq(Names)
    BY HereIs
  <2> HIDE DEF t
  <2> QED BY <2>1, TreeTrailIs
<1>4. 0 \in S
  <2> DEFINE m == IF p.abs THEN Top ELSE Here(v)
  <2>1. /\ m \in NodesOf(v) /\ m.entry.dir = TRUE /\ m.path = To(0)
        /\ m.entry.cluster = IF p.abs THEN ROOT ELSE v.cwd
    <3>1. CASE p.abs
      BY <3>1, <1>3, NodesAre DEF Top, RootEntry, Entry
    <3>2. CASE ~p.abs
      <4>1. Here(v).entry.dir \in BOOLEAN
        BY HereIs, NodesAre DEF NodeSet, EntrySlot
      <4> QED
        BY <3>2, <4>1, <1>3, HereIs
    <3> QED
      BY <3>1, <3>2
  <2>2. /\ Tr(0).found = TRUE /\ Tr(0).entry.dir = TRUE
        /\ Tr(0).entry.cluster = IF p.abs THEN ROOT ELSE v.cwd
    BY <1>2, StartTyped DEF Found, EntrySlot
  <2> HIDE DEF m, Tr, To
  <2>3. Leading(v, Tr(0), To(0), TRUE)
    BY <2>1, <2>2 DEF Leading, Fits
  <2> QED
    BY <2>3
<1>5. ASSUME NEW j \in 0 + 1 .. n, j - 1 \in S
      PROVE  j \in S
  <2>1. j \in 1 .. n /\ j \in Nat /\ (j < n) \in BOOLEAN /\ (j < n \/ j = 0) = (j < n)
        /\ (j - 1 < n \/ j - 1 = 0) = TRUE
    BY <1>1
  <2>2. Leading(v, Tr(j - 1), To(j - 1), TRUE)
    BY <1>5, <2>1
  <2>3. p.names[j] \in PathNames
    BY <2>1, PathFields DEF PathNames
  <2>4. Leading(v, Below(v, Tr(j - 1), p.names[j], j < n), StepInTree(t, To(j - 1), p.names[j]), j < n)
    <3> HIDE DEF Tr, To, n
    <3> QED BY <2>1, <2>2, <2>3, BelowFollows DEF Navigable
  <2>5. Leading(v, Tr(j), To(j), j < n)
    BY <1>2, <1>3, <2>1, <2>4
  <2> HIDE DEF Tr, To, n
  <2> QED
    BY <2>1, <2>5
<1>6. 0 .. n \subseteq S
  <2> HIDE DEF S, n
  <2> QED BY <1>1, <1>4, <1>5, UpTo
<1>7. i \in S
  BY <1>6
<1> QED
  BY <1>7

LEMMA PathFollows ==
    ASSUME NEW v, Typed(v), Navigable(v), NEW p \in Paths
    PROVE  LET to == Leads(TreeOf(v, NodesOf(v)), Here(v).path, p)
               f == EntryFromPath(v, p)
           IN  IF to = Nowhere THEN ~f.found
               ELSE /\ f.found
                    /\ \E n \in NodesOf(v) : /\ n.path = to /\ n.entry.dir = f.entry.dir
                                             /\ n.entry.cluster = f.entry.cluster
<1> DEFINE nodes == NodesOf(v)
           t == TreeOf(v, nodes)
           k == Len(p.names)
           end == TreeTrail(t, Here(v).path, p)[k]
           to == Leads(t, Here(v).path, p)
           f == EntryFromPath(v, p)
           g == Trail(v, p)[k]
<1>1. Top \in nodes /\ Top.path = <<>> /\ Top.entry.dir = TRUE /\ Top.entry.cluster = ROOT
  BY NodesAre DEF Top, RootEntry, Entry
<1>2. /\ [NotFound EXCEPT !.found = TRUE].found = TRUE
      /\ [NotFound EXCEPT !.found = TRUE].entry.dir = TRUE
      /\ [NotFound EXCEPT !.found = TRUE].entry.cluster = ROOT
  <2>1. RootEntry.dir = TRUE /\ RootEntry.cluster = ROOT
    BY DEF RootEntry, Entry
  <2>2. NotFound \in Found /\ NotFound.entry = RootEntry
    BY NotFoundTyped DEF NotFound
  <2> QED
    BY <2>1, <2>2 DEF Found
<1>3. DOMAIN t = {n.path : n \in nodes}
  BY TreeIs DEF Navigable
<1>4. \A n \in nodes : n.path # Nowhere
  BY NowhereIsNoNode
<1>5. k \in Nat /\ k \in 0 .. k /\ (p.names = <<>> <=> k = 0)
      /\ (p.names = <<>> => p = Root) /\ p.abs \in BOOLEAN
  BY PathFields
<1>6. Leading(v, g, end, k < k \/ k = 0)
  <2>1. Len(p.names) \in 0 .. Len(p.names)
    BY <1>5
  <2> QED BY <2>1, TrailFollows, Zenon
<1>7. to = IF p.names = <<".">> /\ (p.abs \/ Here(v).path = <<>>) THEN <<>>
           ELSE IF end \in DOMAIN t THEN end ELSE Nowhere
  BY DEF Leads
<1>8. f = IF IsRoot(v, p) THEN [NotFound EXCEPT !.found = TRUE] ELSE g
  BY DEF EntryFromPath, Resolve
<1>9. Here(v).path = <<>> <=> v.cwd = ROOT
  BY HereIs
<1>10. end = <<>> \/ p # Root
  <2>1. p = Root => k = 0 /\ p.abs
    BY DEF Root
  <2>2. Here(v).path \in Seq(Names)
    BY HereIs
  <2>3. /\ TreeTrail(t, Here(v).path, p)[0] = IF p.abs THEN <<>> ELSE Here(v).path
        /\ \A i \in 1 .. Len(p.names) : TreeTrail(t, Here(v).path, p)[i] =
                StepInTree(t, TreeTrail(t, Here(v).path, p)[i - 1], p.names[i])
    <3> HIDE DEF t
    <3> QED BY <2>2, TreeTrailIs
  <2> HIDE DEF t, k
  <2> QED
    BY <2>1, <2>3
<1> HIDE DEF t, end, to, f, g
<1>11. CASE p.names = <<".">> /\ (p.abs \/ v.cwd = ROOT)
  <2>1. f = [NotFound EXCEPT !.found = TRUE] /\ to = <<>>
    BY <1>7, <1>8, <1>9, <1>11 DEF IsRoot
  <2>2. <<>> # Nowhere
    BY <1>1, <1>4
  <2> QED
    BY <1>1, <1>2, <2>1, <2>2 DEF to, f, t
<1>12. CASE p = Root
  <2>1. p.names = <<>> /\ p.names # <<".">>
    BY <1>12 DEF Root
  <2>2. f = [NotFound EXCEPT !.found = TRUE]
    BY <1>8, <1>12 DEF IsRoot
  <2>3. end = <<>> /\ end \in DOMAIN t
    BY <1>1, <1>3, <1>10, <1>12
  <2>4. to = <<>>
    BY <1>7, <2>1, <2>3
  <2>5. <<>> # Nowhere
    BY <1>1, <1>4
  <2> QED
    BY <1>1, <1>2, <2>2, <2>4, <2>5 DEF to, f, t
<1>13. CASE ~(p.names = <<".">> /\ (p.abs \/ v.cwd = ROOT)) /\ p # Root
  <2>1. f = g
    BY <1>8, <1>13 DEF IsRoot
  <2>2. to = IF end \in DOMAIN t THEN end ELSE Nowhere
    BY <1>7, <1>9, <1>13
  <2>3. (k < k \/ k = 0) = FALSE
    BY <1>5, <1>13
  <2>4. Leading(v, g, end, FALSE)
    BY <1>6, <2>3
  <2>5. /\ g.found \in BOOLEAN
        /\ g.found => \E m \in nodes : /\ m.path = end /\ m.entry.dir = g.entry.dir
                                       /\ m.entry.cluster = g.entry.cluster
        /\ \A m \in nodes : m.path = end => g.found
    BY <2>4 DEF Leading, Fits
  <2>6. CASE end \in DOMAIN t
    <3>1. PICK m \in nodes : m.path = end
      BY <1>3, <2>6
    <3>2. to = end /\ to # Nowhere /\ g.found
      BY <1>4, <2>2, <2>5, <2>6, <3>1
    <3> QED
      BY <2>1, <2>5, <3>2 DEF to, f, t
  <2>7. CASE end \notin DOMAIN t
    <3>1. to = Nowhere /\ ~g.found
      BY <1>3, <2>2, <2>5, <2>7
    <3> QED
      BY <2>1, <3>1 DEF to, f, t
  <2> QED
    BY <2>6, <2>7
<1> QED
  BY <1>11, <1>12, <1>13

------------------------------------------------------------------------
(* The volume the mount begins with.                                       *)

\* Where the tree is shown, the volume is sound and the tree is its tree.
Shown == tree # Tree!Broken => Sound(vol, NodesOf(vol)) /\ tree = TreeOf(vol, NodesOf(vol))

LEMMA CreatedWalk ==
    /\ Slots(Created, ROOT) = AreaSlots(Created, ROOT)
    /\ \A i \in 1 .. RootSlots : At(Created, <<ROOT, i>>) = IF i = 1 THEN Label ELSE EndMark
<1> DEFINE v == Created
           so == AreaSlots(v, ROOT)
<1>1. Typed(v)
  BY CreatedTyped
<1>2. ROOT \in Table!Entry /\ ROOT \in Areas /\ Area(ROOT) = ROOT /\ PastEnd \in Nat /\ PastEnd \in 0 .. PastEnd
  BY Numbers DEF Area
<1>3. v.cells[ROOT] = [i \in 1 .. RootSlots |-> IF i = 1 THEN Label ELSE EndMark]
  BY <1>2 DEF Created
<1>4. so \in Walks /\ Len(so) = SlotsOf(ROOT) /\ \A i \in 1 .. SlotsOf(ROOT) : so[i] = <<ROOT, i>>
  <2> HIDE DEF v
  <2> QED BY <1>1, <1>2, AreaSlotsTyped
<1>5. SlotsOf(ROOT) = RootSlots /\ RootSlots \in Nat /\ RootSlots >= 2
  BY Numbers DEF SlotsOf
<1> HIDE DEF v, so
<1>6. Longer(v, so) = so
  <2>1. Last(so) = <<ROOT, RootSlots>> /\ <<ROOT, RootSlots>> \in Position
    BY <1>2, <1>4, <1>5, IsPosition DEF Last
  <2>2. Ends(v, Last(so))
    BY <1>1, <1>5, <2>1, EndsIs
  <2> QED
    BY <2>2 DEF Longer
<1>7. DEFINE S == {k \in Nat : Walk(v, ROOT)[k] = so}
<1>8. 0 \in S
  BY <1>1, <1>2, WalkIs DEF so
<1>9. \A k \in 0 + 1 .. PastEnd : k - 1 \in S => k \in S
  BY <1>1, <1>2, <1>6, WalkIs
<1>10. 0 .. PastEnd \subseteq S
  <2> HIDE DEF S
  <2> QED BY <1>2, <1>8, <1>9, UpTo
<1>11. Slots(v, ROOT) = so
  BY <1>2, <1>10 DEF Slots
<1> QED
  BY <1>3, <1>5, <1>11 DEF v, so, At

LEMMA CreatedNodes ==
    Within(Created, Top) = {} /\ NodesOf(Created) = {Top}
<1> DEFINE v == Created
           so == Slots(v, ROOT)
<1>1. Typed(v)
  BY CreatedTyped
<1>2. /\ so = AreaSlots(v, ROOT) /\ ROOT \in Areas
      /\ SlotsOf(ROOT) = RootSlots
      /\ \A i \in 1 .. RootSlots : At(v, <<ROOT, i>>) \in {Label, EndMark}
  BY CreatedWalk, Numbers DEF SlotsOf
<1>3. Top.entry.cluster = ROOT /\ Top.entry.dir = TRUE /\ Top \in NodeSet
  BY TopIsNode DEF Top, RootEntry, Entry
<1> HIDE DEF v
<1>4. \A i \in DOMAIN so : At(v, so[i]) \in {Label, EndMark}
  <2>1. so \in Walks /\ Len(so) = RootSlots /\ \A i \in 1 .. RootSlots : so[i] = <<ROOT, i>>
    BY <1>1, <1>2, AreaSlotsTyped
  <2>2. DOMAIN so = 1 .. RootSlots
    BY <2>1 DEF Walks
  <2> HIDE DEF so
  <2> QED
    BY <1>2, <2>1, <2>2
<1>5. Listed(v, so) = {}
  <2> HIDE DEF so
  <2> QED BY <1>4 DEF Listed, Label, EndMark
<1>6. Within(v, Top) = {}
  <2>1. ASSUME NEW m \in Within(v, Top)
        PROVE  FALSE
    <3>1. PICK i \in Nat : IsWithin(v, Top, m, i)
      BY <1>1, <1>3, WithinIs
    <3> QED
      BY <3>1, <1>3, <1>5 DEF IsWithin
  <2> QED
    BY <2>1
<1>7. \A k \in 0 .. PastEnd : Levels(v)[k] \subseteq {Top}
  <2> DEFINE S == {k \in Nat : Levels(v)[k] \subseteq {Top}}
  <2>1. 0 \in S
    BY <1>1, LevelsAre
  <2>2. ASSUME NEW k \in 0 + 1 .. PastEnd, k - 1 \in S
        PROVE  k \in S
    <3>1. Levels(v)[k] = NextLevel(v, Levels(v)[k - 1]) /\ k \in Nat
      BY <1>1, LevelsAre
    <3>2. NextLevel(v, Levels(v)[k - 1]) = {}
      BY <2>2, <1>6 DEF NextLevel
    <3> QED
      BY <3>1, <3>2
  <2>3. 0 .. PastEnd \subseteq S
    <3> HIDE DEF S
    <3>1. PastEnd \in Nat
      BY Numbers
    <3> QED BY <2>1, <2>2, <3>1, UpTo
  <2> QED
    BY <2>3
<1>8. NodesOf(v) \subseteq {Top}
  BY <1>7 DEF NodesOf
<1> QED
  BY <1>1, <1>6, <1>8, NodesAre DEF v

LEMMA CreatedIsSound ==
    Sound(Created, NodesOf(Created)) /\ Tree!Empty = TreeOf(Created, NodesOf(Created))
<1> DEFINE v == Created
           so == Slots(v, ROOT)
<1>1. Top.path = <<>> /\ Top.entry.dir = TRUE /\ Top.entry.cluster = ROOT
  BY DEF Top, RootEntry, Entry
<1>2. /\ so = AreaSlots(v, ROOT) /\ ROOT \in Areas
      /\ SlotsOf(ROOT) = RootSlots /\ RootSlots \in Nat /\ RootSlots >= 2
      /\ \A i \in 1 .. RootSlots : At(v, <<ROOT, i>>) = IF i = 1 THEN Label ELSE EndMark
  BY CreatedWalk, Numbers DEF SlotsOf
<1>3. v.cwd = ROOT
  BY DEF Created
<1>4. Typed(v)
  BY CreatedTyped
<1>5. so \in Walks /\ Len(so) = RootSlots /\ DOMAIN so = 1 .. RootSlots
      /\ \A i \in 1 .. RootSlots : so[i] = <<ROOT, i>>
  <2> HIDE DEF v
  <2>1. so \in Walks /\ Len(so) = RootSlots /\ \A i \in 1 .. RootSlots : so[i] = <<ROOT, i>>
    BY <1>2, <1>4, AreaSlotsTyped
  <2> QED
    BY <2>1 DEF Walks
<1> HIDE DEF v, so
<1>6. \A i \in 1 .. RootSlots : At(v, so[i]) = IF i = 1 THEN Label ELSE EndMark
  BY <1>2, <1>5
<1>7. SoundSlots(v, Top, ROOT, so)
  <2>1. \A p \in Range(so) : \E i \in 1 .. RootSlots : p = so[i]
    BY <1>5 DEF Range
  <2>2. {p[1] : p \in Range(so)} = {ROOT}
    <3>1. so[1] \in Range(so) /\ so[1][1] = ROOT
      BY <1>2, <1>5 DEF Range
    <3>2. \A p \in Range(so) : p[1] = ROOT
      BY <2>1, <1>5
    <3> QED
      BY <3>1, <3>2
  <2>3. \A p \in Range(so) : At(v, p).kind # "data" /\ ~IsDot(At(v, p))
    BY <2>1, <1>6 DEF Label, EndMark, IsDot
  <2>4. \A i \in Marks(v, so), j \in DOMAIN so : j > i => j \in Marks(v, so)
    <3>1. \A i \in DOMAIN so : i \in Marks(v, so) <=> i # 1
      BY <1>5, <1>6 DEF Marks, Label, EndMark
    <3>2. \A i \in Marks(v, so) : i \in 1 .. RootSlots
      BY <1>5 DEF Marks
    <3> QED
      BY <3>1, <3>2, <1>5
  <2> QED
    BY <1>1, <2>2, <2>3, <2>4 DEF SoundSlots
<1>8. NodesOf(v) = {Top} /\ Within(v, Top) = {}
  BY CreatedNodes DEF v
<1>9. Sound(v, {Top})
  <2>1. SoundChains(v, {Top})
    BY <1>1 DEF SoundChains
  <2>2. SoundDirectory(v, Top, ROOT)
    BY <1>1, <1>7 DEF SoundDirectory, so
  <2> QED
    BY <1>1, <1>3, <1>8, <2>1, <2>2 DEF Sound, v
<1>10. Tree!Empty = TreeOf(v, {Top})
  <2>1. TreeOf(v, {Top}) = [p \in {<<>>} |-> "dir"]
    <3>1. {n.path : n \in {Top}} = {<<>>}
      BY <1>1
    <3>2. (CHOOSE n \in {Top} : n.path = <<>>) = Top
      BY <1>1
    <3> QED
      BY <1>1, <3>1, <3>2 DEF TreeOf
  <2>2. Tree!Empty = [p \in {<<>>} |-> "dir"]
    BY DEF Tree!Empty
  <2> QED
    BY <2>1, <2>2
<1> QED
  BY <1>8, <1>9, <1>10 DEF v

\* A path leads where the tree says, whatever directories have been made, removed
\* and entered before: entryFromPath finds what the tree has under the path, and
\* the references to the parent directory lead to it.
THEOREM PathsLeadWhereTheTreeSays == Spec => []PathsFollowTheTree
<1>1. Init => Shown
  BY CreatedIsSound DEF Init, Shown
<1>2. Shown /\ [Next]_fatfsVars => Shown'
  <2> SUFFICES ASSUME Shown, [Next]_fatfsVars
               PROVE  Shown'
    OBVIOUS
  <2>1. ASSUME NEW new, BecomesExactly(new)
        PROVE  Shown'
    <3>1. CASE new = vol
      BY <2>1, <3>1 DEF BecomesExactly, Shown
    <3>2. CASE new # vol
      BY <2>1, <3>2 DEF BecomesExactly, Shown, ShownBy, ShownAs
    <3> QED
      BY <3>1, <3>2
  <2>2. CASE Next
    BY <2>1, <2>2 DEF Next, Call, mkdir, cd, writefile, deletefile, mount, Becomes
  <2>3. CASE UNCHANGED fatfsVars
    BY <2>3 DEF fatfsVars, Shown
  <2> QED
    BY <2>2, <2>3
<1>3. Typed(vol) /\ Shown => PathsFollowTheTree
  <2> SUFFICES ASSUME Typed(vol), Sound(vol, NodesOf(vol)), tree = TreeOf(vol, NodesOf(vol)),
                      NEW p \in Paths
               PROVE  LET to == Leads(tree, Here(vol).path, p)
                          f == EntryFromPath(vol, p)
                      IN  IF to = Nowhere THEN ~f.found
                          ELSE /\ f.found
                               /\ \E n \in NodesOf(vol) : /\ n.path = to
                                                          /\ n.entry.dir = f.entry.dir
                                                          /\ n.entry.cluster = f.entry.cluster
    BY DEF Shown, PathsFollowTheTree, Here
  <2>1. Navigable(vol)
    BY SoundIsNavigable
  <2> QED
    BY <2>1, PathFollows
<1> QED
  BY <1>1, <1>2, <1>3, AlwaysTyped, PTL DEF Spec

------------------------------------------------------------------------
(* Chains as sequences.                                                    *)

\* The chain that begins with r[1] has the clusters of r, in that order.
Seg(t, r) ==
    /\ r \in Seq(Cluster) /\ Len(r) >= 1
    /\ \A i, j \in 1 .. Len(r) : r[i] = r[j] => i = j
    /\ \A k \in 1 .. Len(r) - 1 : t[r[k]] = r[k + 1]
    /\ t[r[Len(r)]] \notin Cluster

Members(r) == {r[k] : k \in 1 .. Len(r)}

LEMMA SegFields ==
    ASSUME NEW t, NEW r, Seg(t, r)
    PROVE  /\ Len(r) \in Nat /\ Len(r) >= 1 /\ 1 \in 1 .. Len(r) /\ Len(r) \in 1 .. Len(r)
           /\ \A k \in 1 .. Len(r) : r[k] \in Cluster /\ r[k] \in Members(r)
           /\ Members(r) \in SUBSET Cluster
  BY DEF Seg, Members

LEMMA SegChain ==
    ASSUME NEW t, NEW r, Seg(t, r)
    PROVE  Table!Chain(t, r[1]) = Members(r)
<1> DEFINE M == Members(r)
           n == Len(r)
<1>1. /\ n \in Nat /\ n >= 1 /\ M \in SUBSET Cluster /\ r[1] \in Cluster /\ r[1] \in M
      /\ \A k \in 1 .. n : r[k] \in M
  BY SegFields
<1>2. Table!Cluster = Cluster
  BY Numbers
<1>3. Table!ClosedUnder(t, M)
  <2>1. ASSUME NEW d \in M, t[d] \in Cluster
        PROVE  t[d] \in M
    <3>1. PICK k \in 1 .. n : d = r[k]
      BY DEF Members
    <3>2. k # n
      BY <2>1, <3>1 DEF Seg
    <3>3. k \in 1 .. n - 1 /\ k + 1 \in 1 .. n
      BY <3>2, <1>1
    <3>4. t[r[k]] = r[k + 1]
      BY <3>3 DEF Seg
    <3> QED
      BY <3>1, <3>3, <3>4, <1>1
  <2> QED
    BY <2>1, <1>2 DEF Table!ClosedUnder
<1>4. Table!Chain(t, r[1]) \subseteq M
  <2>1. {r[1]} \cap Cluster \subseteq M
    BY <1>1
  <2> HIDE DEF M
  <2> QED
    BY <2>1, <1>1, <1>2, <1>3 DEF Table!Chain
<1>5. ASSUME NEW S \in SUBSET Cluster, {r[1]} \cap Cluster \subseteq S, Table!ClosedUnder(t, S)
      PROVE  M \subseteq S
  <2> DEFINE T == {k \in Nat : r[k] \in S}
  <2>1. 1 \in T
    BY <1>1, <1>5
  <2>2. ASSUME NEW k \in 1 + 1 .. n, k - 1 \in T
        PROVE  k \in T
    <3>1. k - 1 \in 1 .. n - 1 /\ k \in Nat /\ (k - 1) + 1 = k
      BY <1>1
    <3>2. t[r[k - 1]] = r[k] /\ r[k] \in Cluster
      BY <3>1, <1>1, SegFields DEF Seg
    <3> QED
      BY <2>2, <3>1, <3>2, <1>5, <1>2 DEF Table!ClosedUnder
  <2>3. 1 .. n \subseteq T
    <3> HIDE DEF T, n
    <3> QED BY <1>1, <2>1, <2>2, UpTo
  <2> QED
    BY <2>3 DEF Members
<1>6. M \subseteq Table!Chain(t, r[1])
  <2> HIDE DEF M
  <2> QED BY <1>1, <1>2, <1>5 DEF Table!Chain
<1> QED
  BY <1>4, <1>6

\* A sequence without repetitions has as many members as places.
LEMMA SegSize ==
    ASSUME NEW t, NEW r, Seg(t, r)
    PROVE  /\ IsFiniteSet(Members(r)) /\ Cardinality(Members(r)) = Len(r)
           /\ Len(r) <= LastCluster - 1
<1> DEFINE n == Len(r)
           M == Members(r)
           f == [k \in 1 .. n |-> r[k]]
<1>1. n \in Nat /\ n >= 1 /\ M \in SUBSET Cluster /\ \A k \in 1 .. n : r[k] \in M
  BY SegFields
<1>2. f \in Surjection(1 .. n, M) /\ f \in Injection(1 .. n, M)
  <2>1. f \in [1 .. n -> M]
    BY <1>1
  <2>2. \A b \in M : \E a \in 1 .. n : f[a] = b
    BY DEF Members
  <2>3. \A a, b \in 1 .. n : f[a] = f[b] => a = b
    BY DEF Seg
  <2> HIDE DEF f, M, n
  <2> QED
    BY <2>1, <2>2, <2>3 DEF Surjection, Injection, IsInjective
<1>3. IsFiniteSet(1 .. n) /\ Cardinality(1 .. n) = n
  BY <1>1, FS_Interval
<1>4. IsFiniteSet(M) /\ Cardinality(M) = n
  <2> HIDE DEF f, M, n
  <2> QED BY <1>2, <1>3, FS_Surjection
<1>5. IsFiniteSet(Cluster) /\ Cardinality(Cluster) = LastCluster - 1
  <2>1. Cluster = 2 .. LastCluster /\ LastCluster \in Nat /\ LastCluster >= 2
    BY Numbers
  <2>2. IsFiniteSet(2 .. LastCluster)
        /\ Cardinality(2 .. LastCluster) = IF 2 > LastCluster THEN 0 ELSE LastCluster - 2 + 1
    BY <2>1, FS_Interval
  <2> QED
    BY <2>1, <2>2
<1>6. Cardinality(M) <= Cardinality(Cluster)
  <2> HIDE DEF M
  <2> QED BY <1>1, <1>5, FS_Subset
<1> QED
  BY <1>4, <1>5, <1>6

------------------------------------------------------------------------
(* The slots of a directory, in the order of its clusters.                 *)

\* A run is a directory's areas: the root directory, or a chain that ends.
IsRun(t, r) ==
    \/ r = <<ROOT>>
    \/ Seg(t, r) /\ t[r[Len(r)]] = EOF

\* The first m areas of r.
SpotsTo(r, m) == {p \in Position : \E k \in 1 .. m : p[1] = r[k]}
Spots(r) == SpotsTo(r, Len(r))

Before(r, p, q) ==
    \E k, m \in 1 .. Len(r) : /\ p[1] = r[k] /\ q[1] = r[m]
                              /\ k < m \/ (k = m /\ p[2] < q[2])

\* s has the slots of the first m areas in order.
Spelled(r, m, s) ==
    /\ s \in Walks
    /\ \A i \in 1 .. Len(s) : s[i] \in SpotsTo(r, m)
    /\ \A p \in SpotsTo(r, m) : \E i \in 1 .. Len(s) : s[i] = p
    /\ \A i, j \in 1 .. Len(s) : i < j => Before(r, s[i], s[j])
    /\ s[1] = <<r[1], 1>> /\ s[2] = <<r[1], 2>>
    /\ s[Len(s)] = <<r[m], SlotsOf(r[m])>>

LEMMA RunFields ==
    ASSUME NEW t, NEW r, IsRun(t, r)
    PROVE  /\ r \in Seq(Areas) /\ Len(r) \in Nat /\ Len(r) >= 1
           /\ 1 \in 1 .. Len(r) /\ Len(r) \in 1 .. Len(r)
           /\ \A k \in 1 .. Len(r) : r[k] \in Areas /\ r[k] \in Table!Entry /\ Area(r[k]) = r[k]
           /\ \A i, j \in 1 .. Len(r) : r[i] = r[j] => i = j
           /\ Len(r) <= PastEnd
           /\ r[1] # ROOT => Seg(t, r) /\ t[r[Len(r)]] = EOF
           /\ r[1] = ROOT => r = <<ROOT>>
<1>1. CASE r = <<ROOT>>
  BY <1>1, Numbers DEF Area
<1>2. CASE Seg(t, r) /\ t[r[Len(r)]] = EOF
  <2>1. /\ Len(r) \in Nat /\ Len(r) >= 1 /\ 1 \in 1 .. Len(r) /\ Len(r) \in 1 .. Len(r)
        /\ \A k \in 1 .. Len(r) : r[k] \in Cluster
    BY <1>2, SegFields
  <2>2. \A c \in Cluster : c \in Areas /\ c \in Table!Entry /\ Area(c) = c /\ c # ROOT
    BY Numbers DEF Area
  <2>3. Len(r) <= LastCluster - 1
    BY <1>2, SegSize
  <2>4. Len(r) <= PastEnd
    BY <2>1, <2>3, Numbers
  <2>5. r \in Seq(Areas)
    BY <1>2, <2>2 DEF Seg
  <2> QED
    BY <1>2, <2>1, <2>2, <2>4, <2>5 DEF Seg
<1> QED
  BY <1>1, <1>2 DEF IsRun

\* One area alone.
LEMMA FirstSpelled ==
    ASSUME NEW v, Typed(v), NEW r, IsRun(v.table, r)
    PROVE  Spelled(r, 1, AreaSlots(v, r[1]))
<1> DEFINE a == r[1]
           s == AreaSlots(v, a)
<1>1. a \in Areas /\ 1 \in 1 .. Len(r)
  BY RunFields
<1>2. s \in Walks /\ Len(s) = SlotsOf(a) /\ \A i \in 1 .. SlotsOf(a) : s[i] = <<a, i>>
  BY <1>1, AreaSlotsTyped
<1>3. SlotsOf(a) \in Nat /\ SlotsOf(a) >= 2
  BY <1>1, SlotsOfIsPositive
<1> HIDE DEF s
<1>4. ASSUME NEW i \in 1 .. Len(s)
      PROVE  s[i] \in SpotsTo(r, 1)
  <2>1. s[i] = <<a, i>> /\ <<a, i>> \in Position /\ 1 \in 1 .. 1
    BY <1>1, <1>2, IsPosition
  <2> QED
    BY <2>1 DEF SpotsTo
<1>5. ASSUME NEW p \in SpotsTo(r, 1)
      PROVE  \E i \in 1 .. Len(s) : s[i] = p
  <2>1. p \in Position /\ p[1] = a
    BY DEF SpotsTo
  <2>2. p[2] \in 1 .. SlotsOf(a) /\ p = <<a, p[2]>>
    BY <2>1, PositionFields
  <2> QED
    BY <1>2, <2>2
<1>6. ASSUME NEW i \in 1 .. Len(s), NEW j \in 1 .. Len(s), i < j
      PROVE  Before(r, s[i], s[j])
  <2>1. s[i] = <<a, i>> /\ s[j] = <<a, j>>
    BY <1>2
  <2>2. s[i][1] = a /\ s[j][1] = a /\ s[i][2] < s[j][2]
    BY <2>1, <1>6
  <2> QED
    BY <2>2, <1>1 DEF Before
<1>7. s[1] = <<a, 1>> /\ s[2] = <<a, 2>> /\ s[Len(s)] = <<a, SlotsOf(a)>>
  BY <1>2, <1>3
<1> QED
  BY <1>2, <1>4, <1>5, <1>6, <1>7 DEF Spelled, s

LEMMA NextSpelled ==
    ASSUME NEW v, Typed(v), NEW r, IsRun(v.table, r), NEW m \in 1 .. Len(r) - 1,
           NEW s, Spelled(r, m, s)
    PROVE  Spelled(r, m + 1, Longer(v, s))
<1> DEFINE a == r[m + 1]
           z == AreaSlots(v, a)
           w == s \o z
<1>1. /\ Len(r) \in Nat /\ m \in Nat /\ m \in 1 .. Len(r) /\ m + 1 \in 1 .. Len(r) /\ m + 1 \in Nat
      /\ a \in Areas /\ Area(a) = a /\ r[m] \in Areas
  BY RunFields
<1>2. Seg(v.table, r)
  <2>1. Len(r) # 1
    BY <1>1
  <2> QED
    BY <2>1 DEF IsRun
<1>3. r[m] \in Cluster /\ a \in Cluster /\ v.table[r[m]] = a /\ a # EOF /\ r[m] # ROOT
  <2>1. r[m] \in Cluster /\ a \in Cluster
    BY <1>1, <1>2, SegFields
  <2>2. v.table[r[m]] = a
    BY <1>2 DEF Seg
  <2>3. \A c \in Cluster : c # EOF /\ c # ROOT
    BY Numbers
  <2> QED
    BY <2>1, <2>2, <2>3
<1>4. s \in Walks /\ s # <<>> /\ Len(s) \in Nat /\ Len(s) >= 2 /\ s \in Seq(Position)
      /\ Last(s) = <<r[m], SlotsOf(r[m])>>
  BY DEF Spelled, Walks, Last
<1>5. Last(s) \in Position /\ Last(s)[1] = r[m]
  BY <1>1, <1>4, SlotsOfIsPositive, IsPosition
<1>6. Longer(v, s) = w
  <2>1. ~Ends(v, Last(s))
    BY <1>3, <1>5, EndsIs
  <2> QED
    BY <2>1, <1>1, <1>3, <1>5 DEF Longer
<1>7. z \in Walks /\ Len(z) = SlotsOf(a) /\ \A i \in 1 .. SlotsOf(a) : z[i] = <<a, i>>
  BY <1>1, AreaSlotsTyped
<1>8. SlotsOf(a) \in Nat /\ SlotsOf(a) >= 2
  BY <1>1, SlotsOfIsPositive
<1> HIDE DEF z
<1>9. /\ w \in Walks /\ Len(w) = Len(s) + Len(z)
      /\ \A i \in 1 .. Len(s) : w[i] = s[i]
      /\ \A i \in 1 .. Len(z) : w[Len(s) + i] = z[i]
  <2>1. z \in Seq(Position) /\ Len(z) \in Nat /\ Len(z) >= 2 /\ z[Len(z)][2] = SlotsOf(z[Len(z)][1])
    BY <1>7 DEF Walks
  <2>2. /\ w \in Seq(Position) /\ Len(w) = Len(s) + Len(z)
        /\ \A i \in 1 .. Len(s) : w[i] = s[i]
        /\ \A i \in 1 .. Len(z) : w[Len(s) + i] = z[i]
    BY <1>4, <2>1
  <2>3. w[Len(w)] = z[Len(z)] /\ Len(w) >= 2
    BY <2>1, <2>2, <1>4
  <2> HIDE DEF w
  <2> QED
    BY <2>1, <2>2, <2>3 DEF Walks
<1> HIDE DEF w
<1>10. ASSUME NEW i \in 1 .. Len(w)
       PROVE  i \in 1 .. Len(s) \/ \E j \in 1 .. SlotsOf(a) : i = Len(s) + j
  <2>1. i \in Nat /\ (i <= Len(s) \/ i - Len(s) \in 1 .. SlotsOf(a))
    BY <1>4, <1>7, <1>8, <1>9
  <2>2. i = Len(s) + (i - Len(s))
    BY <2>1, <1>4
  <2> QED
    BY <2>1, <2>2, <1>4
<1>11. \A j \in 1 .. SlotsOf(a) : w[Len(s) + j] = <<a, j>> /\ Len(s) + j \in 1 .. Len(w)
  BY <1>4, <1>7, <1>8, <1>9
<1>12. ASSUME NEW i \in 1 .. Len(w)
       PROVE  w[i] \in SpotsTo(r, m + 1)
  <2>1. CASE i \in 1 .. Len(s)
    <3>1. s[i] \in SpotsTo(r, m) /\ w[i] = s[i]
      BY <2>1, <1>9 DEF Spelled
    <3>2. \A k \in 1 .. m : k \in 1 .. m + 1
      BY <1>1
    <3> QED
      BY <3>1, <3>2 DEF SpotsTo
  <2>2. ASSUME NEW j \in 1 .. SlotsOf(a), i = Len(s) + j
        PROVE  w[i] \in SpotsTo(r, m + 1)
    <3>1. w[i] = <<a, j>> /\ <<a, j>> \in Position /\ m + 1 \in 1 .. m + 1
      BY <2>2, <1>11, <1>1, IsPosition
    <3> QED
      BY <3>1 DEF SpotsTo
  <2> QED
    BY <2>1, <2>2, <1>10
<1>13. ASSUME NEW p \in SpotsTo(r, m + 1)
       PROVE  \E i \in 1 .. Len(w) : w[i] = p
  <2>1. PICK k \in 1 .. m + 1 : p \in Position /\ p[1] = r[k]
    BY DEF SpotsTo
  <2>2. CASE k = m + 1
    <3>1. p[2] \in 1 .. SlotsOf(a) /\ p = <<a, p[2]>>
      BY <2>1, <2>2, PositionFields
    <3> QED
      BY <3>1, <1>11
  <2>3. CASE k # m + 1
    <3>1. k \in 1 .. m
      BY <2>3, <1>1
    <3>2. p \in SpotsTo(r, m)
      BY <2>1, <3>1 DEF SpotsTo
    <3>3. PICK i \in 1 .. Len(s) : s[i] = p
      BY <3>2 DEF Spelled
    <3>4. i \in 1 .. Len(w) /\ w[i] = p
      BY <3>3, <1>9, <1>4, <1>7, <1>8
    <3> QED
      BY <3>4
  <2> QED
    BY <2>2, <2>3
<1>14. ASSUME NEW i \in 1 .. Len(w), NEW j \in 1 .. Len(w), i < j
       PROVE  Before(r, w[i], w[j])
  <2>1. CASE i \in 1 .. Len(s) /\ j \in 1 .. Len(s)
    BY <2>1, <1>9, <1>14 DEF Spelled
  <2>2. ASSUME i \in 1 .. Len(s), NEW b \in 1 .. SlotsOf(a), j = Len(s) + b
        PROVE  Before(r, w[i], w[j])
    <3>1. PICK k \in 1 .. m : s[i][1] = r[k]
      BY <2>2 DEF Spelled, SpotsTo
    <3>2. k \in 1 .. Len(r) /\ k < m + 1
      BY <1>1
    <3> DEFINE e == m + 1
    <3>3. w[i][1] = r[k] /\ w[j][1] = r[e] /\ e \in 1 .. Len(r) /\ k < e
      BY <2>2, <3>1, <3>2, <1>1, <1>9, <1>11
    <3> HIDE DEF e
    <3> QED
      BY <3>2, <3>3 DEF Before
  <2>3. ASSUME NEW b \in 1 .. SlotsOf(a), i = Len(s) + b, NEW e \in 1 .. SlotsOf(a), j = Len(s) + e
        PROVE  Before(r, w[i], w[j])
    <3>1. b < e
      BY <2>3, <1>14, <1>4
    <3>2. w[i] = <<a, b>> /\ w[j] = <<a, e>>
      BY <2>3, <1>11
    <3>3. w[i][1] = r[m + 1] /\ w[j][1] = r[m + 1] /\ w[i][2] < w[j][2]
      BY <3>1, <3>2
    <3> QED
      BY <3>3, <1>1 DEF Before
  <2>4. ASSUME NEW b \in 1 .. SlotsOf(a), i = Len(s) + b, j \in 1 .. Len(s)
        PROVE  FALSE
    BY <2>4, <1>14, <1>4
  <2> QED
    BY <2>1, <2>2, <2>3, <2>4, <1>10
<1>15. w[1] = s[1] /\ w[2] = s[2] /\ w[Len(w)] = <<a, SlotsOf(a)>>
  <2>1. 1 \in 1 .. Len(s) /\ 2 \in 1 .. Len(s) /\ SlotsOf(a) \in 1 .. SlotsOf(a)
    BY <1>4, <1>8
  <2>2. w[Len(s) + SlotsOf(a)] = <<a, SlotsOf(a)>>
    BY <2>1, <1>11
  <2> QED
    BY <2>1, <2>2, <1>7, <1>9
<1> QED
  BY <1>6, <1>9, <1>12, <1>13, <1>14, <1>15 DEF Spelled

\* The slots of a directory are those of its areas.
LEMMA SlotsOfRun ==
    ASSUME NEW v, Typed(v), NEW r, IsRun(v.table, r)
    PROVE  Spelled(r, Len(r), Slots(v, r[1]))
<1> DEFINE n == Len(r)
           W(k) == Walk(v, r[1])[k]
           S == {k \in Nat : k < n => Spelled(r, k + 1, W(k))}
           T == {k \in Nat : Spelled(r, n, W(k))}
<1>1. n \in Nat /\ n >= 1 /\ n <= PastEnd /\ PastEnd \in Nat /\ r[1] \in Table!Entry
      /\ Area(r[1]) = r[1] /\ r[n] \in Areas
  BY RunFields, Numbers
<1>2. /\ W(0) = AreaSlots(v, r[1])
      /\ \A k \in 1 .. PastEnd : W(k) = Longer(v, W(k - 1))
  BY <1>1, WalkIs
<1> HIDE DEF W
<1>3. 0 \in S
  BY <1>2, FirstSpelled
<1>4. ASSUME NEW k \in 0 + 1 .. n - 1, k - 1 \in S
      PROVE  k \in S
  <2>1. k \in Nat /\ k \in 1 .. PastEnd /\ k \in 1 .. n - 1 /\ (k - 1) + 1 = k /\ k - 1 < n
    BY <1>1
  <2>2. Spelled(r, k, W(k - 1))
    BY <1>4, <2>1
  <2>3. Spelled(r, k + 1, Longer(v, W(k - 1)))
    <3> HIDE DEF n
    <3> QED BY <2>1, <2>2, NextSpelled DEF n
  <2> QED
    BY <1>2, <2>1, <2>3
<1>5. 0 .. n - 1 \subseteq S
  <2> HIDE DEF S, n
  <2>1. n - 1 \in Nat
    BY <1>1
  <2> QED BY <1>3, <1>4, <2>1, UpTo
<1>6. n - 1 \in T
  <2>1. n - 1 \in S /\ n - 1 < n /\ (n - 1) + 1 = n /\ n - 1 \in Nat
    BY <1>1, <1>5
  <2> QED
    BY <2>1
<1>7. ASSUME NEW k \in (n - 1) + 1 .. PastEnd, k - 1 \in T
      PROVE  k \in T
  <2>1. k \in Nat /\ k \in 1 .. PastEnd
    BY <1>1
  <2> DEFINE s == W(k - 1)
  <2>2. Spelled(r, n, s)
    BY <1>7
  <2> HIDE DEF s
  <2>3. Last(s) = <<r[n], SlotsOf(r[n])>>
    BY <2>2 DEF Spelled, Last
  <2>4. Last(s) \in Position /\ Last(s)[1] = r[n] /\ Last(s)[2] = SlotsOf(r[n])
    BY <2>3, <1>1, SlotsOfIsPositive, IsPosition
  <2>5. r[n] = ROOT \/ v.table[r[n]] = EOF
    BY DEF IsRun
  <2>6. Longer(v, s) = s
    BY <2>4, <2>5, EndsIs DEF Longer
  <2> QED
    BY <2>1, <2>2, <2>6, <1>2 DEF s
<1>8. n - 1 .. PastEnd \subseteq T
  <2> HIDE DEF T, n
  <2>1. n - 1 \in Nat
    BY <1>1
  <2> QED BY <1>1, <1>6, <1>7, <2>1, UpTo
<1>9. PastEnd \in T
  BY <1>1, <1>8
<1> QED
  BY <1>9 DEF Slots, W

------------------------------------------------------------------------
(* What a directory in order looks like.                                   *)

EntrySpots(v, r) == {p \in Spots(r) : At(v, p).kind = "entry"}
NamedSpots(v, r) == {p \in EntrySpots(v, r) : ~IsDot(At(v, p))}

\* The slots of the directory d lie in r: its references come first and are the
\* only ones, and nothing is behind an end mark.
Neat(v, d, up, r) ==
    /\ IsRun(v.table, r) /\ r[1] = d.entry.cluster
    /\ d # Top => r[1] # ROOT
    /\ \A p \in Spots(r) : At(v, p).kind # "data"
    /\ \A p \in Spots(r) : IsDot(At(v, p)) => d # Top /\ p \in {<<r[1], 1>>, <<r[1], 2>>}
    /\ d # Top => /\ At(v, <<r[1], 1>>) = Entry(".", TRUE, d.entry.cluster, 0)
                  /\ At(v, <<r[1], 2>>) = Entry("..", TRUE, up, 0)
    /\ \A p, q \in Spots(r) : Before(r, p, q) /\ At(v, p) = EndMark => At(v, q) = EndMark

LEMMA FirstSpots ==
    ASSUME NEW t, NEW r, IsRun(t, r)
    PROVE  <<r[1], 1>> \in Spots(r) /\ <<r[1], 2>> \in Spots(r)
<1>1. r[1] \in Areas /\ 1 \in 1 .. Len(r)
  BY RunFields
<1>2. 1 \in 1 .. SlotsOf(r[1]) /\ 2 \in 1 .. SlotsOf(r[1])
  BY <1>1, SlotsOfIsPositive
<1>3. <<r[1], 1>> \in Position /\ <<r[1], 2>> \in Position
  BY <1>1, <1>2, IsPosition
<1> QED
  BY <1>1, <1>3 DEF Spots, SpotsTo

LEMMA SpotArea ==
    ASSUME NEW r, NEW p \in Spots(r)
    PROVE  p \in Position /\ p[1] \in Members(r)
  BY DEF Spots, SpotsTo, Members

LEMMA AreaOfSpots ==
    ASSUME NEW t, NEW r, IsRun(t, r)
    PROVE  {p[1] : p \in Spots(r)} = Members(r)
<1>1. ASSUME NEW k \in 1 .. Len(r)
      PROVE  r[k] \in {p[1] : p \in Spots(r)}
  <2>1. r[k] \in Areas /\ 1 \in 1 .. SlotsOf(r[k])
    BY RunFields, SlotsOfIsPositive
  <2>2. <<r[k], 1>> \in Position
    BY <2>1, IsPosition
  <2>3. <<r[k], 1>> \in Spots(r) /\ <<r[k], 1>>[1] = r[k]
    BY <2>2 DEF Spots, SpotsTo
  <2> QED
    BY <2>3
<1> QED
  BY <1>1, SpotArea DEF Members

LEMMA NeatListing ==
    ASSUME NEW v, Typed(v), NEW d, NEW up, NEW r, Neat(v, d, up, r)
    PROVE  LET s == Slots(v, d.entry.cluster)
           IN  /\ s \in Walks /\ DOMAIN s = 1 .. Len(s) /\ Spelled(r, Len(r), s)
               /\ \A i \in Marks(v, s), j \in DOMAIN s : j > i => j \in Marks(v, s)
               /\ Listed(v, s) = {i \in DOMAIN s : At(v, s[i]).kind = "entry"}
               /\ Entries(v, d.entry.cluster) = EntrySpots(v, r)
<1> DEFINE s == Slots(v, d.entry.cluster)
<1>1. Spelled(r, Len(r), s)
  BY SlotsOfRun DEF Neat
<1>2. Entries(v, d.entry.cluster) = EntriesOf(v, s)
  BY DEF Entries
<1> HIDE DEF s
<1>3. s \in Walks /\ DOMAIN s = 1 .. Len(s) /\ Len(s) \in Nat
      /\ \A i \in DOMAIN s : s[i] \in Spots(r)
  BY <1>1 DEF Spelled, Walks, Spots
<1>4. ASSUME NEW i \in Marks(v, s), NEW j \in DOMAIN s, j > i
      PROVE  j \in Marks(v, s)
  <2>1. i \in DOMAIN s /\ At(v, s[i]) = EndMark
    BY DEF Marks
  <2>2. Before(r, s[i], s[j])
    <3>1. i \in 1 .. Len(s) /\ j \in 1 .. Len(s) /\ i < j
      BY <2>1, <1>3, <1>4
    <3> QED
      BY <3>1, <1>1 DEF Spelled
  <2>3. At(v, s[j]) = EndMark
    BY <2>1, <2>2, <1>3 DEF Neat
  <2> QED
    BY <2>3 DEF Marks
<1>5. ASSUME NEW i \in DOMAIN s
      PROVE  i \in Listed(v, s) <=> At(v, s[i]).kind = "entry"
  <2>1. At(v, s[i]).kind # "data"
    BY <1>3 DEF Neat
  <2>2. ASSUME At(v, s[i]).kind = "entry", NEW j \in Marks(v, s)
        PROVE  i < j
    <3>1. j \in DOMAIN s /\ i \in Nat /\ j \in Nat /\ At(v, s[j]).kind = "last"
      BY <1>3 DEF Marks, EndMark
    <3>2. i # j
      BY <2>2, <3>1
    <3>3. ~(i > j)
      <4>1. i > j => i \in Marks(v, s)
        BY <1>4
      <4>2. i \notin Marks(v, s)
        BY <2>2 DEF Marks, EndMark
      <4> QED
        BY <4>1, <4>2
    <3> QED
      BY <3>1, <3>2, <3>3
  <2> QED
    BY <2>1, <2>2 DEF Listed
<1>6. Listed(v, s) = {i \in DOMAIN s : At(v, s[i]).kind = "entry"}
  BY <1>5 DEF Listed
<1>7. EntriesOf(v, s) = EntrySpots(v, r)
  <2>1. ASSUME NEW p \in EntriesOf(v, s)
        PROVE  p \in EntrySpots(v, r)
    BY <1>3, <1>6 DEF EntriesOf, EntrySpots
  <2>2. ASSUME NEW p \in EntrySpots(v, r)
        PROVE  p \in EntriesOf(v, s)
    <3>1. PICK i \in 1 .. Len(s) : s[i] = p
      BY <1>1 DEF Spelled, EntrySpots, Spots
    <3> QED
      BY <3>1, <1>3, <1>6 DEF EntriesOf, EntrySpots
  <2> QED
    BY <2>1, <2>2
<1> QED
  BY <1>1, <1>2, <1>3, <1>4, <1>6, <1>7 DEF s

LEMMA NeatWithin ==
    ASSUME NEW v, Typed(v), NEW d, NEW up, NEW r, Neat(v, d, up, r)
    PROVE  Within(v, d) = {NodeAt(v, d, p) : p \in NamedSpots(v, r)}
<1>1. Entries(v, d.entry.cluster) = EntrySpots(v, r)
  BY NeatListing
<1> QED
  BY <1>1 DEF Within, NamedSpots, EntrySpots

\* No slot comes before itself.
LEMMA BeforeItself ==
    ASSUME NEW t, NEW r, IsRun(t, r), NEW p \in Spots(r), NEW q \in Spots(r), Before(r, p, q)
    PROVE  p # q
<1>1. SUFFICES ASSUME p = q PROVE FALSE
  OBVIOUS
<1>2. PICK k, m \in 1 .. Len(r) : /\ p[1] = r[k] /\ q[1] = r[m]
                                  /\ k < m \/ (k = m /\ p[2] < q[2])
  BY DEF Before
<1>3. k = m
  BY <1>1, <1>2, RunFields
<1>4. p[2] \in Nat /\ Len(r) \in Nat
  BY RunFields DEF Spots, SpotsTo, Position
<1>5. k \in Nat
  BY <1>4
<1> QED
  BY <1>1, <1>2, <1>3, <1>4, <1>5

LEMMA NeatIsSound ==
    ASSUME NEW v, Typed(v), NEW d, NEW up, NEW r, Neat(v, d, up, r), d.path = <<>> <=> d = Top
    PROVE  SoundDirectory(v, d, up)
<1> DEFINE s == Slots(v, d.entry.cluster)
<1>1. /\ s \in Walks /\ DOMAIN s = 1 .. Len(s) /\ Spelled(r, Len(r), s)
      /\ \A i \in Marks(v, s), j \in DOMAIN s : j > i => j \in Marks(v, s)
  BY NeatListing
<1> HIDE DEF s
<1>2. Range(s) = Spots(r)
  BY <1>1 DEF Range, Spelled, Spots
<1>3. IsRun(v.table, r) /\ r[1] = d.entry.cluster
  BY DEF Neat
<1>4. {p[1] : p \in Range(s)} = Members(r)
  BY <1>2, <1>3, AreaOfSpots
<1>5. s[1] = <<r[1], 1>> /\ s[2] = <<r[1], 2>>
  BY <1>1 DEF Spelled
<1>6. {p[1] : p \in Range(s)} = IF d.path = <<>> THEN {ROOT} ELSE Clusters(v, d.entry.cluster)
  <2>1. CASE d = Top
    <3>1. r[1] = ROOT
      BY <2>1, <1>3 DEF Top, RootEntry, Entry
    <3>2. r = <<ROOT>> /\ Len(r) = 1
      BY <1>3, <3>1, RunFields
    <3>3. Members(r) = {ROOT}
      BY <3>2 DEF Members
    <3> QED
      BY <2>1, <1>4, <3>3
  <2>2. CASE d # Top
    <3>1. Seg(v.table, r)
      BY <2>2, <1>3, RunFields DEF Neat
    <3> QED
      BY <2>2, <1>3, <1>4, <3>1, SegChain DEF Clusters
  <2> QED
    BY <2>1, <2>2
<1>8. ASSUME NEW i \in 3 .. Len(s)
      PROVE  ~IsDot(At(v, s[i]))
  <2>1. i \in 1 .. Len(s) /\ 1 \in 1 .. Len(s) /\ 2 \in 1 .. Len(s) /\ 1 < i /\ 2 < i
    BY <1>1
  <2>2. Before(r, s[1], s[i]) /\ Before(r, s[2], s[i]) /\ s[i] \in Spots(r) /\ s[1] \in Spots(r)
        /\ s[2] \in Spots(r)
    BY <1>1, <2>1 DEF Spelled, Spots
  <2>3. s[1] # s[i]
    BY <1>3, <2>2, BeforeItself
  <2>4. s[2] # s[i]
    BY <1>3, <2>2, BeforeItself
  <2> QED
    BY <1>5, <2>2, <2>3, <2>4 DEF Neat
<1>7. SoundSlots(v, d, up, s)
  BY <1>1, <1>2, <1>5, <1>6, <1>8 DEF SoundSlots, Neat
<1> QED
  BY <1>7 DEF SoundDirectory, s

------------------------------------------------------------------------
(* How a tree lies in a volume.                                            *)

Dirs(N) == {n \in N : n.entry.dir}
Held(R) == UNION {Members(R[n]) : n \in DOMAIN R}

\* One path, one node, and the root is a node.
PathsApart(N) ==
    /\ N \in SUBSET NodeSet /\ Top \in N
    /\ \A n, m \in N : n.path = m.path => n = m

\* Directories have a run, and files that have been written; no two runs meet.
RunsApart(t, N, R) ==
    /\ DOMAIN R \subseteq N /\ Dirs(N) \subseteq DOMAIN R
    /\ \A n \in DOMAIN R : /\ IsRun(t, R[n]) /\ R[n][1] = n.entry.cluster
                           /\ n # Top => R[n][1] # ROOT
    /\ \A n, m \in DOMAIN R : n # m => Members(R[n]) \cap Members(R[m]) = {}

\* The directory that ".." of d means.
Above(N, d, u) ==
    /\ u \in Dirs(N)
    /\ IF d = Top THEN u = Top ELSE u.path = Front(d.path)

Orderly(v, N, R, d) ==
    /\ \E u \in N : Above(N, d, u) /\ Neat(v, d, u.entry.cluster, R[d])
    /\ \A p \in NamedSpots(v, R[d]) : NodeAt(v, d, p) \in N

\* The entry of n is in the directory d.
LiesIn(v, R, n, d) == n.pos \in NamedSpots(v, R[d]) /\ n = NodeAt(v, d, n.pos)

\* The nodes N lie in the runs R of the volume, and there are no others.
Laid(v, N, R) ==
    /\ PathsApart(N) /\ RunsApart(v.table, N, R)
    /\ \A d \in Dirs(N) : Orderly(v, N, R, d)
    /\ \A n \in N : n # Top => \E d \in Dirs(N) : LiesIn(v, R, n, d)

LEMMA PathFacts ==
    ASSUME NEW N, PathsApart(N)
    PROVE  /\ \A n \in N : n \in NodeSet /\ (n.path = <<>> <=> n = Top)
           /\ Top \in Dirs(N) /\ Dirs(N) \subseteq N
<1>1. Top \in N /\ Top.path = <<>> /\ Top.entry.dir
  BY DEF PathsApart, Top, RootEntry, Entry
<1> QED
  BY <1>1 DEF PathsApart, Dirs

LEMMA NodeFields ==
    ASSUME NEW n \in NodeSet
    PROVE  /\ n.path \in Seq(Names) /\ Len(n.path) \in Nat /\ n.entry \in EntrySlot
           /\ n.entry.dir \in BOOLEAN /\ n.entry.cluster \in Table!Entry /\ n.entry.size \in Nat
           /\ n = [path |-> n.path, pos |-> n.pos, entry |-> n.entry]
  BY DEF NodeSet, EntrySlot

\* What follows for the node.
ChildOf(v, R, n, d) ==
    /\ n.entry = At(v, n.pos) /\ n.path = Append(d.path, n.entry.name)
    /\ Front(n.path) = d.path /\ n # Top
    /\ n.entry.name \in Names
    /\ n.pos \in Spots(R[d]) /\ n.pos \in Position

LEMMA LiesInFacts ==
    ASSUME NEW v, NEW N, PathsApart(N), NEW R, NEW n \in N, NEW d \in N, LiesIn(v, R, n, d)
    PROVE  ChildOf(v, R, n, d)
<1>1. n.entry = At(v, n.pos) /\ n.path = Append(d.path, At(v, n.pos).name)
  BY DEF LiesIn, NodeAt
<1>2. n.path \in Seq(Names) /\ d.path \in Seq(Names)
  BY PathFacts, NodeFields
<1> DEFINE x == At(v, n.pos).name
           s == d.path
<1>3. Len(n.path) = Len(s) + 1 /\ n.path[Len(s) + 1] = x /\ Len(s) \in Nat
      /\ \A i \in 1 .. Len(s) : n.path[i] = s[i]
  BY <1>1, <1>2
<1>4. Front(n.path) = s
  BY <1>2, <1>3 DEF Front
<1>5. x \in Names
  BY <1>2, <1>3
<1>6. n # Top
  <2>1. n.path # <<>>
    BY <1>3
  <2> QED
    BY <2>1 DEF Top
<1>7. n.pos \in Spots(R[d]) /\ n.pos \in Position
  BY SpotArea DEF LiesIn, NamedSpots, EntrySpots
<1> QED
  BY <1>1, <1>3, <1>4, <1>5, <1>6, <1>7 DEF ChildOf

LEMMA OneDeeper ==
    ASSUME NEW v, NEW N, PathsApart(N), NEW R, NEW n \in N, NEW d \in N, LiesIn(v, R, n, d)
    PROVE  Len(n.path) = Len(d.path) + 1
<1>1. n.path = Append(d.path, At(v, n.pos).name)
  BY DEF LiesIn, NodeAt
<1>2. n.path \in Seq(Names) /\ d.path \in Seq(Names)
  BY PathFacts, NodeFields
<1> QED
  BY <1>1, <1>2

\* Clusters of k directories above each other.
Tower(k) == {S \in SUBSET Cluster : IsFiniteSet(S) /\ Cardinality(S) = k}

\* There are no more directories above each other than clusters.
LEMMA DepthOfDirs ==
    ASSUME NEW v, NEW N, NEW R, Laid(v, N, R), NEW d \in Dirs(N)
    PROVE  Len(d.path) <= LastCluster - 1
<1> DEFINE Beneath(k, S) == \A c \in S : \E n \in Dirs(N) : n # Top /\ Len(n.path) <= k /\ n.entry.cluster = c
           T == {k \in Nat : \A n \in Dirs(N) : Len(n.path) = k => \E S \in Tower(k) : Beneath(k, S)}
<1>1. PathsApart(N) /\ RunsApart(v.table, N, R)
  BY DEF Laid
<1>2. \A n \in Dirs(N) : Len(n.path) \in Nat /\ n \in N
  BY <1>1, PathFacts, NodeFields
<1>3. 0 \in T
  <2>1. {} \in Tower(0)
    BY FS_EmptySet DEF Tower
  <2> QED
    BY <2>1
<1>4. ASSUME NEW n \in Dirs(N), n # Top
      PROVE  n.entry.cluster \in Cluster
  <2>1. n \in DOMAIN R /\ IsRun(v.table, R[n]) /\ R[n][1] = n.entry.cluster /\ R[n][1] # ROOT
    BY <1>1, <1>4 DEF RunsApart
  <2> QED
    BY <2>1, RunFields, SegFields
<1>5. ASSUME NEW n \in Dirs(N), NEW m \in Dirs(N), n # m
      PROVE  n.entry.cluster # m.entry.cluster
  <2>1. /\ Members(R[n]) \cap Members(R[m]) = {}
        /\ R[n][1] = n.entry.cluster /\ IsRun(v.table, R[n])
        /\ R[m][1] = m.entry.cluster /\ IsRun(v.table, R[m])
    BY <1>1, <1>5 DEF RunsApart
  <2>2. R[n][1] \in Members(R[n]) /\ R[m][1] \in Members(R[m])
    BY <2>1, RunFields DEF Members
  <2> QED
    BY <2>1, <2>2
<1>6. ASSUME NEW k \in 0 + 1 .. Len(d.path), k - 1 \in T
      PROVE  k \in T
  <2>1. SUFFICES ASSUME NEW n \in Dirs(N), Len(n.path) = k
                 PROVE  \E S \in Tower(k) : Beneath(k, S)
    BY <1>2
  <2>2. k \in Nat /\ k >= 1 /\ k - 1 \in Nat
    BY <1>2
  <2>3. n # Top
    BY <2>1, <2>2 DEF Top
  <2>4. PICK e \in Dirs(N) : LiesIn(v, R, n, e)
    BY <2>3, <1>2 DEF Laid
  <2>5. Len(e.path) = k - 1
    <3>0. n \in N /\ e \in N
      BY <1>2
    <3>1. Len(n.path) = Len(e.path) + 1
      BY <3>0, <2>4, <1>1, OneDeeper
    <3>2. Len(e.path) \in Nat
      BY <1>2
    <3> QED
      BY <3>1, <3>2, <2>1, <2>2
  <2>6. PICK S \in Tower(k - 1) : Beneath(k - 1, S)
    BY <1>6, <2>5
  <2> DEFINE c == n.entry.cluster
             U == S \cup {c}
  <2>7. c \notin S
    <3>1. SUFFICES ASSUME c \in S PROVE FALSE
      OBVIOUS
    <3>2. PICK m \in Dirs(N) : Len(m.path) <= k - 1 /\ m.entry.cluster = c
      BY <2>6, <3>1
    <3>3. m # n
      BY <3>2, <2>1, <2>2
    <3> QED
      BY <3>2, <3>3, <1>5
  <2>8. U \in Tower(k)
    <3>1. S \in SUBSET Cluster /\ IsFiniteSet(S) /\ Cardinality(S) = k - 1
      BY DEF Tower
    <3>2. c \in Cluster
      BY <1>4, <2>3
    <3>3. IsFiniteSet(U) /\ Cardinality(U) = (k - 1) + 1
      <4> HIDE DEF c
      <4> QED BY <3>1, <2>7, FS_AddElement
    <3> QED
      BY <3>1, <3>2, <3>3, <2>2 DEF Tower
  <2>9. Beneath(k, U)
    <3>1. \A m \in Dirs(N) : Len(m.path) <= k - 1 => Len(m.path) <= k
      BY <1>2, <2>2
    <3>2. Len(n.path) <= k
      BY <2>1, <2>2
    <3> QED
      BY <2>6, <3>1, <3>2, <2>3
  <2> QED
    BY <2>8, <2>9
<1>7. 0 .. Len(d.path) \subseteq T
  <2>1. Len(d.path) \in Nat
    BY <1>2
  <2> HIDE DEF T
  <2> QED BY <1>3, <1>6, <2>1, UpTo
<1>8. PICK S \in Tower(Len(d.path)) : TRUE
  <2>1. Len(d.path) \in 0 .. Len(d.path)
    BY <1>2
  <2>2. Len(d.path) \in T
    <3> HIDE DEF T
    <3> QED BY <2>1, <1>7
  <2> QED
    BY <2>2
<1>9. LastCluster \in Nat /\ LastCluster >= 2 /\ Cluster = 2 .. LastCluster
  BY Numbers
<1>10. IsFiniteSet(2 .. LastCluster)
       /\ Cardinality(2 .. LastCluster) = IF 2 > LastCluster THEN 0 ELSE LastCluster - 2 + 1
  BY <1>9, FS_Interval
<1>11. Cardinality(S) <= Cardinality(Cluster) /\ Cardinality(Cluster) = LastCluster - 1
  <2>1. S \in SUBSET Cluster
    BY DEF Tower
  <2>2. IsFiniteSet(Cluster) /\ Cardinality(Cluster) = LastCluster - 1
    BY <1>9, <1>10
  <2> QED
    BY <2>1, <2>2, FS_Subset
<1> QED
  BY <1>11 DEF Tower

LEMMA DepthOfNodes ==
    ASSUME NEW v, NEW N, NEW R, Laid(v, N, R), NEW n \in N
    PROVE  Len(n.path) \in 0 .. LastCluster
<1>1. PathsApart(N)
  BY DEF Laid
<1>2. \A m \in N : Len(m.path) \in Nat
  BY <1>1, PathFacts, NodeFields
<1>3. LastCluster \in Nat
  BY Numbers
<1>4. CASE n = Top
  BY <1>4, <1>3 DEF Top
<1>5. CASE n # Top
  <2>1. PICK d \in Dirs(N) : LiesIn(v, R, n, d)
    BY <1>5 DEF Laid
  <2>2. d \in N
    BY DEF Dirs
  <2>3. Len(n.path) = Len(d.path) + 1
    BY <1>1, <2>1, <2>2, OneDeeper
  <2>4. Len(d.path) <= LastCluster - 1
    BY DepthOfDirs
  <2> QED
    BY <2>2, <2>3, <2>4, <1>2, <1>3
<1> QED
  BY <1>4, <1>5

\* Nodes that are entries of each other, and not too deep, are nodes of the volume.
LEMMA Reached ==
    ASSUME NEW v, Typed(v), NEW N, PathsApart(N),
           \A n \in N : n # Top => \E d \in Dirs(N) : n \in Within(v, d),
           \A n \in N : Len(n.path) \in 0 .. PastEnd
    PROVE  N \subseteq NodesOf(v)
<1> DEFINE T == {k \in Nat : \A n \in N : Len(n.path) = k => n \in Levels(v)[k]}
<1>1. /\ Levels(v)[0] = {Top}
      /\ \A k \in 1 .. PastEnd : Levels(v)[k] = NextLevel(v, Levels(v)[k - 1])
  BY LevelsAre
<1>2. \A n \in N : n \in NodeSet /\ (n.path = <<>> <=> n = Top) /\ n.path \in Seq(Names)
  BY PathFacts, NodeFields
<1>3. PastEnd \in Nat
  BY Numbers
<1>4. 0 \in T
  <2>1. ASSUME NEW n \in N, Len(n.path) = 0
        PROVE  n = Top
    <3>1. n.path = <<>>
      BY <2>1, <1>2
    <3> QED
      BY <3>1, <1>2
  <2> QED
    BY <2>1, <1>1
<1>5. ASSUME NEW k \in 0 + 1 .. PastEnd, k - 1 \in T
      PROVE  k \in T
  <2>1. SUFFICES ASSUME NEW n \in N, Len(n.path) = k
                 PROVE  n \in Levels(v)[k]
    BY <1>3
  <2>2. k \in Nat /\ k \in 1 .. PastEnd /\ k - 1 \in Nat
    BY <1>3
  <2>3. n # Top
    BY <2>1, <2>2, <1>2 DEF Top
  <2>4. PICK d \in Dirs(N) : n \in Within(v, d)
    BY <2>3
  <2>5. d \in N /\ d.entry.dir
    BY DEF Dirs
  <2>6. Front(n.path) = d.path /\ n.path # <<>>
    BY <2>4, <2>5, <1>2, WithinTyped
  <2>7. Len(d.path) = k - 1
    <3>1. n.path \in Seq(Names)
      BY <1>2
    <3>2. Len(Front(n.path)) = Len(n.path) - 1
      BY <3>1, <2>6 DEF Front
    <3> QED
      BY <3>2, <2>1, <2>6
  <2>8. d \in Levels(v)[k - 1]
    BY <1>5, <2>5, <2>7
  <2>9. Levels(v)[k] = NextLevel(v, Levels(v)[k - 1])
    BY <1>1, <2>2
  <2> QED
    BY <2>4, <2>5, <2>8, <2>9 DEF NextLevel
<1>6. 0 .. PastEnd \subseteq T
  <2> HIDE DEF T
  <2> QED BY <1>3, <1>4, <1>5, UpTo
<1>7. ASSUME NEW n \in N
      PROVE  n \in NodesOf(v)
  <2>1. Len(n.path) \in 0 .. PastEnd
    OBVIOUS
  <2>2. Len(n.path) \in T
    <3> HIDE DEF T
    <3> QED BY <2>1, <1>6
  <2>3. n \in Levels(v)[Len(n.path)]
    BY <2>2
  <2> QED
    BY <2>1, <2>3 DEF NodesOf
<1> QED
  BY <1>7

LEMMA LaidWithin ==
    ASSUME NEW v, Typed(v), NEW N, NEW R, Laid(v, N, R), NEW d \in Dirs(N)
    PROVE  /\ d \in N /\ d \in NodeSet /\ d.entry.dir
           /\ Within(v, d) = {NodeAt(v, d, p) : p \in NamedSpots(v, R[d])}
           /\ Within(v, d) \subseteq N
<1>1. PathsApart(N) /\ Orderly(v, N, R, d)
  BY DEF Laid
<1>2. PICK u \in N : Neat(v, d, u.entry.cluster, R[d])
  BY <1>1 DEF Orderly
<1>3. Within(v, d) = {NodeAt(v, d, p) : p \in NamedSpots(v, R[d])}
  BY <1>2, NeatWithin
<1>4. d \in N /\ d.entry.dir
  BY DEF Dirs
<1>5. d \in NodeSet
  BY <1>1, <1>4, PathFacts
<1> QED
  BY <1>1, <1>3, <1>4, <1>5 DEF Orderly

LEMMA LaidNodes ==
    ASSUME NEW v, Typed(v), NEW N, NEW R, Laid(v, N, R)
    PROVE  NodesOf(v) = N
<1>1. PathsApart(N)
  BY DEF Laid
<1>2. ASSUME NEW n \in N, n # Top
      PROVE  \E d \in Dirs(N) : n \in Within(v, d)
  <2>1. PICK d \in Dirs(N) : LiesIn(v, R, n, d)
    BY <1>2 DEF Laid
  <2>2. n \in Within(v, d)
    BY <2>1, LaidWithin DEF LiesIn
  <2> QED
    BY <2>2
<1>3. ASSUME NEW n \in N
      PROVE  Len(n.path) \in 0 .. PastEnd
  <2>1. Len(n.path) \in 0 .. LastCluster
    BY DepthOfNodes
  <2> QED
    BY <2>1, Numbers
<1>4. N \subseteq NodesOf(v)
  BY <1>1, <1>2, <1>3, Reached
<1> DEFINE T == {k \in Nat : Levels(v)[k] \subseteq N}
<1>5. /\ Levels(v)[0] = {Top}
      /\ \A k \in 1 .. PastEnd : Levels(v)[k] = NextLevel(v, Levels(v)[k - 1])
  BY LevelsAre
<1>6. PastEnd \in Nat
  BY Numbers
<1>7. 0 \in T
  BY <1>1, <1>5 DEF PathsApart
<1>8. ASSUME NEW k \in 0 + 1 .. PastEnd, k - 1 \in T
      PROVE  k \in T
  <2>1. k \in Nat /\ k \in 1 .. PastEnd
    BY <1>6
  <2>2. Levels(v)[k] = NextLevel(v, Levels(v)[k - 1])
    BY <1>5, <2>1
  <2>3. Levels(v)[k - 1] \subseteq N
    BY <1>8
  <2>4. \A d \in Levels(v)[k - 1] : d.entry.dir => Within(v, d) \subseteq N
    BY <2>3, LaidWithin DEF Dirs
  <2>5. Levels(v)[k] \subseteq N
    BY <2>2, <2>4 DEF NextLevel
  <2> QED
    BY <2>1, <2>5
<1>9. 0 .. PastEnd \subseteq T
  <2> HIDE DEF T
  <2> QED BY <1>6, <1>7, <1>8, UpTo
<1>10. NodesOf(v) \subseteq N
  BY <1>9 DEF NodesOf
<1> QED
  BY <1>4, <1>10

\* A path leads through it as the tree says.
LEMMA LaidReferences ==
    ASSUME NEW v, Typed(v), NEW N, NEW R, Laid(v, N, R), NEW d \in Dirs(N)
    PROVE  References(v, d, Slots(v, d.entry.cluster)) /\ (d # Top => d.entry.cluster # ROOT)
<1> DEFINE s == Slots(v, d.entry.cluster)
<1>1. PICK u \in N : Above(N, d, u) /\ Neat(v, d, u.entry.cluster, R[d])
  BY DEF Laid, Orderly
<1> DEFINE r == R[d]
<1>2. /\ s \in Walks /\ DOMAIN s = 1 .. Len(s) /\ Spelled(r, Len(r), s)
      /\ Listed(v, s) = {i \in DOMAIN s : At(v, s[i]).kind = "entry"}
  BY <1>1, NeatListing
<1>3. NodesOf(v) = N
  BY LaidNodes
<1>4. r[1] = d.entry.cluster /\ (d # Top => r[1] # ROOT)
  BY <1>1 DEF Neat
<1> HIDE DEF s, r
<1>5. CASE d = Top
  <2>1. ASSUME NEW i \in DOMAIN s
        PROVE  ~IsDot(At(v, s[i]))
    <3>1. s[i] \in Spots(r)
      BY <1>2 DEF Spelled, Spots
    <3> QED
      BY <3>1, <1>1, <1>5 DEF Neat, r
  <2> QED
    BY <2>1, <1>5 DEF References, s
<1>6. CASE d # Top
  <2>1. s[1] = <<r[1], 1>> /\ s[2] = <<r[1], 2>> /\ 1 \in DOMAIN s /\ 2 \in DOMAIN s
    BY <1>2 DEF Spelled, Walks
  <2>2. /\ At(v, s[1]) = Entry(".", TRUE, d.entry.cluster, 0)
        /\ At(v, s[2]) = Entry("..", TRUE, u.entry.cluster, 0)
    BY <2>1, <1>1, <1>6 DEF Neat, r
  <2>3. 1 \in Listed(v, s) /\ 2 \in Listed(v, s)
    BY <2>1, <2>2, <1>2 DEF Entry
  <2>4. u \in NodesOf(v) /\ u.entry.dir /\ u.path = Front(d.path)
    BY <1>1, <1>3, <1>6 DEF Above, Dirs
  <2> QED
    BY <2>2, <2>3, <2>4, <1>4, <1>6 DEF References, s
<1> QED
  BY <1>5, <1>6

LEMMA LaidIsFormed ==
    ASSUME NEW v, Typed(v), NEW N, NEW R, Laid(v, N, R)
    PROVE  Formed(v)
<1>1. NodesOf(v) = N
  BY LaidNodes
<1>2. \A n, m \in N : n.path = m.path => n = m
  BY DEF Laid, PathsApart
<1>3. ASSUME NEW d \in N, d.entry.dir
      PROVE  /\ Within(v, d) \subseteq N
             /\ References(v, d, Slots(v, d.entry.cluster))
             /\ d # Top => d.entry.cluster # ROOT
  <2>1. d \in Dirs(N)
    BY <1>3 DEF Dirs
  <2> QED
    BY <2>1, LaidWithin, LaidReferences
<1> QED
  BY <1>1, <1>2, <1>3 DEF Formed

\* The whole of a sound volume: every node has its run, as long as its size says, and
\* the current directory is one of them.
Sized(N, R) == \A n \in N : ~n.entry.dir => Len(R[n]) = Needed(n.entry.size)
Stands(v, N) == \E n \in Dirs(N) : n.entry.cluster = v.cwd

Intact(v, N, R) == Laid(v, N, R) /\ DOMAIN R = N /\ Sized(N, R) /\ Stands(v, N)

\* The run of a node other than the root.
LEMMA RunOf ==
    ASSUME NEW v, NEW N, NEW R, Laid(v, N, R), NEW n \in DOMAIN R, n # Top
    PROVE  /\ Seg(v.table, R[n]) /\ v.table[R[n][Len(R[n])]] = EOF /\ R[n][1] = n.entry.cluster
           /\ n.entry.cluster \in Cluster
           /\ Clusters(v, n.entry.cluster) = Members(R[n])
<1>1. IsRun(v.table, R[n]) /\ R[n][1] = n.entry.cluster /\ R[n][1] # ROOT
  BY DEF Laid, RunsApart
<1>2. Seg(v.table, R[n]) /\ v.table[R[n][Len(R[n])]] = EOF
  BY <1>1, RunFields
<1>3. R[n][1] \in Cluster
  BY <1>2, SegFields
<1>4. Table!Chain(v.table, R[n][1]) = Members(R[n])
  BY <1>2, SegChain
<1> QED
  BY <1>1, <1>2, <1>3, <1>4 DEF Clusters

LEMMA RunOfTop ==
    ASSUME NEW v, NEW N, NEW R, Laid(v, N, R)
    PROVE  /\ Top \in DOMAIN R /\ R[Top] = <<ROOT>> /\ Members(R[Top]) = {ROOT}
           /\ Top.entry.cluster = ROOT
<1>1. Top \in DOMAIN R /\ IsRun(v.table, R[Top]) /\ R[Top][1] = Top.entry.cluster
  BY PathFacts DEF Laid, RunsApart
<1>2. Top.entry.cluster = ROOT
  BY DEF Top, RootEntry, Entry
<1>3. R[Top] = <<ROOT>>
  BY <1>1, <1>2, RunFields
<1>4. Len(<<ROOT>>) = 1 /\ <<ROOT>>[1] = ROOT
  OBVIOUS
<1>5. Members(R[Top]) = {ROOT}
  BY <1>3, <1>4 DEF Members
<1> QED
  BY <1>1, <1>2, <1>3, <1>5

LEMMA IntactIsSound ==
    ASSUME NEW v, Typed(v), NEW N, NEW R, Intact(v, N, R)
    PROVE  Sound(v, N) /\ Sound(v, NodesOf(v)) /\ Navigable(v) /\ NodesOf(v) = N
<1>1. Laid(v, N, R) /\ DOMAIN R = N /\ Sized(N, R) /\ Stands(v, N)
  BY DEF Intact
<1>2. NodesOf(v) = N /\ PathsApart(N) /\ RunsApart(v.table, N, R)
  BY <1>1, LaidNodes DEF Laid
<1> DEFINE parent(n) == (CHOOSE m \in N : m.path = Front(n.path)).entry.cluster
           listed == {n \in N : n.path # <<>>}
<1>3. \A n \in listed : n \in DOMAIN R /\ n # Top /\ n \in N
  BY <1>1, <1>2, PathFacts
<1>4. ASSUME NEW n \in listed
      PROVE  /\ n.entry.cluster \in Cluster
             /\ \A c \in Clusters(v, n.entry.cluster) : v.table[c] \in Cluster \cup {EOF}
             /\ Clusters(v, n.entry.cluster) = Members(R[n])
             /\ \E c \in Clusters(v, n.entry.cluster) : v.table[c] = EOF
             /\ ~n.entry.dir => Cardinality(Clusters(v, n.entry.cluster)) = Needed(n.entry.size)
  <2> DEFINE r == R[n]
  <2>1. /\ Seg(v.table, r) /\ v.table[r[Len(r)]] = EOF
        /\ n.entry.cluster \in Cluster /\ Clusters(v, n.entry.cluster) = Members(r)
    BY <1>1, <1>3, RunOf
  <2>2. Cardinality(Members(r)) = Len(r)
    BY <2>1, SegSize
  <2>3. ~n.entry.dir => Len(r) = Needed(n.entry.size)
    BY <1>1, <1>3 DEF Sized
  <2> HIDE DEF r
  <2>4. ASSUME NEW c \in Members(r)
        PROVE  v.table[c] \in Cluster \cup {EOF}
    <3>1. PICK k \in 1 .. Len(r) : c = r[k]
      BY DEF Members
    <3>2. Len(r) \in Nat /\ \A j \in 1 .. Len(r) : r[j] \in Cluster
      BY <2>1, SegFields
    <3>3. CASE k = Len(r)
      BY <3>1, <3>3, <2>1
    <3>4. CASE k # Len(r)
      <4>1. k \in 1 .. Len(r) - 1 /\ k + 1 \in 1 .. Len(r)
        BY <3>2, <3>4
      <4>2. v.table[r[k]] = r[k + 1]
        BY <4>1, <2>1 DEF Seg
      <4> QED
        BY <4>1, <4>2, <3>1, <3>2
    <3> QED
      BY <3>3, <3>4
  <2>5. r[Len(r)] \in Members(r)
    BY <2>1, SegFields
  <2>6. \E c \in Clusters(v, n.entry.cluster) : v.table[c] = EOF
    BY <2>1, <2>5
  <2> QED
    BY <2>1, <2>2, <2>3, <2>4, <2>6 DEF r
<1>5. ASSUME NEW n \in listed, NEW m \in listed, n # m
      PROVE  Clusters(v, n.entry.cluster) \cap Clusters(v, m.entry.cluster) = {}
  <2>1. Members(R[n]) \cap Members(R[m]) = {}
    BY <1>2, <1>3, <1>5 DEF RunsApart
  <2> QED
    BY <2>1, <1>4
<1>6. SoundChains(v, N)
  BY <1>4, <1>5 DEF SoundChains
<1>7. ASSUME NEW n \in N, n.entry.dir
      PROVE  /\ Within(v, n) \subseteq N
             /\ SoundDirectory(v, n, IF n.path = <<>> THEN ROOT ELSE parent(n))
  <2>1. n \in Dirs(N)
    BY <1>7 DEF Dirs
  <2>2. PICK u \in N : Above(N, n, u) /\ Neat(v, n, u.entry.cluster, R[n])
    BY <2>1, <1>1 DEF Laid, Orderly
  <2>3. n.path = <<>> <=> n = Top
    BY <1>2, PathFacts
  <2>4. u.entry.cluster = IF n.path = <<>> THEN ROOT ELSE parent(n)
    <3>1. CASE n = Top
      <4>1. u.entry.cluster = ROOT
        BY <3>1, <2>2 DEF Above, Top, RootEntry, Entry
      <4> QED
        BY <3>1, <4>1, <2>3
    <3>2. CASE n # Top
      <4>1. u.path = Front(n.path)
        BY <3>2, <2>2 DEF Above
      <4>2. \A m \in N : m.path = Front(n.path) => m = u
        BY <4>1, <1>2 DEF PathsApart
      <4>3. (CHOOSE m \in N : m.path = Front(n.path)) = u
        BY <4>1, <4>2
      <4>4. parent(n) = u.entry.cluster
        BY <4>3, Zenon
      <4> HIDE DEF parent
      <4> QED
        BY <4>4, <2>3, <3>2
    <3> QED
      BY <3>1, <3>2
  <2>5. SoundDirectory(v, n, u.entry.cluster)
    BY <2>2, <2>3, NeatIsSound
  <2> QED
    BY <2>1, <2>4, <2>5, <1>1, LaidWithin
<1>8. \E n \in N : n.entry.dir /\ n.entry.cluster = v.cwd
  BY <1>1 DEF Stands, Dirs
<1>9. Sound(v, N)
  BY <1>2, <1>6, <1>7, <1>8 DEF Sound, PathsApart
<1>10. Navigable(v)
  BY <1>1, <1>2, <1>8, LaidIsFormed DEF Navigable
<1> QED
  BY <1>2, <1>9, <1>10

------------------------------------------------------------------------
(* What files read as.                                                     *)

LEMMA Division ==
    ASSUME NEW a \in Nat, NEW b \in Nat, b > 0
    PROVE  /\ a \div b \in Nat /\ a % b \in Nat /\ a % b < b
           /\ a = (a \div b) * b + (a % b)
  BY SMT

LEMMA Quotient ==
    ASSUME NEW b \in Nat, b > 0, NEW k \in Nat, NEW o \in Nat, o < b
    PROVE  (k * b + o) \div b = k /\ (k * b + o) % b = o
<1> DEFINE a == k * b + o
           q == a \div b
           m == a % b
<1>1. a \in Nat /\ k * b \in Nat
  OBVIOUS
<1>2. q \in Nat /\ m \in Nat /\ m < b /\ a = q * b + m
  <2> HIDE DEF a
  <2> QED BY <1>1, Division
<1> HIDE DEF q, m
<1>3. (q < k => q + 1 <= k) /\ (k < q => k + 1 <= q)
  BY <1>2
<1>4. \A x, y \in Nat : x <= y => x * b <= y * b
  BY SMT
<1>5. (q + 1) * b = q * b + b /\ (k + 1) * b = k * b + b
  BY <1>2
<1>6. q * b \in Nat
  BY <1>2
<1>7. ~(q < k)
  <2>1. SUFFICES ASSUME q < k PROVE FALSE
    OBVIOUS
  <2>2. q + 1 \in Nat /\ (q + 1) * b <= k * b
    BY <2>1, <1>2, <1>3, <1>4
  <2> QED
    BY <2>2, <1>1, <1>2, <1>5, <1>6
<1>8. ~(k < q)
  <2>1. SUFFICES ASSUME k < q PROVE FALSE
    OBVIOUS
  <2>2. k + 1 \in Nat /\ (k + 1) * b <= q * b
    BY <2>1, <1>2, <1>3, <1>4
  <2> QED
    BY <2>2, <1>1, <1>2, <1>5, <1>6
<1>9. q = k
  BY <1>2, <1>7, <1>8
<1>10. m = o
  BY <1>1, <1>2, <1>9
<1> QED
  BY <1>9, <1>10 DEF q, m

\* Each piece lies in one of the sectors of a file, at one place.
LEMMA SectorOfPiece ==
    ASSUME NEW z \in Nat, NEW i \in 1 .. z
    PROVE  LET k == (i + ClusterSlots - 1) \div ClusterSlots
               o == ((i - 1) % ClusterSlots) + 1
           IN  /\ k \in 1 .. Sectors(z) /\ o \in 1 .. ClusterSlots
               /\ (k - 1) * ClusterSlots + o = i
<1> DEFINE n == ClusterSlots
           q == (i - 1) \div n
           m == (i - 1) % n
           y == (z - 1) \div n
           l == (z - 1) % n
<1>1. n \in Nat /\ n > 0 /\ i - 1 \in Nat /\ z - 1 \in Nat /\ i - 1 <= z - 1
  BY Numbers
<1> HIDE DEF n
<1>2. q \in Nat /\ m \in Nat /\ m < n /\ i - 1 = q * n + m
  BY <1>1, Division
<1>3. y \in Nat /\ l \in Nat /\ l < n /\ z - 1 = y * n + l
  BY <1>1, Division
<1> HIDE DEF q, m, y, l
<1>4. q * n \in Nat /\ y * n \in Nat /\ (q + 1) * n = q * n + n /\ (y + 1) * n = y * n + n
  BY <1>1, <1>2, <1>3
<1>5. i + n - 1 = (q + 1) * n + m /\ z + n - 1 = (y + 1) * n + l
  BY <1>1, <1>2, <1>3, <1>4
<1> DEFINE q1 == q + 1
           y1 == y + 1
<1>6. q1 \in Nat /\ y1 \in Nat
  BY <1>2, <1>3
<1> HIDE DEF q1, y1
<1>7. (i + n - 1) \div n = q1 /\ (z + n - 1) \div n = y1
  <2>1. (q1 * n + m) \div n = q1
    BY <1>1, <1>2, <1>6, Quotient
  <2>2. (y1 * n + l) \div n = y1
    BY <1>1, <1>3, <1>6, Quotient
  <2> QED
    BY <2>1, <2>2, <1>5 DEF q1, y1
<1>8. q <= y
  <2>1. SUFFICES ASSUME q > y PROVE FALSE
    BY <1>2, <1>3
  <2>2. y + 1 <= q
    BY <2>1, <1>2, <1>3
  <2>3. \A a, b \in Nat : a <= b => a * n <= b * n
    BY <1>1, SMT
  <2>4. (y + 1) * n <= q * n
    BY <2>2, <2>3, <1>2, <1>6 DEF y1
  <2> QED
    BY <2>4, <1>1, <1>2, <1>3, <1>4
<1>9. (q1 - 1) * n + (m + 1) = i
  <2>1. q1 - 1 = q
    BY <1>2 DEF q1
  <2> QED
    BY <2>1, <1>1, <1>2, <1>4
<1>10. q1 \in 1 .. y1 /\ m + 1 \in 1 .. n
  BY <1>1, <1>2, <1>3, <1>8 DEF q1, y1
<1>11. Sectors(z) = y1 /\ (i + ClusterSlots - 1) \div ClusterSlots = q1
       /\ ((i - 1) % ClusterSlots) + 1 = m + 1
  BY <1>7 DEF Sectors, n, m
<1> QED
  BY <1>9, <1>10, <1>11 DEF n

\* The clusters of a file are read in order.
LEMMA ReadingIs ==
    ASSUME NEW v, NEW r, Seg(v.table, r), NEW z \in Nat, Sectors(z) <= Len(r)
    PROVE  Reading(v, r[1], z) = [k \in 1 .. Sectors(z) |-> r[k]]
<1> DEFINE n == Sectors(z)
           c == r[1]
           Solves(w) == w = [k \in 1 .. n |-> IF k = 1 THEN c ELSE NextForReading(v, w[k - 1])]
           g == [k \in 1 .. n |-> r[k]]
           W == Reading(v, c, z)
<1>1. n \in Nat /\ n <= Len(r) /\ Len(r) \in Nat
  BY SectorsIs, SegFields
<1>2. ASSUME NEW k \in 1 .. n, k # 1
      PROVE  NextForReading(v, r[k - 1]) = r[k] /\ k - 1 \in 1 .. n
  <2>1. k - 1 \in 1 .. n /\ k - 1 \in 1 .. Len(r) - 1 /\ k - 1 \in 1 .. Len(r) /\ (k - 1) + 1 = k
        /\ k \in 1 .. Len(r)
    BY <1>1, <1>2
  <2>2. v.table[r[k - 1]] = r[k] /\ r[k - 1] \in Cluster /\ r[k] \in Cluster
    BY <2>1, SegFields DEF Seg
  <2>3. \A d \in Cluster : d # EOF /\ d # FREE
    BY Numbers
  <2> QED
    BY <2>1, <2>2, <2>3 DEF NextForReading
<1>3. Solves(g)
  <2>1. ASSUME NEW k \in 1 .. n
        PROVE  g[k] = IF k = 1 THEN c ELSE NextForReading(v, g[k - 1])
    BY <1>2
  <2> HIDE DEF n, c
  <2> QED
    BY <2>1
<1>4. W = CHOOSE w : Solves(w)
  BY DEF Reading, Pieces
<1>5. Solves(W)
  <2> HIDE DEF Solves, W
  <2> QED BY <1>3, <1>4
<1>6. DOMAIN W = 1 .. n /\ \A k \in 1 .. n : W[k] = IF k = 1 THEN c ELSE NextForReading(v, W[k - 1])
  <2> HIDE DEF W, n
  <2> QED BY <1>5
<1>7. W = [k \in 1 .. n |-> IF k = 1 THEN c ELSE NextForReading(v, W[k - 1])]
  <2> HIDE DEF W, n
  <2> QED BY <1>5
<1> HIDE DEF W
<1> DEFINE T == {k \in Nat : k \in 1 .. n => W[k] = r[k]}
<1>8. 1 \in T
  BY <1>6
<1>9. ASSUME NEW k \in 1 + 1 .. n, k - 1 \in T
      PROVE  k \in T
  <2>1. k \in 1 .. n /\ k # 1 /\ k - 1 \in 1 .. n /\ k \in Nat
    BY <1>1
  <2>2. W[k - 1] = r[k - 1]
    BY <1>9, <2>1
  <2>3. W[k] = r[k]
    BY <2>1, <2>2, <1>2, <1>6
  <2> QED
    BY <2>1, <2>3
<1>10. 1 .. n \subseteq T
  <2> HIDE DEF T, n
  <2> QED BY <1>1, <1>8, <1>9, UpTo
<1>11. \A k \in 1 .. n : W[k] = r[k]
  BY <1>10
<1>12. W = g
  <2> HIDE DEF n, c
  <2> QED BY <1>7, <1>11
<1> QED
  BY <1>12 DEF W

\* The piece i of what lies in the clusters r.
PieceIn(v, r, i) ==
    v.cells[r[(i + ClusterSlots - 1) \div ClusterSlots]][((i - 1) % ClusterSlots) + 1]

LEMMA FileReadIs ==
    ASSUME NEW v, NEW r, Seg(v.table, r), NEW z \in Nat, Sectors(z) <= Len(r)
    PROVE  FileRead(v, r[1], z) = [ok |-> TRUE, data |-> [i \in 1 .. z |-> PieceIn(v, r, i)]]
<1> DEFINE n == Sectors(z)
           g == [k \in 1 .. n |-> r[k]]
<1>1. Reading(v, r[1], z) = g
  BY ReadingIs
<1>2. n \in Nat /\ n <= Len(r) /\ Len(r) \in Nat /\ \A k \in 1 .. Len(r) : r[k] \in Cluster
  BY SectorsIs, SegFields
<1>3. \A k \in 1 .. n : g[k] = r[k] /\ r[k] \in Cluster
  BY <1>2
<1>4. EOF \notin Range(g)
  <2>1. EOF \notin Cluster
    BY Numbers
  <2>2. DOMAIN g = 1 .. n
    OBVIOUS
  <2> HIDE DEF g, n
  <2> QED
    BY <2>1, <2>2, <1>3 DEF Range
<1>5. ASSUME NEW i \in 1 .. z
      PROVE  PieceRead(v, g, i) = PieceIn(v, r, i)
  <2> DEFINE k == (i + ClusterSlots - 1) \div ClusterSlots
  <2>1. k \in 1 .. n
    BY SectorOfPiece
  <2>2. g[k] = r[k] /\ Area(r[k]) = r[k]
    <3> HIDE DEF k, g
    <3> QED BY <2>1, <1>3, Numbers DEF Area
  <2> HIDE DEF g, n
  <2> QED
    BY <2>2 DEF PieceRead, PieceIn
<1>6. FileRead(v, r[1], z) = ReadAlong(v, g, z)
  BY <1>1 DEF FileRead
<1> HIDE DEF g, n
<1> QED
  BY <1>4, <1>5, <1>6 DEF ReadAlong, Pieces

\* Where the clusters of a file are as they were, it reads as it did.
LEMMA ReadsSame ==
    ASSUME NEW v, NEW w, NEW n \in NodeSet, NEW r, Seg(v.table, r), Seg(w.table, r),
           r[1] = n.entry.cluster, Sectors(n.entry.size) <= Len(r),
           \A c \in Members(r) : w.cells[c] = v.cells[c]
    PROVE  ReadsAs(w, n) = ReadsAs(v, n)
<1> DEFINE z == n.entry.size
<1>1. z \in Nat
  BY NodeFields
<1>2. FileRead(v, r[1], z) = [ok |-> TRUE, data |-> [i \in 1 .. z |-> PieceIn(v, r, i)]]
  BY <1>1, FileReadIs
<1>3. FileRead(w, r[1], z) = [ok |-> TRUE, data |-> [i \in 1 .. z |-> PieceIn(w, r, i)]]
  BY <1>1, FileReadIs
<1>4. ASSUME NEW i \in 1 .. z
      PROVE  PieceIn(w, r, i) = PieceIn(v, r, i)
  <2> DEFINE k == (i + ClusterSlots - 1) \div ClusterSlots
  <2>1. k \in 1 .. Sectors(z)
    BY <1>1, SectorOfPiece
  <2>2. Sectors(z) \in Nat /\ Len(r) \in Nat
    BY <1>1, SectorsIs, SegFields
  <2>3. k \in 1 .. Len(r)
    <3> HIDE DEF k
    <3> QED BY <2>1, <2>2
  <2>4. r[k] \in Members(r)
    BY <2>3, SegFields
  <2> QED
    BY <2>4 DEF PieceIn
<1>5. [i \in 1 .. z |-> PieceIn(w, r, i)] = [i \in 1 .. z |-> PieceIn(v, r, i)]
  BY <1>4
<1>6. FileRead(w, r[1], z) = FileRead(v, r[1], z)
  BY <1>2, <1>3, <1>5
<1> QED
  BY <1>6 DEF ReadsAs

LEMMA NeededIs ==
    ASSUME NEW z \in Nat
    PROVE  /\ Needed(z) \in Nat /\ Needed(z) >= 1 /\ Sectors(z) <= Needed(z)
           /\ z >= 1 => Needed(z) = Sectors(z)
<1> DEFINE S == {1, Sectors(z)}
<1>1. Sectors(z) \in Nat /\ (z >= 1 => Sectors(z) >= 1)
  BY SectorsIs
<1>2. PICK m \in S : \A y \in S : m >= y
  <2>1. CASE Sectors(z) >= 1
    BY <2>1, <1>1
  <2>2. CASE ~(Sectors(z) >= 1)
    BY <2>2, <1>1
  <2> QED
    BY <2>1, <2>2
<1>3. Max(S) = m
  <2>1. \A y \in S : (\A x \in S : y >= x) => y = m
    BY <1>1, <1>2
  <2>2. Max(S) = CHOOSE x \in S : \A y \in S : x >= y
    BY DEF Max
  <2> HIDE DEF S
  <2> QED
    BY <2>1, <2>2, <1>2
<1>4. Needed(z) = m
  BY <1>3 DEF Needed
<1> QED
  BY <1>1, <1>2, <1>4

\* The tree is the one a function on the nodes gives.
Shows(v, n) == IF n.entry.dir THEN "dir" ELSE ReadsAs(v, n)

LEMMA TreeOfNodes ==
    ASSUME NEW v, NEW N, PathsApart(N)
    PROVE  /\ DOMAIN TreeOf(v, N) = {n.path : n \in N}
           /\ \A n \in N : TreeOf(v, N)[n.path] = Shows(v, n)
           /\ TreeOf(v, N) = [p \in {n.path : n \in N} |-> TreeOf(v, N)[p]]
<1>1. TreeOf(v, N) = [p \in {n.path : n \in N} |-> Shows(v, CHOOSE n \in N : n.path = p)]
  BY DEF TreeOf, Shows
<1>2. ASSUME NEW n \in N
      PROVE  TreeOf(v, N)[n.path] = Shows(v, n)
  <2>1. (CHOOSE m \in N : m.path = n.path) = n
    BY DEF PathsApart
  <2>2. TreeOf(v, N)[n.path] = Shows(v, CHOOSE m \in N : m.path = n.path)
    BY <1>1
  <2> QED
    BY <2>1, <2>2
<1>3. DOMAIN TreeOf(v, N) = {n.path : n \in N}
  BY <1>1
<1>4. TreeOf(v, N) = [p \in {n.path : n \in N} |-> TreeOf(v, N)[p]]
  BY <1>1
<1> QED
  BY <1>2, <1>3, <1>4

------------------------------------------------------------------------
(* What a change elsewhere leaves as it is.                                *)

LEMMA RunSame ==
    ASSUME NEW t, NEW u, NEW r, IsRun(t, r), \A c \in Members(r) : u[c] = t[c]
    PROVE  IsRun(u, r)
<1>1. CASE r = <<ROOT>>
  BY <1>1 DEF IsRun
<1>2. CASE Seg(t, r) /\ t[r[Len(r)]] = EOF
  <2>1. /\ Len(r) \in Nat /\ Len(r) \in 1 .. Len(r)
        /\ \A k \in 1 .. Len(r) : r[k] \in Members(r)
    BY <1>2, SegFields
  <2>2. \A k \in 1 .. Len(r) - 1 : k \in 1 .. Len(r)
    BY <2>1
  <2>3. \A k \in 1 .. Len(r) : u[r[k]] = t[r[k]]
    BY <2>1
  <2>4. Seg(u, r)
    BY <1>2, <2>1, <2>2, <2>3 DEF Seg
  <2>5. u[r[Len(r)]] = EOF
    BY <1>2, <2>1, <2>3
  <2> QED
    BY <2>4, <2>5 DEF IsRun
<1> QED
  BY <1>1, <1>2 DEF IsRun

\* Nothing that ends the directory is before the slot p.
Unmarked(v, r, p) == \A q \in Spots(r) : Before(r, q, p) => At(v, q) # EndMark

\* The directory has one entry more or less.
Retouched(v, w, d, up, r, p) ==
    /\ Neat(w, d, up, r)
    /\ NamedSpots(w, r) = (NamedSpots(v, r) \ {p}) \cup {q \in {p} : At(w, p).kind = "entry"}

\* Nothing but the slot p of the directory d may differ.
LEMMA PutInDir ==
    ASSUME NEW v, NEW w, NEW d, NEW up, NEW r, Neat(v, d, up, r),
           \A c \in Members(r) : w.table[c] = v.table[c],
           NEW p \in Spots(r), \A q \in Spots(r) : q # p => At(w, q) = At(v, q),
           ~IsDot(At(v, p)), Unmarked(v, r, p),
           At(w, p).kind # "data", At(w, p) # EndMark, ~IsDot(At(w, p))
    PROVE  Retouched(v, w, d, up, r, p)
<1>1. IsRun(v.table, r) /\ IsRun(w.table, r)
  BY RunSame DEF Neat
<1>2. <<r[1], 1>> \in Spots(r) /\ <<r[1], 2>> \in Spots(r)
  BY <1>1, FirstSpots
<1>3. r[1] = d.entry.cluster /\ (d # Top => r[1] # ROOT)
  BY DEF Neat
<1>4. \A q \in Spots(r) : At(w, q).kind # "data"
  BY DEF Neat
<1>5. \A q \in Spots(r) : IsDot(At(w, q)) => d # Top /\ q \in {<<r[1], 1>>, <<r[1], 2>>}
  BY DEF Neat
<1>6. d # Top => /\ At(w, <<r[1], 1>>) = Entry(".", TRUE, d.entry.cluster, 0)
                 /\ At(w, <<r[1], 2>>) = Entry("..", TRUE, up, 0)
  <2>1. SUFFICES ASSUME d # Top
                 PROVE  p # <<r[1], 1>> /\ p # <<r[1], 2>>
    BY <1>2 DEF Neat
  <2>2. IsDot(At(v, <<r[1], 1>>)) /\ IsDot(At(v, <<r[1], 2>>))
    BY <2>1 DEF Neat, IsDot, Entry
  <2> QED
    BY <2>2
<1>7. ASSUME NEW q \in Spots(r), NEW q2 \in Spots(r), Before(r, q, q2), At(w, q) = EndMark
      PROVE  At(w, q2) = EndMark
  <2>1. q # p /\ At(v, q) = EndMark
    BY <1>7
  <2>2. q2 # p
    BY <1>7, <2>1 DEF Unmarked
  <2>3. At(v, q2) = EndMark
    BY <2>1, <1>7 DEF Neat
  <2> QED
    BY <2>2, <2>3
<1>8. Neat(w, d, up, r)
  BY <1>1, <1>3, <1>4, <1>5, <1>6, <1>7 DEF Neat
<1>9. NamedSpots(w, r) = (NamedSpots(v, r) \ {p}) \cup {q \in {p} : At(w, p).kind = "entry"}
  BY DEF NamedSpots, EntrySpots
<1> QED
  BY <1>8, <1>9 DEF Retouched

LEMMA NeatSame ==
    ASSUME NEW v, NEW w, NEW d, NEW up, NEW r, Neat(v, d, up, r),
           \A c \in Members(r) : w.table[c] = v.table[c],
           \A q \in Spots(r) : At(w, q) = At(v, q)
    PROVE  /\ Neat(w, d, up, r)
           /\ NamedSpots(w, r) = NamedSpots(v, r)
<1>1. IsRun(v.table, r) /\ IsRun(w.table, r)
  BY RunSame DEF Neat
<1>2. <<r[1], 1>> \in Spots(r) /\ <<r[1], 2>> \in Spots(r)
  BY <1>1, FirstSpots
<1>3. Neat(w, d, up, r)
  BY <1>1, <1>2 DEF Neat
<1>4. NamedSpots(w, r) = NamedSpots(v, r)
  BY DEF NamedSpots, EntrySpots
<1> QED
  BY <1>3, <1>4

\* The areas A are as they were.
Same(v, w, A) == \A a \in A : w.cells[a] = v.cells[a] /\ w.table[a] = v.table[a]

LEMMA SameSpots ==
    ASSUME NEW v, NEW w, NEW r, Same(v, w, Members(r))
    PROVE  /\ \A q \in Spots(r) : At(w, q) = At(v, q)
           /\ \A c \in Members(r) : w.table[c] = v.table[c]
  BY SpotArea DEF Same, At

LEMMA OrderlySame ==
    ASSUME NEW v, NEW w, NEW N, NEW R, NEW d, Orderly(v, N, R, d),
           \A c \in Members(R[d]) : w.table[c] = v.table[c],
           \A q \in Spots(R[d]) : At(w, q) = At(v, q)
    PROVE  Orderly(w, N, R, d) /\ NamedSpots(w, R[d]) = NamedSpots(v, R[d])
<1>1. PICK u \in N : Above(N, d, u) /\ Neat(v, d, u.entry.cluster, R[d])
  BY DEF Orderly
<1>2. Neat(w, d, u.entry.cluster, R[d]) /\ NamedSpots(w, R[d]) = NamedSpots(v, R[d])
  BY <1>1, NeatSame
<1>3. ASSUME NEW p \in NamedSpots(w, R[d])
      PROVE  NodeAt(w, d, p) \in N
  <2>1. p \in Spots(R[d]) /\ p \in NamedSpots(v, R[d])
    BY <1>2 DEF NamedSpots, EntrySpots
  <2>2. NodeAt(w, d, p) = NodeAt(v, d, p)
    BY <2>1 DEF NodeAt
  <2> QED
    BY <2>1, <2>2 DEF Orderly
<1> QED
  BY <1>1, <1>2, <1>3 DEF Orderly

LEMMA HeldAre ==
    ASSUME NEW R, NEW n \in DOMAIN R
    PROVE  Members(R[n]) \subseteq Held(R)
  BY DEF Held

LEMMA RunsSame ==
    ASSUME NEW t, NEW u, NEW N, NEW R, RunsApart(t, N, R), \A a \in Held(R) : u[a] = t[a]
    PROVE  RunsApart(u, N, R)
<1>1. ASSUME NEW n \in DOMAIN R
      PROVE  IsRun(u, R[n])
  <2>1. \A c \in Members(R[n]) : u[c] = t[c]
    BY HeldAre
  <2> QED
    BY <2>1, RunSame DEF RunsApart
<1> QED
  BY <1>1 DEF RunsApart

LEMMA Frame ==
    ASSUME NEW v, NEW w, NEW N, NEW R, Laid(v, N, R), Same(v, w, Held(R))
    PROVE  Laid(w, N, R)
<1>1. PathsApart(N) /\ RunsApart(v.table, N, R)
  BY DEF Laid
<1>2. RunsApart(w.table, N, R)
  BY <1>1, RunsSame DEF Same
<1>3. ASSUME NEW d \in Dirs(N)
      PROVE  /\ Orderly(w, N, R, d) /\ NamedSpots(w, R[d]) = NamedSpots(v, R[d])
             /\ \A q \in Spots(R[d]) : At(w, q) = At(v, q)
  <2>1. d \in DOMAIN R /\ Orderly(v, N, R, d)
    BY <1>1 DEF Laid, RunsApart
  <2>2. Same(v, w, Members(R[d]))
    BY <2>1, HeldAre DEF Same
  <2> QED
    BY <2>1, <2>2, SameSpots, OrderlySame
<1>4. ASSUME NEW n \in N, n # Top
      PROVE  \E d \in Dirs(N) : LiesIn(w, R, n, d)
  <2>1. PICK d \in Dirs(N) : LiesIn(v, R, n, d)
    BY <1>4 DEF Laid
  <2>2. n.pos \in Spots(R[d]) /\ n.pos \in NamedSpots(v, R[d]) /\ n = NodeAt(v, d, n.pos)
    BY <2>1 DEF LiesIn, NamedSpots, EntrySpots
  <2>3. LiesIn(w, R, n, d)
    BY <2>2, <1>3 DEF LiesIn, NodeAt
  <2> QED
    BY <2>3
<1> QED
  BY <1>1, <1>2, <1>3, <1>4 DEF Laid

\* Files that are as they were read as they did.
LEMMA FilesSame ==
    ASSUME NEW v, NEW w, NEW N, NEW R, Laid(v, N, R), NEW n \in DOMAIN R, ~n.entry.dir,
           Len(R[n]) = Needed(n.entry.size), Same(v, w, Members(R[n]))
    PROVE  ReadsAs(w, n) = ReadsAs(v, n)
<1> DEFINE r == R[n]
<1>1. PathsApart(N) /\ RunsApart(v.table, N, R)
  BY DEF Laid
<1>2. n \in N /\ n \in NodeSet
  BY <1>1, PathFacts DEF RunsApart
<1>3. n # Top
  BY DEF Top, RootEntry, Entry
<1>4. Seg(v.table, r) /\ r[1] = n.entry.cluster /\ r[1] # ROOT
  BY <1>1, <1>3, RunOf DEF RunsApart
<1>5. Seg(w.table, r)
  <2>1. IsRun(v.table, r)
    BY <1>1 DEF RunsApart
  <2>2. IsRun(w.table, r)
    BY <2>1, RunSame DEF Same
  <2> QED
    BY <2>2, <1>4, RunFields
<1>6. Sectors(n.entry.size) <= Len(r)
  BY <1>2, NodeFields, NeededIs
<1> HIDE DEF r
<1> QED
  BY <1>2, <1>4, <1>5, <1>6, ReadsSame DEF Same, r

LEMMA TreeSame ==
    ASSUME NEW v, NEW w, NEW N, NEW R, Laid(v, N, R), DOMAIN R = N, Sized(N, R),
           Same(v, w, Held(R))
    PROVE  TreeOf(w, N) = TreeOf(v, N)
<1>1. PathsApart(N)
  BY DEF Laid
<1>2. ASSUME NEW n \in N
      PROVE  Shows(w, n) = Shows(v, n)
  <2>1. CASE n.entry.dir
    BY <2>1 DEF Shows
  <2>2. CASE ~n.entry.dir
    <3>1. Same(v, w, Members(R[n]))
      BY HeldAre DEF Same
    <3>2. ReadsAs(w, n) = ReadsAs(v, n)
      BY <3>1, <2>2, FilesSame DEF Sized
    <3> QED
      BY <3>2, <2>2 DEF Shows
  <2> QED
    BY <2>1, <2>2
<1>3. /\ TreeOf(w, N) = [p \in {n.path : n \in N} |-> Shows(w, CHOOSE n \in N : n.path = p)]
      /\ TreeOf(v, N) = [p \in {n.path : n \in N} |-> Shows(v, CHOOSE n \in N : n.path = p)]
  BY DEF TreeOf, Shows
<1>4. ASSUME NEW p \in {n.path : n \in N}
      PROVE  (CHOOSE n \in N : n.path = p) \in N
  OBVIOUS
<1>5. ASSUME NEW p \in {n.path : n \in N}
      PROVE  Shows(w, CHOOSE n \in N : n.path = p) = Shows(v, CHOOSE n \in N : n.path = p)
  BY <1>2, <1>4
<1>6. [p \in {n.path : n \in N} |-> Shows(w, CHOOSE n \in N : n.path = p)]
        = [p \in {n.path : n \in N} |-> Shows(v, CHOOSE n \in N : n.path = p)]
  BY <1>5
<1> QED
  BY <1>3, <1>6

LEMMA FrameIntact ==
    ASSUME NEW v, NEW w, NEW N, NEW R, Intact(v, N, R), Same(v, w, Held(R)), w.cwd = v.cwd
    PROVE  Intact(w, N, R) /\ TreeOf(w, N) = TreeOf(v, N)
<1>1. Laid(v, N, R) /\ DOMAIN R = N /\ Sized(N, R) /\ Stands(v, N)
  BY DEF Intact
<1>2. Laid(w, N, R)
  BY <1>1, Frame
<1>3. TreeOf(w, N) = TreeOf(v, N)
  BY <1>1, TreeSame
<1>4. Stands(w, N)
  BY <1>1 DEF Stands
<1> QED
  BY <1>1, <1>2, <1>3, <1>4 DEF Intact

------------------------------------------------------------------------
(* An entry is added.                                                      *)

\* In the areas A nothing but the slot p may have changed.
SameBut(v, w, A, p) ==
    /\ \A a \in A : w.table[a] = v.table[a]
    /\ \A a \in A : a # p[1] => w.cells[a] = v.cells[a]
    /\ \A q \in Position : q[1] = p[1] /\ q # p => At(w, q) = At(v, q)

LEMMA SpotsSameBut ==
    ASSUME NEW v, NEW w, NEW A, NEW p, SameBut(v, w, A, p), NEW r, Members(r) \subseteq A
    PROVE  /\ \A q \in Spots(r) : q # p => At(w, q) = At(v, q)
           /\ \A c \in Members(r) : w.table[c] = v.table[c]
           /\ p[1] \notin Members(r) => Same(v, w, Members(r)) /\ \A q \in Spots(r) : At(w, q) = At(v, q)
<1>1. ASSUME NEW q \in Spots(r), q # p
      PROVE  At(w, q) = At(v, q)
  <2>1. q \in Position /\ q[1] \in A
    BY SpotArea
  <2> QED
    BY <2>1, <1>1 DEF SameBut, At
<1>2. \A c \in Members(r) : w.table[c] = v.table[c]
  BY DEF SameBut
<1>3. ASSUME p[1] \notin Members(r)
      PROVE  Same(v, w, Members(r)) /\ \A q \in Spots(r) : q # p
  BY <1>3, SpotArea DEF SameBut, Same
<1> QED
  BY <1>1, <1>2, <1>3

\* A name that the directory does not have, and a slot that can take it.
RoomFor(v, N, R, D, p, e) ==
    /\ D \in Dirs(N) /\ p \in Spots(R[D]) /\ At(v, p) \in {EndMark, Free} /\ Unmarked(v, R[D], p)
    /\ e \in EntrySlot /\ e.name \in Names
    /\ \A q \in NamedSpots(v, R[D]) : At(v, q).name # e.name

NewNode(D, p, e) == [path |-> Append(D.path, e.name), pos |-> p, entry |-> e]

Extends(Q, R, y) ==
    /\ DOMAIN R \subseteq DOMAIN Q /\ DOMAIN Q \subseteq DOMAIN R \cup {y}
    /\ \A n \in DOMAIN R : Q[n] = R[n]

\* What belongs to the new node: a directory is empty, a file may have no run yet.
Fresh(w, R, Q, D, y) ==
    /\ y \in DOMAIN Q => /\ IsRun(w.table, Q[y]) /\ Q[y][1] = y.entry.cluster /\ Q[y][1] # ROOT
                         /\ Members(Q[y]) \cap Held(R) = {}
    /\ y.entry.dir => /\ y \in DOMAIN Q /\ Neat(w, y, D.entry.cluster, Q[y])
                      /\ NamedSpots(w, Q[y]) = {}

LEMMA NamesAreNotDots ==
    ASSUME NEW e, e.name \in Names
    PROVE  ~IsDot(e)
  BY SlotsAssumption DEF IsDot

\* The runs of directories.
LEMMA RunOfDir ==
    ASSUME NEW v, NEW N, NEW R, Laid(v, N, R), NEW d \in Dirs(N)
    PROVE  /\ d \in DOMAIN R /\ d \in N /\ d.entry.dir /\ IsRun(v.table, R[d])
           /\ Members(R[d]) \subseteq Held(R) /\ R[d][1] = d.entry.cluster
<1>1. d \in DOMAIN R /\ d \in N /\ d.entry.dir
  BY DEF Laid, RunsApart, Dirs
<1> QED
  BY <1>1, HeldAre DEF Laid, RunsApart

\* A slot of one run is none of another.
LEMMA SpotIsInOne ==
    ASSUME NEW v, NEW N, NEW R, Laid(v, N, R), NEW n \in DOMAIN R, NEW m \in DOMAIN R, n # m,
           NEW p \in Spots(R[n])
    PROVE  p[1] \in Members(R[n]) /\ p[1] \notin Members(R[m])
  BY SpotArea DEF Laid, RunsApart

LEMMA FrontOfAppend ==
    ASSUME NEW s \in Seq(Names), NEW x \in Names
    PROVE  /\ Front(Append(s, x)) = s /\ Append(s, x) # <<>> /\ Append(s, x) \in Seq(Names)
           /\ Append(s, x)[Len(s) + 1] = x
<1>1. Len(Append(s, x)) = Len(s) + 1 /\ Len(s) \in Nat /\ Append(s, x) \in Seq(Names)
      /\ Append(s, x)[Len(s) + 1] = x
      /\ \A i \in 1 .. Len(s) : Append(s, x)[i] = s[i]
  OBVIOUS
<1>2. Front(Append(s, x)) = s /\ Append(s, x) # <<>>
  BY <1>1 DEF Front
<1> QED
  BY <1>1, <1>2

LEMMA NewNodeIs ==
    ASSUME NEW v, NEW N, NEW R, Laid(v, N, R), NEW D, NEW p, NEW e, RoomFor(v, N, R, D, p, e)
    PROVE  LET y == NewNode(D, p, e)
           IN  /\ y \in NodeSet /\ y.path # <<>> /\ Front(y.path) = D.path /\ y # Top
               /\ \A n \in N : n.path # y.path
<1> DEFINE y == NewNode(D, p, e)
           s == D.path
           x == e.name
<1>1. D \in N /\ D \in NodeSet /\ PathsApart(N)
  BY PathFacts DEF Laid, RoomFor
<1>2. s \in Seq(Names) /\ x \in Names
  BY <1>1, NodeFields DEF RoomFor
<1>3. Len(Append(s, x)) = Len(s) + 1 /\ Len(s) \in Nat /\ Append(s, x) \in Seq(Names)
      /\ Append(s, x)[Len(s) + 1] = x
      /\ \A i \in 1 .. Len(s) : Append(s, x)[i] = s[i]
  BY <1>2
<1>4. Front(Append(s, x)) = s /\ Append(s, x) # <<>>
  <2> HIDE DEF s, x
  <2> QED BY <1>2, FrontOfAppend
<1>5. p \in Areas \X Nat
  BY SpotArea DEF RoomFor, Position
<1>6. y \in NodeSet
  BY <1>3, <1>5 DEF NodeSet, NewNode, RoomFor
<1>7. y.path = Append(s, x)
  BY DEF NewNode
<1>8. ASSUME NEW n \in N, n.path = y.path
      PROVE  FALSE
  <2>1. n # Top
    BY <1>4, <1>7, <1>8, <1>1, PathFacts
  <2>2. PICK d \in Dirs(N) : LiesIn(v, R, n, d)
    BY <2>1 DEF Laid
  <2>3. d \in N
    BY DEF Dirs
  <2>4. n.path = Append(d.path, n.entry.name) /\ Front(n.path) = d.path /\ n.entry = At(v, n.pos)
    <3>1. ChildOf(v, R, n, d)
      BY <1>1, <2>2, <2>3, LiesInFacts
    <3> QED
      BY <3>1 DEF ChildOf
  <2>5. d = D
    BY <2>3, <2>4, <1>1, <1>4, <1>7, <1>8 DEF PathsApart
  <2>6. Append(s, n.entry.name) = Append(s, x)
    BY <2>4, <2>5, <1>7, <1>8
  <2>7. Append(s, n.entry.name)[Len(s) + 1] = n.entry.name
    BY <1>2
  <2>8. n.entry.name = x
    BY <2>6, <2>7, <1>3
  <2>9. n.pos \in NamedSpots(v, R[D])
    BY <2>2, <2>5 DEF LiesIn
  <2> QED
    BY <2>4, <2>8, <2>9 DEF RoomFor
<1>9. y # Top
  BY <1>4, <1>7 DEF Top
<1> QED
  BY <1>4, <1>6, <1>7, <1>8, <1>9

LEMMA AddNode ==
    ASSUME NEW v, NEW w, NEW N, NEW R, Laid(v, N, R), NEW D, NEW p, NEW e, RoomFor(v, N, R, D, p, e),
           SameBut(v, w, Held(R), p), At(w, p) = e,
           NEW Q, Extends(Q, R, NewNode(D, p, e)), Fresh(w, R, Q, D, NewNode(D, p, e))
    PROVE  Laid(w, N \cup {NewNode(D, p, e)}, Q)
<1> DEFINE y == NewNode(D, p, e)
           M == N \cup {y}
<1>1. PathsApart(N) /\ RunsApart(v.table, N, R)
  BY DEF Laid
<1>2. y \in NodeSet /\ y.path # <<>> /\ Front(y.path) = D.path /\ y # Top /\ \A n \in N : n.path # y.path
  BY NewNodeIs
<1>3. PathsApart(M) /\ y \notin N
  BY <1>1, <1>2 DEF PathsApart
<1>4. D \in Dirs(N) /\ D \in DOMAIN R /\ D \in N /\ D.entry.dir /\ p \in Spots(R[D]) /\ p[1] \in Members(R[D])
  BY RunOfDir, SpotArea DEF RoomFor
<1>5. y.pos = p /\ y.entry = e /\ y.path = Append(D.path, e.name)
  BY DEF NewNode
<1> HIDE DEF y
<1>6. \A d \in Dirs(N) : d \in Dirs(M) /\ d # y
  BY <1>3 DEF Dirs
<1>7. \A d \in Dirs(M) : d \in Dirs(N) \/ (d = y /\ y.entry.dir)
  BY DEF Dirs
<1>8. \A n \in DOMAIN R : n \in N /\ n # y /\ Q[n] = R[n] /\ n \in DOMAIN Q
  BY <1>1, <1>3 DEF RunsApart, Extends, y
<1>9. \A n \in DOMAIN Q : n \in DOMAIN R \/ n = y
  BY DEF Extends, y
<1>10. RunsApart(w.table, M, Q)
  <2>1. RunsApart(w.table, N, R)
    BY <1>1, RunsSame DEF SameBut
  <2>2. Dirs(M) \subseteq DOMAIN Q
    BY <1>7, <1>8, <2>1 DEF RunsApart, Fresh, y
  <2>3. DOMAIN Q \subseteq M
    BY <1>8, <1>9
  <2>4. ASSUME NEW n \in DOMAIN Q
        PROVE  IsRun(w.table, Q[n]) /\ Q[n][1] = n.entry.cluster /\ (n # Top => Q[n][1] # ROOT)
    BY <1>8, <1>9, <2>1 DEF RunsApart, Fresh, y
  <2>5. ASSUME NEW n \in DOMAIN R, y \in DOMAIN Q
        PROVE  Members(Q[n]) \cap Members(Q[y]) = {}
    <3>1. Members(R[n]) \subseteq Held(R)
      BY HeldAre
    <3> QED
      BY <3>1, <2>5, <1>8 DEF Fresh, y
  <2>6. ASSUME NEW n \in DOMAIN Q, NEW m \in DOMAIN Q, n # m
        PROVE  Members(Q[n]) \cap Members(Q[m]) = {}
    <3>1. CASE n \in DOMAIN R /\ m \in DOMAIN R
      BY <3>1, <2>6, <1>8, <2>1 DEF RunsApart
    <3>2. CASE n = y
      <4>1. m \in DOMAIN R
        BY <3>2, <2>6, <1>9
      <4> QED
        BY <4>1, <3>2, <2>5
    <3>3. CASE m = y
      <4>1. n \in DOMAIN R
        BY <3>3, <2>6, <1>9
      <4> QED
        BY <4>1, <3>3, <2>5
    <3> QED
      BY <3>1, <3>2, <3>3, <1>9
  <2> QED
    BY <2>2, <2>3, <2>4, <2>6 DEF RunsApart
<1>11. ASSUME NEW d \in Dirs(N), d # D
       PROVE  Orderly(w, M, Q, d) /\ NamedSpots(w, Q[d]) = NamedSpots(v, R[d])
              /\ \A q \in Spots(R[d]) : At(w, q) = At(v, q)
  <2>1. d \in DOMAIN R /\ Members(R[d]) \subseteq Held(R) /\ Orderly(v, N, R, d)
    BY RunOfDir DEF Laid
  <2>2. p[1] \notin Members(R[d])
    BY <2>1, <1>4, <1>11, SpotIsInOne
  <2>3. /\ \A q \in Spots(R[d]) : At(w, q) = At(v, q)
        /\ \A c \in Members(R[d]) : w.table[c] = v.table[c]
    BY <2>1, <2>2, SpotsSameBut
  <2>4. Orderly(w, N, R, d) /\ NamedSpots(w, R[d]) = NamedSpots(v, R[d])
    BY <2>1, <2>3, OrderlySame
  <2>5. Q[d] = R[d]
    BY <2>1, <1>8
  <2>6. Orderly(w, M, Q, d)
    BY <2>4, <2>5, <1>6 DEF Orderly, Above
  <2> QED
    BY <2>3, <2>4, <2>5, <2>6
<1>12. Orderly(w, M, Q, D) /\ NamedSpots(w, Q[D]) = NamedSpots(v, R[D]) \cup {p}
  <2>1. PICK u \in N : Above(N, D, u) /\ Neat(v, D, u.entry.cluster, R[D])
    BY <1>4 DEF Laid, Orderly
  <2>2. /\ \A q \in Spots(R[D]) : q # p => At(w, q) = At(v, q)
        /\ \A c \in Members(R[D]) : w.table[c] = v.table[c]
    BY <1>4, HeldAre, SpotsSameBut
  <2>3. e.kind = "entry" /\ ~IsDot(e) /\ e # EndMark
    BY NamesAreNotDots DEF RoomFor, EntrySlot, EndMark
  <2>4. ~IsDot(At(v, p))
    BY DEF RoomFor, IsDot, EndMark, Free
  <2>5. /\ Neat(w, D, u.entry.cluster, R[D])
        /\ NamedSpots(w, R[D]) = (NamedSpots(v, R[D]) \ {p}) \cup {q \in {p} : At(w, p).kind = "entry"}
    <3>1. Unmarked(v, R[D], p) /\ p \in Spots(R[D])
      BY DEF RoomFor
    <3>2. At(w, p).kind # "data" /\ At(w, p) # EndMark /\ ~IsDot(At(w, p))
      BY <2>3
    <3> DEFINE r == R[D]
               k == u.entry.cluster
    <3>3. Neat(v, D, k, r)
      BY <2>1
    <3> HIDE DEF r, k
    <3>4. p \in Spots(r) /\ Unmarked(v, r, p)
          /\ (\A q \in Spots(r) : q # p => At(w, q) = At(v, q))
          /\ (\A c \in Members(r) : w.table[c] = v.table[c])
      BY <2>2, <3>1 DEF r
    <3>5. Retouched(v, w, D, k, r, p)
      BY <3>2, <3>3, <3>4, <2>4, PutInDir
    <3> QED
      BY <3>5 DEF r, k, Retouched
  <2>6. NamedSpots(w, R[D]) = NamedSpots(v, R[D]) \cup {p}
    BY <2>5, <2>3
  <2>7. Q[D] = R[D]
    BY <1>4, <1>8
  <2>8. ASSUME NEW q \in NamedSpots(w, R[D])
        PROVE  NodeAt(w, D, q) \in M
    <3>1. CASE q = p
      <4>1. NodeAt(w, D, q) = y
        BY <3>1 DEF NodeAt, NewNode, y
      <4> QED
        BY <4>1
    <3>2. CASE q # p
      <4>1. q \in NamedSpots(v, R[D]) /\ q \in Spots(R[D])
        BY <3>2, <2>6 DEF NamedSpots, EntrySpots
      <4>2. NodeAt(w, D, q) = NodeAt(v, D, q)
        BY <4>1, <3>2, <2>2 DEF NodeAt
      <4> QED
        BY <4>1, <4>2, <1>4 DEF Laid, Orderly
    <3> QED
      BY <3>1, <3>2
  <2>9. Above(M, D, u)
    BY <2>1, <1>6 DEF Above
  <2>10. Orderly(w, M, Q, D)
    BY <2>5, <2>7, <2>8, <2>9 DEF Orderly
  <2> QED
    BY <2>6, <2>7, <2>10
<1>13. ASSUME y.entry.dir
       PROVE  Orderly(w, M, Q, y)
  <2>1. Neat(w, y, D.entry.cluster, Q[y]) /\ NamedSpots(w, Q[y]) = {}
    BY <1>13 DEF Fresh, y
  <2>2. Above(M, y, D)
    BY <1>2, <1>4, <1>6 DEF Above
  <2> QED
    BY <2>1, <2>2, <1>4 DEF Orderly
<1>14. ASSUME NEW n \in M, n # Top
       PROVE  \E d \in Dirs(M) : LiesIn(w, Q, n, d)
  <2>1. CASE n = y
    <3>1. LiesIn(w, Q, y, D)
      BY <1>5, <1>12 DEF LiesIn, NodeAt, NewNode, y
    <3> QED
      BY <3>1, <2>1, <1>4, <1>6
  <2>2. CASE n \in N
    <3>1. PICK d \in Dirs(N) : LiesIn(v, R, n, d)
      BY <2>2, <1>14 DEF Laid
    <3>2. n.pos \in NamedSpots(v, R[d]) /\ n = NodeAt(v, d, n.pos) /\ n.pos \in Spots(R[d])
      BY <3>1 DEF LiesIn, NamedSpots, EntrySpots
    <3>3. n.pos # p \/ d # D
      BY <3>2 DEF RoomFor, NamedSpots, EntrySpots, EndMark, Free
    <3>4. At(w, n.pos) = At(v, n.pos) /\ n.pos \in NamedSpots(w, Q[d])
      <4>1. CASE d = D
        <5>1. At(w, n.pos) = At(v, n.pos)
          BY <4>1, <3>2, <3>3, <1>4, HeldAre, SpotsSameBut
        <5> QED
          BY <5>1, <4>1, <3>2, <1>12
      <4>2. CASE d # D
        BY <4>2, <3>2, <1>11
      <4> QED
        BY <4>1, <4>2
    <3>5. LiesIn(w, Q, n, d)
      BY <3>2, <3>4 DEF LiesIn, NodeAt
    <3> QED
      BY <3>5, <1>6
  <2> QED
    BY <2>1, <2>2
<1>15. \A d \in Dirs(M) : Orderly(w, M, Q, d)
  BY <1>7, <1>11, <1>12, <1>13
<1> QED
  BY <1>3, <1>10, <1>14, <1>15 DEF Laid, y

------------------------------------------------------------------------
(* An entry is taken away.                                                 *)

Without(R, y) == [n \in DOMAIN R \ {y} |-> R[n]]

\* The directory above a directory is where its entry is.
LEMMA AboveIs ==
    ASSUME NEW v, NEW N, NEW R, Laid(v, N, R), NEW d \in N, NEW D \in Dirs(N), LiesIn(v, R, d, D),
           NEW u, Above(N, d, u)
    PROVE  u = D
<1>1. PathsApart(N) /\ D \in N /\ u \in N
  BY DEF Laid, Dirs, Above
<1>2. ChildOf(v, R, d, D)
  BY <1>1, LiesInFacts
<1>3. u.path = D.path
  BY <1>2 DEF ChildOf, Above
<1> QED
  BY <1>1, <1>3 DEF PathsApart

LEMMA OneParent ==
    ASSUME NEW v, NEW N, NEW R, Laid(v, N, R), NEW n \in N, NEW D \in Dirs(N), LiesIn(v, R, n, D),
           NEW E \in Dirs(N), LiesIn(v, R, n, E)
    PROVE  E = D
<1>1. PathsApart(N) /\ D \in N /\ E \in N
  BY DEF Laid, Dirs
<1>2. ChildOf(v, R, n, D) /\ ChildOf(v, R, n, E)
  BY <1>1, LiesInFacts
<1>3. E.path = D.path
  BY <1>2 DEF ChildOf
<1> QED
  BY <1>1, <1>3 DEF PathsApart

LEMMA NotItsOwnParent ==
    ASSUME NEW v, NEW N, NEW R, Laid(v, N, R), NEW n \in N, NEW D \in Dirs(N), LiesIn(v, R, n, D)
    PROVE  D # n
<1>1. PathsApart(N) /\ D \in N
  BY DEF Laid, Dirs
<1>2. Len(n.path) = Len(D.path) + 1
  BY <1>1, OneDeeper
<1>3. Len(n.path) \in Nat /\ Len(D.path) \in Nat
  BY <1>1, PathFacts, NodeFields
<1> QED
  BY <1>2, <1>3

LEMMA RemoveNode ==
    ASSUME NEW v, NEW w, NEW N, NEW R, Laid(v, N, R), NEW y \in N, y # Top,
           y.entry.dir => NamedSpots(v, R[y]) = {},
           SameBut(v, w, Held(Without(R, y)), y.pos), At(w, y.pos) = Free
    PROVE  Laid(w, N \ {y}, Without(R, y))
<1> DEFINE Q == Without(R, y)
           M == N \ {y}
           p == y.pos
<1>1. PathsApart(N) /\ RunsApart(v.table, N, R)
  BY DEF Laid
<1>2. PICK D \in Dirs(N) : LiesIn(v, R, y, D)
  BY DEF Laid
<1>3. D # y /\ D \in N /\ D.entry.dir /\ D \in DOMAIN R
  BY <1>2, NotItsOwnParent, RunOfDir
<1>4. DOMAIN Q = DOMAIN R \ {y} /\ \A n \in DOMAIN R : n # y => n \in DOMAIN Q /\ Q[n] = R[n]
  BY DEF Without
<1>5. PathsApart(M)
  BY <1>1 DEF PathsApart
<1>6. \A d \in Dirs(M) : d \in Dirs(N) /\ d # y /\ d \in DOMAIN R
  BY <1>1 DEF Dirs, RunsApart
<1> HIDE DEF Q
<1>7. RunsApart(w.table, M, Q)
  <2>1. RunsApart(v.table, M, Q)
    <3>1. DOMAIN Q \subseteq M /\ Dirs(M) \subseteq DOMAIN Q
      BY <1>1, <1>4, <1>6 DEF RunsApart
    <3>2. \A n \in DOMAIN Q : n \in DOMAIN R /\ Q[n] = R[n]
      BY <1>4
    <3> HIDE DEF M
    <3> QED
      BY <1>1, <3>1, <3>2 DEF RunsApart
  <2>2. \A a \in Held(Q) : w.table[a] = v.table[a]
    BY DEF SameBut, Q
  <2> QED
    BY <2>1, <2>2, RunsSame
<1>8. p \in NamedSpots(v, R[D]) /\ p \in Spots(R[D]) /\ y = NodeAt(v, D, p)
  BY <1>2 DEF LiesIn, NamedSpots, EntrySpots
\* Nothing lies in y.
<1>9. ASSUME NEW n \in N, NEW d \in Dirs(N), LiesIn(v, R, n, d)
      PROVE  d # y
  BY <1>9 DEF LiesIn, Dirs
<1>10. ASSUME NEW d \in Dirs(M)
       PROVE  /\ \A q \in Spots(R[d]) : q # p => At(w, q) = At(v, q)
              /\ \A c \in Members(R[d]) : w.table[c] = v.table[c]
              /\ d # D => p[1] \notin Members(R[d])
              /\ d # D => \A q \in Spots(R[d]) : At(w, q) = At(v, q)
  <2>1. d \in DOMAIN Q /\ Q[d] = R[d] /\ d \in DOMAIN R
    BY <1>4, <1>6
  <2>2. Members(R[d]) \subseteq Held(Q)
    BY <2>1, HeldAre
  <2>3. d # D => p[1] \notin Members(R[d])
    BY <2>1, <1>3, <1>8, SpotIsInOne
  <2> QED
    BY <2>2, <2>3, SpotsSameBut DEF Q
<1>11. ASSUME NEW d \in Dirs(M), NEW u \in N, Above(N, d, u)
       PROVE  Above(M, d, u)
  <2>1. u # y
    <3>1. CASE d = Top
      BY <3>1, <1>11 DEF Above
    <3>2. CASE d # Top
      <4>1. PICK e \in Dirs(N) : LiesIn(v, R, d, e)
        BY <3>2, <1>6 DEF Laid, Dirs
      <4>2. u = e
        BY <4>1, <1>11, <1>6, AboveIs DEF Dirs
      <4> QED
        BY <4>1, <4>2, <1>6, <1>9 DEF Dirs
    <3> QED
      BY <3>1, <3>2
  <2> QED
    BY <2>1, <1>11 DEF Above, Dirs
<1>12. ASSUME NEW d \in Dirs(M), d # D
       PROVE  Orderly(w, M, Q, d) /\ NamedSpots(w, Q[d]) = NamedSpots(v, R[d])
  <2>1. PICK u \in N : Above(N, d, u) /\ Neat(v, d, u.entry.cluster, R[d])
    BY <1>6 DEF Laid, Orderly
  <2>2. Neat(w, d, u.entry.cluster, R[d]) /\ NamedSpots(w, R[d]) = NamedSpots(v, R[d])
    BY <2>1, <1>10, <1>12, NeatSame
  <2>3. Q[d] = R[d] /\ Above(M, d, u) /\ u \in M
    BY <2>1, <1>4, <1>6, <1>11 DEF Above, Dirs
  <2>4. ASSUME NEW q \in NamedSpots(w, Q[d])
        PROVE  NodeAt(w, d, q) \in M
    <3>1. q \in NamedSpots(v, R[d]) /\ q \in Spots(R[d])
      BY <2>2, <2>3 DEF NamedSpots, EntrySpots
    <3>2. NodeAt(w, d, q) = NodeAt(v, d, q)
      BY <3>1, <1>10, <1>12 DEF NodeAt
    <3>3. NodeAt(v, d, q) \in N
      BY <3>1, <1>6 DEF Laid, Orderly
    <3>4. NodeAt(v, d, q) # y
      <4>1. SUFFICES ASSUME NodeAt(v, d, q) = y PROVE FALSE
        OBVIOUS
      <4>2. LiesIn(v, R, y, d)
        BY <4>1, <3>1 DEF LiesIn, NodeAt
      <4> QED
        BY <4>2, <1>2, <1>6, <1>12, OneParent
    <3> QED
      BY <3>2, <3>3, <3>4
  <2> QED
    BY <2>2, <2>3, <2>4 DEF Orderly
<1>13. D \in Dirs(M)
  BY <1>3 DEF Dirs
<1>14. Orderly(w, M, Q, D) /\ NamedSpots(w, Q[D]) = NamedSpots(v, R[D]) \ {p}
  <2>1. PICK u \in N : Above(N, D, u) /\ Neat(v, D, u.entry.cluster, R[D])
    BY <1>13, <1>6 DEF Laid, Orderly
  <2> DEFINE r == R[D]
             k == u.entry.cluster
  <2>2. Neat(v, D, k, r)
    BY <2>1
  <2>3. /\ \A q \in Spots(r) : q # p => At(w, q) = At(v, q)
        /\ \A c \in Members(r) : w.table[c] = v.table[c]
        /\ p \in Spots(r)
    BY <1>8, <1>10, <1>13
  <2>4. ~IsDot(At(v, p)) /\ At(v, p).kind = "entry"
    BY <1>8 DEF NamedSpots, EntrySpots
  <2>5. At(w, p).kind # "data" /\ At(w, p) # EndMark /\ ~IsDot(At(w, p)) /\ At(w, p).kind # "entry"
    BY DEF Free, EndMark, IsDot
  <2> HIDE DEF r, k
  <2>6. Unmarked(v, r, p)
    <3>1. At(v, p) # EndMark
      BY <2>4 DEF EndMark
    <3> QED
      BY <2>2, <2>3, <3>1 DEF Neat, Unmarked
  <2>7. Retouched(v, w, D, k, r, p)
    <3> HIDE DEF p
    <3> QED BY <2>2, <2>3, <2>4, <2>5, <2>6, PutInDir
  <2>8. Neat(w, D, k, r) /\ NamedSpots(w, r) = NamedSpots(v, r) \ {p}
    BY <2>7, <2>5 DEF Retouched
  <2>9. Q[D] = R[D] /\ Above(M, D, u) /\ u \in M
    BY <2>1, <1>4, <1>6, <1>13, <1>11 DEF Above, Dirs
  <2>10. ASSUME NEW q \in NamedSpots(w, Q[D])
        PROVE  NodeAt(w, D, q) \in M
    <3>1. q \in NamedSpots(v, R[D]) /\ q \in Spots(R[D]) /\ q # p
      BY <2>8, <2>9 DEF NamedSpots, EntrySpots, r
    <3>2. NodeAt(w, D, q) = NodeAt(v, D, q)
      BY <3>1, <2>3 DEF NodeAt, r
    <3>3. NodeAt(v, D, q) \in N
      BY <3>1, <1>6, <1>13 DEF Laid, Orderly
    <3>4. NodeAt(v, D, q) # y
      BY <3>1 DEF NodeAt
    <3> QED
      BY <3>2, <3>3, <3>4
  <2> QED
    BY <2>8, <2>9, <2>10 DEF Orderly, r, k
<1>15. ASSUME NEW n \in M, n # Top
       PROVE  \E d \in Dirs(M) : LiesIn(w, Q, n, d)
  <2>1. PICK d \in Dirs(N) : LiesIn(v, R, n, d)
    BY <1>15 DEF Laid
  <2>2. d \in Dirs(M)
    BY <2>1, <1>9 DEF Dirs
  <2>3. n.pos \in NamedSpots(v, R[d]) /\ n = NodeAt(v, d, n.pos) /\ n.pos \in Spots(R[d])
    BY <2>1 DEF LiesIn, NamedSpots, EntrySpots
  <2>4. ~(d = D /\ n.pos = p)
    BY <2>3, <1>8
  <2>5. At(w, n.pos) = At(v, n.pos) /\ n.pos \in NamedSpots(w, Q[d])
    <3>1. CASE d = D
      BY <3>1, <2>3, <2>4, <1>10, <1>13, <1>14
    <3>2. CASE d # D
      BY <3>2, <2>2, <2>3, <1>10, <1>12
    <3> QED
      BY <3>1, <3>2
  <2>6. LiesIn(w, Q, n, d)
    BY <2>3, <2>5 DEF LiesIn, NodeAt
  <2> QED
    BY <2>2, <2>6
<1> QED
  BY <1>5, <1>7, <1>12, <1>14, <1>15 DEF Laid, Q

------------------------------------------------------------------------
(* The table and its hint.                                                 *)

Full(v) == \A c \in Cluster : v.table[c] # FREE

\* A free cluster d was put behind c; the last cluster is never linked.
Lengthened(v, w, c, d) ==
    /\ d \in Cluster /\ v.table[d] = FREE /\ w.table[d] = EOF
    /\ \A a \in Table!Entry : a # d /\ a # c => w.table[a] = v.table[a]
    /\ c # d
    /\ w.table[c] = IF c \in Cluster /\ c < LastCluster THEN d ELSE v.table[c]

\* The entry past the table was handed out once more.
LedPast(v, w, c) ==
    /\ Full(v) /\ Full(w) /\ w.firstFree = PastEnd
    /\ w.table = [v.table EXCEPT ![c] = IF c \in Cluster /\ c < LastCluster THEN PastEnd ELSE @]

NothingLeft(v, w) == Full(v) /\ w.firstFree = PastEnd /\ w.table = v.table

LinkOutcome(v, w, c, d) ==
    /\ Typed(w) /\ w.cells = v.cells /\ w.cwd = v.cwd
    /\ \/ d = FREE /\ NothingLeft(v, w)
       \/ d = PastEnd /\ LedPast(v, w, c)
       \/ Lengthened(v, w, c, d)

LEMMA LinkFreeIs ==
    ASSUME NEW v, Typed(v), NEW c \in Table!Entry, v.table[c] = EOF
    PROVE  LinkOutcome(v, LinkFree(v, c).vol, c, LinkFree(v, c).cluster)
<1> DEFINE t == v.table
           d == Table!FindFree(t, v.firstFree)
           w == LinkFree(v, c).vol
<1>1. Typed(v) /\ t \in [Table!Entry -> Table!Value] /\ v.firstFree \in 2 .. PastEnd
  BY VolumeFields DEF Typed, Firm
<1>2. /\ d \in {FREE, PastEnd} \cup Cluster
      /\ d # FREE => t[d] = FREE
      /\ d = FREE => Full(v)
      /\ d = PastEnd => v.firstFree = PastEnd
  BY <1>1, FindFreeIs DEF Full
<1>3. c # PastEnd /\ c \in Nat /\ c <= LastCluster
  <2>1. EOF # FREE
    BY Numbers
  <2>2. c # PastEnd
    BY <2>1 DEF Typed, Firm
  <2> QED
    BY <2>2, Numbers
<1>4. ~Table!HasLink(t, c)
  BY Numbers, SMT DEF Table!HasLink
<1>5. /\ Typed(w) /\ w.cells = v.cells /\ w.cwd = v.cwd
  BY <1>1, LinkFreeTyped
<1>6. v \in Volume
  BY <1>1, VolumeFields
<1>7. /\ w.table = Table!LinkFreeCluster(t, v.firstFree, c).table
      /\ w.firstFree = Table!LinkFreeCluster(t, v.firstFree, c).firstFree
      /\ LinkFree(v, c).cluster = Table!LinkFreeCluster(t, v.firstFree, c).ret
  BY <1>6 DEF LinkFree, Linked, Volume
<1>8. Table!LinkFreeCluster(t, v.firstFree, c) =
        IF d = FREE THEN [table |-> t, firstFree |-> PastEnd, ret |-> FREE]
        ELSE [table |-> Table!MarkEnd(Table!LinkTo(t, c, d), d), firstFree |-> d, ret |-> d]
  <2>1. ~(c > LastCluster) /\ Table!PastEnd = PastEnd /\ Table!CLUSTER_FREE = FREE
    BY <1>3, Numbers
  <2> HIDE DEF d, t
  <2>2. Table!FindFree(t, v.firstFree) = d
    BY DEF d, t
  <2> QED
    BY <2>1, <2>2, <1>4 DEF Table!LinkFreeCluster, t
<1>9. Table!LinkTo(t, c, d) = [t EXCEPT ![c] = IF c \in Cluster /\ c < LastCluster THEN d ELSE @]
  <2>1. CASE c \in Cluster /\ c < LastCluster
    <3>1. c >= 2 /\ Table!CLUSTER_FIRST = 2 /\ Table!Cluster = Cluster
      BY <2>1, Numbers
    <3> QED
      BY <2>1, <3>1 DEF Table!LinkTo, Table!WriteFatEntry
  <2>2. CASE ~(c \in Cluster /\ c < LastCluster)
    <3>1. ~(c >= 2 /\ c < LastCluster) /\ Table!CLUSTER_FIRST = 2
      BY <2>2, <1>3, Numbers
    <3>2. t = [t EXCEPT ![c] = t[c]]
      BY <1>1
    <3> QED
      BY <2>2, <3>1, <3>2 DEF Table!LinkTo
  <2> QED
    BY <2>1, <2>2
<1> HIDE DEF d, w, t
<1>10. CASE d = FREE
  <2>1. w.table = v.table /\ w.firstFree = PastEnd /\ LinkFree(v, c).cluster = FREE
    BY <1>7, <1>8, <1>10 DEF t
  <2>2. Typed(w)
    BY <1>5
  <2> QED
    BY <2>1, <2>2, <1>2, <1>5, <1>10 DEF LinkOutcome, NothingLeft, w
<1>11. CASE d = PastEnd
  <2>1. Full(v) /\ PastEnd \notin Cluster /\ PastEnd # FREE
    <3>1. Firm(v.table, v.firstFree) /\ v.firstFree = PastEnd
      BY <1>2, <1>11, FirmVolume
    <3> QED
      BY <3>1, Numbers DEF Firm, Full
  <2>2. w.table = [t EXCEPT ![c] = IF c \in Cluster /\ c < LastCluster THEN PastEnd ELSE @]
    BY <1>7, <1>8, <1>9, <1>11, <2>1, Numbers DEF Table!MarkEnd, Table!WriteFatEntry
  <2>3. w.firstFree = PastEnd /\ LinkFree(v, c).cluster = PastEnd
    BY <1>7, <1>8, <1>11, <2>1
  <2>4. \A a \in Table!Entry : w.table[a] = t[a] \/ (a = c /\ a \in Cluster /\ w.table[a] = PastEnd)
    BY <2>2, <1>1
  <2>5. Full(w)
    <3>1. \A a \in Cluster : a \in Table!Entry
      BY Numbers
    <3> QED
      BY <2>1, <2>4, <3>1 DEF Full, t
  <2>6. Typed(w)
    <3>1. ROOT \notin Cluster /\ ROOT \in Table!Entry /\ PastEnd \in Table!Entry
      BY Numbers
    <3> QED
      BY <3>1, <2>1, <2>4, <2>5, <1>5 DEF Typed, Firm, t
  <2> QED
    BY <2>1, <2>2, <2>3, <2>5, <2>6, <1>5, <1>11 DEF LinkOutcome, LedPast, w, t
<1>12. CASE d \in Cluster
  <2>1. d # FREE /\ d # PastEnd /\ d # c /\ d \in Table!Entry /\ t[d] = FREE /\ d # ROOT
    <3>1. d # FREE /\ d # PastEnd /\ d \in Table!Entry /\ d # ROOT /\ EOF # FREE
      BY <1>12, Numbers
    <3> QED
      BY <3>1, <1>2, <1>12 DEF t
  <2>2. w.table = [[t EXCEPT ![c] = IF c \in Cluster /\ c < LastCluster THEN d ELSE @] EXCEPT ![d] = EOF]
    BY <1>7, <1>8, <1>9, <1>12, <2>1, Numbers DEF Table!MarkEnd, Table!WriteFatEntry
  <2>3. w.firstFree = d /\ LinkFree(v, c).cluster = d
    BY <1>7, <1>8, <2>1
  <2>4. /\ w.table[d] = EOF
        /\ \A a \in Table!Entry : a # d /\ a # c => w.table[a] = t[a]
        /\ w.table[c] = IF c \in Cluster /\ c < LastCluster THEN d ELSE t[c]
    BY <2>2, <2>1, <1>1
  <2>5. Typed(w)
    <3>1. ROOT \notin Cluster /\ ROOT \in Table!Entry /\ PastEnd \in Table!Entry
      BY Numbers
    <3>2. w.table[ROOT] = EOF /\ w.table[PastEnd] = FREE
      BY <3>1, <2>1, <2>4, <1>3 DEF Typed, Firm, t
    <3> QED
      BY <3>2, <2>1, <2>3, <1>5 DEF Typed, Firm
  <2>6. Lengthened(v, w, c, d)
    BY <2>1, <2>4, <1>12 DEF Lengthened, t
  <2> QED
    BY <2>3, <2>5, <2>6, <1>5 DEF LinkOutcome, w
<1> QED
  BY <1>2, <1>10, <1>11, <1>12

\* Nothing is linked to the entry past the table.
LEMMA PastEndIsNotLinked ==
    ASSUME NEW v, Typed(v)
    PROVE  LinkFree(v, PastEnd).vol = v /\ LinkFree(v, PastEnd).cluster = FREE
<1>1. v \in Volume
  BY VolumeFields
<1>2. PastEnd > LastCluster /\ Table!CLUSTER_FREE = FREE
  BY Numbers
<1>3. Table!LinkFreeCluster(v.table, v.firstFree, PastEnd)
        = [table |-> v.table, firstFree |-> v.firstFree, ret |-> FREE]
  BY <1>2 DEF Table!LinkFreeCluster
<1> DEFINE q == Table!LinkFreeCluster(v.table, v.firstFree, PastEnd)
<1>4. q.table = v.table /\ q.firstFree = v.firstFree /\ q.ret = FREE
  BY <1>3
<1> HIDE DEF q
<1>5. [[v EXCEPT !.table = q.table] EXCEPT !.firstFree = q.firstFree] = v
  BY <1>1, <1>4 DEF Volume
<1>6. LinkFree(v, PastEnd)
        = [vol |-> [[v EXCEPT !.table = q.table] EXCEPT !.firstFree = q.firstFree], cluster |-> q.ret]
  BY DEF LinkFree, Linked, q
<1> QED
  BY <1>4, <1>5, <1>6

LEMMA NoChain ==
    ASSUME NEW t, NEW c, c \notin Cluster
    PROVE  Table!Chain(t, c) = {}
<1>1. Table!Cluster = Cluster
  BY Numbers
<1>2. {} \in SUBSET Cluster /\ {c} \cap Cluster = {} /\ Table!ClosedUnder(t, {})
  BY DEF Table!ClosedUnder
<1> QED
  BY <1>1, <1>2 DEF Table!Chain

\* A chain that lies in G is cleared, and nothing else is.
FreedIn(v, w, G) ==
    /\ Typed(w) /\ w.cells = v.cells /\ w.cwd = v.cwd
    /\ \A a \in Table!Entry : w.table[a] = IF a \in G THEN FREE ELSE v.table[a]

LEMMA FreedIs ==
    ASSUME NEW v, Typed(v), NEW c \in Table!Entry
    PROVE  /\ FreedIn(v, Freed(v, c), Clusters(v, c))
           /\ Clusters(v, c) \subseteq Cluster
           /\ c \notin Cluster => Freed(v, c) = v
<1> DEFINE w == Freed(v, c)
           G == Clusters(v, c)
<1>1. Typed(v) /\ v \in Volume /\ v.table \in [Table!Entry -> Table!Value]
      /\ v.firstFree \in 2 .. PastEnd
  BY VolumeFields DEF Typed, Firm
<1>2. Typed(w) /\ w.cells = v.cells /\ w.cwd = v.cwd
  BY <1>1, FreedTyped
<1>3. w.table = Table!ClearLinks(v.table, c) /\ w.firstFree = Table!LoweredHint(v.firstFree, c)
  BY <1>1 DEF Freed, Volume
<1>4. Table!Cluster = Cluster /\ Table!CLUSTER_FREE = FREE
  BY Numbers
<1>5. G \subseteq Cluster
  BY <1>4 DEF Clusters, Table!Chain
<1>6. \A a \in Table!Entry : w.table[a] = IF a \in G THEN FREE ELSE v.table[a]
  BY <1>3, <1>4 DEF Table!ClearLinks, Clusters
<1>7. c \notin Cluster => w = v
  <2>1. SUFFICES ASSUME c \notin Cluster PROVE w = v
    OBVIOUS
  <2>2. G = {}
    BY <2>1, NoChain DEF Clusters
  <2>3. Table!ClearLinks(v.table, c) = v.table
    BY <2>2, <1>1 DEF Table!ClearLinks, Clusters
  <2>4. Table!LoweredHint(v.firstFree, c) = v.firstFree
    BY <2>1, <1>4 DEF Table!LoweredHint
  <2> QED
    BY <2>3, <2>4, <1>1 DEF Freed, Volume
<1>8. Typed(w)
  <2>1. CASE c \notin Cluster
    BY <2>1, <1>7
  <2>2. CASE c \in Cluster
    <3>1. ROOT \notin Cluster /\ ROOT \in Table!Entry /\ PastEnd \in Table!Entry /\ PastEnd \notin Cluster
      BY Numbers
    <3>2. w.table[ROOT] = EOF /\ w.table[PastEnd] = FREE
      BY <3>1, <1>5, <1>6 DEF Typed, Firm
    <3>3. w.firstFree # PastEnd
      <4>1. c < PastEnd
        BY <2>2, Numbers
      <4>2. w.firstFree = IF c < v.firstFree THEN c ELSE v.firstFree
        BY <1>3, <1>4, <2>2 DEF Table!LoweredHint
      <4> QED
        BY <4>1, <4>2, <1>1, <2>2, Numbers
    <3> QED
      BY <3>2, <3>3, <1>2 DEF Typed, Firm
  <2> QED
    BY <2>1, <2>2
<1> QED
  BY <1>2, <1>5, <1>6, <1>7, <1>8 DEF FreedIn

------------------------------------------------------------------------
(* A directory grows.                                                      *)

\* What the nodes stand in is in use.
LEMMA HeldIsUsed ==
    ASSUME NEW v, Typed(v), NEW N, NEW R, Laid(v, N, R), NEW a \in Held(R)
    PROVE  /\ v.table[a] # FREE /\ v.table[a] \in Cluster \cup {EOF}
           /\ a \in {ROOT} \cup Cluster /\ a \in Areas /\ a \in Table!Entry /\ a # PastEnd
<1>1. EOF # FREE /\ FREE \notin Cluster /\ EOF \notin Cluster /\ ROOT \notin Cluster
  BY Numbers
<1>2. PICK n \in DOMAIN R : a \in Members(R[n])
  BY DEF Held
<1>3. a \in {ROOT} \cup Cluster /\ v.table[a] # FREE /\ v.table[a] \in Cluster \cup {EOF}
  <2>1. CASE n = Top
    <3>1. a = ROOT
      BY <2>1, <1>2, RunOfTop
    <3> QED
      BY <3>1, <1>1 DEF Typed, Firm
  <2>2. CASE n # Top
    <3> DEFINE r == R[n]
    <3>1. Seg(v.table, r) /\ v.table[r[Len(r)]] = EOF
      BY <2>2, RunOf
    <3>2. a \in Members(r)
      BY <1>2
    <3> HIDE DEF r
    <3>3. PICK k \in 1 .. Len(r) : a = r[k]
      BY <3>2 DEF Members
    <3>4. Len(r) \in Nat /\ r[k] \in Cluster
      BY <3>1, SegFields
    <3>5. CASE k = Len(r)
      BY <3>1, <3>3, <3>4, <3>5, <1>1
    <3>6. CASE k # Len(r)
      <4>1. k \in 1 .. Len(r) - 1 /\ k + 1 \in 1 .. Len(r)
        BY <3>4, <3>6
      <4>2. v.table[a] = r[k + 1] /\ r[k + 1] \in Cluster
        BY <4>1, <3>1, <3>3, SegFields DEF Seg
      <4> QED
        BY <4>2, <3>3, <3>4, <1>1
    <3> QED
      BY <3>5, <3>6
  <2> QED
    BY <2>1, <2>2
<1>4. \A b \in {ROOT} \cup Cluster : b \in Areas /\ b \in Table!Entry /\ b # PastEnd
  BY Numbers
<1> QED
  BY <1>3, <1>4

\* A free cluster g behind the last one of r.
Appended(u, r, g, q) ==
    /\ Seg(u, q) /\ Len(q) = Len(r) + 1
    /\ q[Len(r) + 1] = g /\ q[1] = r[1]
    /\ \A k \in 1 .. Len(r) : q[k] = r[k]
    /\ Members(q) = Members(r) \cup {g}

LEMMA SegAppend ==
    ASSUME NEW t, NEW u, NEW r, Seg(t, r), NEW g \in Cluster, g \notin Members(r),
           u[r[Len(r)]] = g, u[g] \notin Cluster,
           \A a \in Members(r) : a # r[Len(r)] => u[a] = t[a]
    PROVE  Appended(u, r, g, Append(r, g))
<1> DEFINE q == Append(r, g)
           m == Len(r)
<1>1. m \in Nat /\ m >= 1 /\ r \in Seq(Cluster) /\ \A k \in 1 .. m : r[k] \in Cluster /\ r[k] \in Members(r)
  BY SegFields DEF Seg
<1>2. q \in Seq(Cluster) /\ Len(q) = m + 1 /\ q[m + 1] = g /\ \A k \in 1 .. m : q[k] = r[k]
  BY <1>1
<1>3. \A i, j \in 1 .. m : r[i] = r[j] => i = j
  BY DEF Seg
<1>4. \A k \in 1 .. m - 1 : t[r[k]] = r[k + 1]
  BY DEF Seg
<1>5. u[r[m]] = g
  OBVIOUS
<1> HIDE DEF q, m
<1>6. ASSUME NEW i \in 1 .. m + 1, NEW j \in 1 .. m + 1, q[i] = q[j]
      PROVE  i = j
  BY <1>1, <1>2, <1>3, <1>6
<1>7. ASSUME NEW k \in 1 .. m
      PROVE  u[q[k]] = q[k + 1]
  <2>1. CASE k = m
    BY <2>1, <1>1, <1>2, <1>5
  <2>2. CASE k # m
    <3>1. k \in 1 .. m - 1 /\ k + 1 \in 1 .. m /\ m \in 1 .. m
      BY <2>2, <1>1
    <3>2. r[k] # r[m] /\ r[k] \in Members(r)
      BY <3>1, <2>2, <1>1, <1>3
    <3>3. u[r[k]] = t[r[k]]
      BY <3>2 DEF m
    <3> QED
      BY <3>1, <3>3, <1>2, <1>4
  <2> QED
    BY <2>1, <2>2
<1>8. Seg(u, q)
  <2>1. \A k \in 1 .. Len(q) - 1 : k \in 1 .. m
    BY <1>1, <1>2
  <2>2. Len(q) >= 1
    BY <1>1, <1>2
  <2> QED
    BY <1>2, <1>6, <1>7, <2>1, <2>2 DEF Seg
<1>9. Members(q) = Members(r) \cup {g}
  <2>1. \A k \in 1 .. m + 1 : k = m + 1 \/ k \in 1 .. m
    BY <1>1
  <2>2. m + 1 \in 1 .. m + 1 /\ \A k \in 1 .. m : k \in 1 .. m + 1
    BY <1>1
  <2>3. Members(r) = {r[k] : k \in 1 .. m}
    BY DEF Members, m
  <2>4. Members(q) = {q[k] : k \in 1 .. m + 1}
    BY <1>2 DEF Members
  <2> QED
    BY <2>1, <2>2, <2>3, <2>4, <1>2
<1>10. 1 \in 1 .. m
  BY <1>1
<1> QED
  BY <1>2, <1>8, <1>9, <1>10 DEF q, m, Appended

\* The slots of g come after those of r.
SpotsAfter(r, g, q) ==
    /\ \A p \in Position : p \in Spots(q) <=> p \in Spots(r) \/ p[1] = g
    /\ \A a, b \in Spots(r) : Before(q, a, b) => Before(r, a, b)
    /\ \A a, b \in Position : a[1] = g /\ Before(q, a, b) => b[1] = g

LEMMA SpotsOfAppend ==
    ASSUME NEW t, NEW u, NEW r, Seg(t, r), NEW g, NEW q, Appended(u, r, g, q), g \notin Members(r)
    PROVE  SpotsAfter(r, g, q)
<1> DEFINE m == Len(r)
<1>1. m \in Nat /\ r \in Seq(Cluster) /\ \A k \in 1 .. m : r[k] \in Members(r)
  BY SegFields DEF Seg
<1>2. Len(q) = m + 1 /\ q[m + 1] = g /\ \A k \in 1 .. m : q[k] = r[k]
  BY DEF Appended
<1> HIDE DEF m
<1>3. \A k \in 1 .. m + 1 : k \in 1 .. m \/ k = m + 1
  BY <1>1
<1>4. m + 1 \in 1 .. m + 1 /\ \A k \in 1 .. m : k \in 1 .. m + 1
  BY <1>1
<1>5. \A p : p \in Spots(q) <=> p \in Position /\ \E k \in 1 .. m + 1 : p[1] = q[k]
  BY <1>2 DEF Spots, SpotsTo
<1>6. \A p : p \in Spots(r) <=> p \in Position /\ \E k \in 1 .. m : p[1] = r[k]
  BY DEF Spots, SpotsTo, m
<1>7. \A p \in Position : p \in Spots(q) <=> p \in Spots(r) \/ p[1] = g
  BY <1>2, <1>3, <1>4, <1>5, <1>6
<1>8. ASSUME NEW a \in Spots(r), NEW b \in Spots(r), Before(q, a, b)
      PROVE  Before(r, a, b)
  <2>1. PICK i, j \in 1 .. m + 1 : /\ a[1] = q[i] /\ b[1] = q[j]
                                   /\ i < j \/ (i = j /\ a[2] < b[2])
    BY <1>2, <1>8 DEF Before
  <2>2. a[1] \in Members(r) /\ b[1] \in Members(r)
    BY SpotArea
  <2>3. i \in 1 .. m /\ j \in 1 .. m
    BY <2>1, <2>2, <1>2, <1>3
  <2>4. a[1] = r[i] /\ b[1] = r[j]
    BY <2>1, <2>3, <1>2
  <2> QED
    BY <2>1, <2>3, <2>4 DEF Before, m
<1>9. ASSUME NEW a \in Position, NEW b \in Position, a[1] = g, Before(q, a, b)
      PROVE  b[1] = g
  <2>1. PICK i, j \in 1 .. m + 1 : /\ a[1] = q[i] /\ b[1] = q[j]
                                   /\ i < j \/ (i = j /\ a[2] < b[2])
    <3>1. Before(q, a, b)
      BY <1>9
    <3> QED
      BY <1>2, <3>1 DEF Before
  <2>2. i = m + 1
    BY <2>1, <1>2, <1>3, <1>1, <1>9
  <2>3. j = m + 1
    BY <2>1, <2>2, <1>1
  <2> QED
    BY <2>1, <2>3, <1>2
<1> QED
  BY <1>7, <1>8, <1>9 DEF SpotsAfter

\* The directory D gets the cluster g, which is cleared.
LastOf(r) == r[Len(r)]
Cleared(v, w, g) ==
    /\ \A a \in Areas : a # g => w.cells[a] = v.cells[a]
    /\ \A p \in Position : p[1] = g => At(w, p) = EndMark
GrowsBy(v, w, R, D, g) ==
    /\ D # Top /\ LastOf(R[D]) < LastCluster
    /\ Lengthened(v, w, LastOf(R[D]), g) /\ Cleared(v, w, g)
Longer1(R, D, g) == [R EXCEPT ![D] = Append(R[D], g)]

\* What has not been touched.
Untouched(v, w, R, r, g) ==
    /\ g \in Cluster /\ g \notin Held(R)
    /\ Seg(v.table, r) /\ LastOf(r) \in Members(r)
    /\ w.table[LastOf(r)] = g /\ w.table[g] = EOF
    /\ \A a \in Held(R) : w.cells[a] = v.cells[a]
    /\ \A a \in Held(R) : a # LastOf(r) => w.table[a] = v.table[a]

LEMMA GrowsElsewhere ==
    ASSUME NEW v, Typed(v), NEW w, NEW N, NEW R, Laid(v, N, R), NEW D \in Dirs(N), NEW g,
           GrowsBy(v, w, R, D, g)
    PROVE  Untouched(v, w, R, R[D], g)
<1> DEFINE l == LastOf(R[D])
<1>1. D \in DOMAIN R /\ D # Top /\ Members(R[D]) \subseteq Held(R)
  BY RunOfDir DEF GrowsBy
<1>2. Seg(v.table, R[D])
  BY <1>1, RunOf
<1>3. l \in Members(R[D]) /\ l \in Cluster
  BY <1>2, SegFields DEF LastOf
<1>4. g \in Cluster /\ v.table[g] = FREE /\ w.table[g] = EOF
      /\ (\A a \in Table!Entry : a # g /\ a # l => w.table[a] = v.table[a])
      /\ w.table[l] = g
  BY <1>3 DEF GrowsBy, Lengthened
<1>5. g \notin Held(R)
  BY <1>4, HeldIsUsed
<1>6. \A a \in Held(R) : a \in Areas /\ a \in Table!Entry /\ a # g
  BY <1>5, HeldIsUsed
<1>7. \A a \in Held(R) : w.cells[a] = v.cells[a]
  BY <1>6 DEF GrowsBy, Cleared
<1> HIDE DEF l
<1>8. \A a \in Held(R) : a # l => w.table[a] = v.table[a]
  BY <1>4, <1>6
<1> QED
  BY <1>1, <1>2, <1>3, <1>4, <1>5, <1>7, <1>8 DEF l, Untouched

NeatAfter(v, w, D, up, r, g, q) ==
    /\ Neat(w, D, up, q)
    /\ NamedSpots(w, q) = NamedSpots(v, r)
    /\ \A p \in Spots(r) : p \in Spots(q) /\ At(w, p) = At(v, p)
    /\ Appended(w.table, r, g, q) /\ SpotsAfter(r, g, q)
    /\ <<g, 1>> \in Spots(q)

LEMMA GrowNeat ==
    ASSUME NEW v, Typed(v), NEW w, NEW N, NEW R, Laid(v, N, R), NEW D \in Dirs(N), NEW g,
           GrowsBy(v, w, R, D, g), NEW up, Neat(v, D, up, R[D])
    PROVE  NeatAfter(v, w, D, up, R[D], g, Append(R[D], g))
<1> DEFINE r == R[D]
           q == Append(r, g)
<1>0. Untouched(v, w, R, r, g)
  BY GrowsElsewhere
<1>1. /\ g \in Cluster /\ g \notin Held(R) /\ Seg(v.table, r)
      /\ LastOf(r) \in Members(r) /\ w.table[LastOf(r)] = g /\ w.table[g] = EOF
      /\ \A a \in Held(R) : w.cells[a] = v.cells[a]
      /\ \A a \in Held(R) : a # LastOf(r) => w.table[a] = v.table[a]
  BY <1>0 DEF Untouched
<1>2. Members(r) \subseteq Held(R) /\ g \notin Members(r)
  BY <1>1, RunOfDir
<1>3. EOF \notin Cluster /\ g \in Areas /\ ROOT \notin Cluster
  BY <1>1, Numbers
<1>4. D # Top /\ \A p \in Position : p[1] = g => At(w, p) = EndMark
  BY DEF GrowsBy, Cleared
<1>5. Neat(v, D, up, r)
  OBVIOUS
<1> HIDE DEF r
<1>60. Appended(w.table, r, g, q)
  <2>1. \A a \in Members(r) : a # r[Len(r)] => w.table[a] = v.table[a]
    BY <1>1, <1>2 DEF LastOf
  <2>2. w.table[r[Len(r)]] = g /\ w.table[g] \notin Cluster
    BY <1>1, <1>3 DEF LastOf
  <2> QED
    BY <2>1, <2>2, <1>1, <1>2, SegAppend
<1>70. SpotsAfter(r, g, q)
  <2> HIDE DEF q
  <2> QED BY <1>1, <1>2, <1>60, SpotsOfAppend
<1> HIDE DEF q
<1>6. /\ Seg(w.table, q) /\ Len(q) = Len(r) + 1 /\ q[Len(r) + 1] = g /\ q[1] = r[1]
      /\ Members(q) = Members(r) \cup {g}
  BY <1>60 DEF Appended
<1>7. /\ \A p \in Position : p \in Spots(q) <=> p \in Spots(r) \/ p[1] = g
      /\ \A a, b \in Spots(r) : Before(q, a, b) => Before(r, a, b)
      /\ \A a, b \in Position : a[1] = g /\ Before(q, a, b) => b[1] = g
  BY <1>70 DEF SpotsAfter
<1>8. IsRun(w.table, q)
  BY <1>1, <1>6 DEF IsRun
<1>9. \A p \in Spots(r) : p \in Position /\ p \in Spots(q) /\ p[1] \in Members(r) /\ At(w, p) = At(v, p)
  <2>1. \A p \in Spots(r) : p \in Position /\ p[1] \in Members(r)
    BY SpotArea
  <2> QED
    BY <2>1, <1>1, <1>2, <1>7 DEF At
<1>10. \A p \in Spots(q) : p \in Position /\ (p \in Spots(r) \/ At(w, p) = EndMark)
  <2>1. \A p \in Spots(q) : p \in Position
    BY SpotArea
  <2> QED
    BY <2>1, <1>4, <1>7
<1>11. EndMark.kind # "data" /\ EndMark.kind # "entry" /\ ~IsDot(EndMark)
  BY DEF EndMark, IsDot
<1>12. r[1] = D.entry.cluster /\ r[1] # ROOT /\ <<r[1], 1>> \in Spots(r) /\ <<r[1], 2>> \in Spots(r)
  <2>1. IsRun(v.table, r) /\ r[1] = D.entry.cluster /\ r[1] # ROOT
    BY <1>4, <1>5 DEF Neat
  <2> QED
    BY <2>1, FirstSpots
<1>13. NamedSpots(w, q) = NamedSpots(v, r)
  BY <1>9, <1>10, <1>11 DEF NamedSpots, EntrySpots
<1>14. ASSUME NEW a \in Spots(q), NEW b \in Spots(q), Before(q, a, b), At(w, a) = EndMark
       PROVE  At(w, b) = EndMark
  <2>1. CASE b[1] = g
    BY <2>1, <1>4, <1>10
  <2>2. CASE b[1] # g
    <3>1. a[1] # g /\ a \in Position /\ b \in Position
      BY <2>2, <1>7, <1>10, <1>14
    <3>2. a \in Spots(r) /\ b \in Spots(r)
      BY <3>1, <2>2, <1>7
    <3>3. Before(r, a, b)
      BY <3>2, <1>7, <1>14
    <3>4. At(v, a) = EndMark
      BY <3>2, <1>9, <1>14
    <3>5. At(v, b) = EndMark
      BY <3>2, <3>3, <3>4, <1>5 DEF Neat
    <3> QED
      BY <3>2, <3>5, <1>9
  <2> QED
    BY <2>1, <2>2
<1>15. \A p \in Spots(q) : At(w, p).kind # "data"
  BY <1>5, <1>9, <1>10, <1>11 DEF Neat
<1>16. \A p \in Spots(q) : IsDot(At(w, p)) => D # Top /\ p \in {<<q[1], 1>>, <<q[1], 2>>}
  BY <1>5, <1>6, <1>9, <1>10, <1>11 DEF Neat
<1>17. /\ At(w, <<q[1], 1>>) = Entry(".", TRUE, D.entry.cluster, 0)
       /\ At(w, <<q[1], 2>>) = Entry("..", TRUE, up, 0)
  BY <1>4, <1>5, <1>6, <1>9, <1>12 DEF Neat
<1>18. Neat(w, D, up, q)
  BY <1>6, <1>8, <1>12, <1>14, <1>15, <1>16, <1>17 DEF Neat
<1>19. <<g, 1>> \in Spots(q)
  <2>1. 1 \in 1 .. SlotsOf(g)
    BY <1>3, SlotsOfIsPositive
  <2>2. <<g, 1>> \in Position
    BY <2>1, <1>3, IsPosition
  <2> QED
    BY <2>2, <1>7
<1> QED
  BY <1>9, <1>13, <1>18, <1>19, <1>60, <1>70 DEF q, r, NeatAfter

LEMMA Grow ==
    ASSUME NEW v, Typed(v), NEW w, NEW N, NEW R, Laid(v, N, R), NEW D \in Dirs(N), NEW g,
           GrowsBy(v, w, R, D, g)
    PROVE  Laid(w, N, Longer1(R, D, g))
<1> DEFINE Q == Longer1(R, D, g)
           r == R[D]
           q == Append(r, g)
<1>0. Untouched(v, w, R, r, g)
  BY GrowsElsewhere
<1>1. /\ g \in Cluster /\ g \notin Held(R) /\ D \in DOMAIN R /\ Seg(v.table, r)
      /\ LastOf(r) \in Members(r) /\ w.table[LastOf(r)] = g /\ w.table[g] = EOF
      /\ \A a \in Held(R) : w.cells[a] = v.cells[a]
      /\ \A a \in Held(R) : a # LastOf(r) => w.table[a] = v.table[a]
  BY <1>0, RunOfDir DEF Untouched
<1>2. PathsApart(N) /\ RunsApart(v.table, N, R) /\ D \in N /\ D # Top
  BY DEF Laid, Dirs, GrowsBy
<1>3. DOMAIN Q = DOMAIN R /\ Q[D] = q /\ \A n \in DOMAIN R : n # D => Q[n] = R[n]
  BY <1>1 DEF Longer1
<1>4. PICK u \in N : Above(N, D, u) /\ Neat(v, D, u.entry.cluster, r)
  BY DEF Laid, Orderly
<1>5. /\ Neat(w, D, u.entry.cluster, q)
      /\ NamedSpots(w, q) = NamedSpots(v, r)
      /\ \A p \in Spots(r) : At(w, p) = At(v, p)
      /\ Members(q) = Members(r) \cup {g}
  <2> DEFINE k == u.entry.cluster
  <2>1. Neat(v, D, k, R[D])
    BY <1>4
  <2> HIDE DEF k
  <2>2. NeatAfter(v, w, D, k, R[D], g, Append(R[D], g))
    BY <2>1, GrowNeat
  <2> QED
    BY <2>2 DEF k, NeatAfter, Appended
<1>6. ASSUME NEW n \in DOMAIN R, n # D
      PROVE  Same(v, w, Members(R[n])) /\ g \notin Members(R[n]) /\ Members(R[n]) \cap Members(r) = {}
  <2>1. Members(R[n]) \subseteq Held(R)
    BY HeldAre
  <2>2. Members(R[n]) \cap Members(r) = {}
    BY <1>1, <1>2, <1>6 DEF RunsApart
  <2>3. \A a \in Members(R[n]) : a # LastOf(r)
    BY <2>2, <1>1
  <2> QED
    BY <2>1, <2>2, <2>3, <1>1 DEF Same
<1> HIDE DEF q, r, Q
<1>7. RunsApart(w.table, N, Q)
  <2>1. ASSUME NEW n \in DOMAIN Q
        PROVE  IsRun(w.table, Q[n]) /\ Q[n][1] = n.entry.cluster /\ (n # Top => Q[n][1] # ROOT)
    <3>1. CASE n = D
      BY <3>1, <1>3, <1>5, <1>2 DEF Neat
    <3>2. CASE n # D
      <4>1. n \in DOMAIN R /\ Q[n] = R[n]
        BY <3>2, <2>1, <1>3
      <4>2. \A c \in Members(R[n]) : w.table[c] = v.table[c]
        BY <4>1, <3>2, <1>6 DEF Same
      <4>3. IsRun(v.table, R[n]) /\ R[n][1] = n.entry.cluster /\ (n # Top => R[n][1] # ROOT)
        BY <4>1, <1>2 DEF RunsApart
      <4>4. IsRun(w.table, R[n])
        BY <4>2, <4>3, RunSame
      <4> QED
        BY <4>1, <4>3, <4>4
    <3> QED
      BY <3>1, <3>2
  <2>2. ASSUME NEW n \in DOMAIN Q, NEW m \in DOMAIN Q, n # m
        PROVE  Members(Q[n]) \cap Members(Q[m]) = {}
    <3>1. n \in DOMAIN R /\ m \in DOMAIN R
      BY <1>3
    <3>2. CASE n = D
      BY <3>1, <3>2, <2>2, <1>3, <1>5, <1>6
    <3>3. CASE m = D
      BY <3>1, <3>3, <2>2, <1>3, <1>5, <1>6
    <3>4. CASE n # D /\ m # D
      <4>1. Q[n] = R[n] /\ Q[m] = R[m]
        BY <3>1, <3>4, <1>3
      <4> QED
        BY <4>1, <3>1, <2>2, <1>2 DEF RunsApart
    <3> QED
      BY <3>2, <3>3, <3>4
  <2> QED
    BY <2>1, <2>2, <1>2, <1>3 DEF RunsApart
<1>8. ASSUME NEW d \in Dirs(N)
      PROVE  /\ Orderly(w, N, Q, d) /\ NamedSpots(w, Q[d]) = NamedSpots(v, R[d])
             /\ \A p \in Spots(R[d]) : At(w, p) = At(v, p)
  <2>1. Orderly(v, N, R, d) /\ d \in DOMAIN R
    BY RunOfDir DEF Laid
  <2>2. CASE d = D
    <3>1. ASSUME NEW p \in NamedSpots(w, q)
          PROVE  NodeAt(w, D, p) \in N
      <4>1. p \in NamedSpots(v, r) /\ p \in Spots(r)
        BY <1>5 DEF NamedSpots, EntrySpots
      <4>2. NodeAt(w, D, p) = NodeAt(v, D, p)
        BY <4>1, <1>5 DEF NodeAt
      <4> QED
        BY <4>1, <4>2, <2>1, <2>2 DEF Orderly, r
    <3> QED
      BY <3>1, <2>2, <1>3, <1>4, <1>5 DEF Orderly, r
  <2>3. CASE d # D
    <3>1. /\ \A p \in Spots(R[d]) : At(w, p) = At(v, p)
          /\ \A c \in Members(R[d]) : w.table[c] = v.table[c]
      BY <2>1, <2>3, <1>6, SameSpots
    <3>2. Orderly(w, N, R, d) /\ NamedSpots(w, R[d]) = NamedSpots(v, R[d])
      BY <2>1, <3>1, OrderlySame
    <3>3. Q[d] = R[d]
      BY <2>1, <2>3, <1>3
    <3> QED
      BY <3>1, <3>2, <3>3 DEF Orderly
  <2> QED
    BY <2>2, <2>3
<1>9. ASSUME NEW n \in N, n # Top
      PROVE  \E d \in Dirs(N) : LiesIn(w, Q, n, d)
  <2>1. PICK d \in Dirs(N) : LiesIn(v, R, n, d)
    BY <1>9 DEF Laid
  <2>2. n.pos \in NamedSpots(v, R[d]) /\ n = NodeAt(v, d, n.pos) /\ n.pos \in Spots(R[d])
    BY <2>1 DEF LiesIn, NamedSpots, EntrySpots
  <2>3. LiesIn(w, Q, n, d)
    BY <2>2, <1>8 DEF LiesIn, NodeAt
  <2> QED
    BY <2>3
<1> QED
  BY <1>2, <1>7, <1>8, <1>9 DEF Laid, Q

------------------------------------------------------------------------
(* Slots are written.                                                      *)

\* Only the slot p is written, and no cluster is linked.
SlotPut(v, w, p, s) ==
    /\ w.table = v.table /\ w.firstFree = v.firstFree /\ w.cwd = v.cwd
    /\ \A a \in Areas : a # p[1] => w.cells[a] = v.cells[a]
    /\ At(w, p) = s /\ \A q \in Position : q # p => At(w, q) = At(v, q)
    /\ Typed(w)

LEMMA PutIs ==
    ASSUME NEW v, Typed(v), NEW p \in Position, NEW s \in Slot
    PROVE  SlotPut(v, Put(v, p, s), p, s)
<1> DEFINE w == Put(v, p, s)
<1>1. Typed(w)
  BY PutTyped
<1>2. v \in Volume /\ v.cells \in [Areas -> Seq(Slot)] /\ Len(v.cells[p[1]]) = SlotsOf(p[1])
      /\ p[1] \in Areas /\ p[2] \in 1 .. SlotsOf(p[1])
  BY VolumeFields, PositionFields
<1>3. w.table = v.table /\ w.firstFree = v.firstFree /\ w.cwd = v.cwd
      /\ w.cells = [v.cells EXCEPT ![p[1]][p[2]] = s]
  BY <1>2 DEF Put, Volume
<1>4. \A a \in Areas : a # p[1] => w.cells[a] = v.cells[a]
  BY <1>2, <1>3
<1>5. w.cells[p[1]] = [v.cells[p[1]] EXCEPT ![p[2]] = s]
  BY <1>2, <1>3
<1>6. v.cells[p[1]] \in Seq(Slot) /\ DOMAIN v.cells[p[1]] = 1 .. SlotsOf(p[1])
  BY <1>2
<1>7. At(w, p) = s
  BY <1>2, <1>5, <1>6 DEF At
<1>8. ASSUME NEW q \in Position, q # p
      PROVE  At(w, q) = At(v, q)
  <2>1. q[1] \in Areas /\ q[2] \in 1 .. SlotsOf(q[1]) /\ q = <<q[1], q[2]>> /\ p = <<p[1], p[2]>>
    BY PositionFields
  <2>2. CASE q[1] # p[1]
    BY <2>1, <2>2, <1>4 DEF At
  <2>3. CASE q[1] = p[1]
    <3>1. q[2] # p[2]
      BY <2>1, <2>3, <1>8
    <3>2. w.cells[p[1]][q[2]] = v.cells[p[1]][q[2]]
      BY <3>1, <2>1, <2>3, <1>5, <1>6
    <3> QED
      BY <3>2, <2>3 DEF At
  <2> QED
    BY <2>2, <2>3
<1> QED
  BY <1>1, <1>3, <1>4, <1>7, <1>8 DEF SlotPut

LEMMA PutSame ==
    ASSUME NEW v, Typed(v), NEW p \in Position
    PROVE  Put(v, p, At(v, p)) = v
<1>1. v \in Volume /\ v.cells \in [Areas -> Seq(Slot)] /\ Len(v.cells[p[1]]) = SlotsOf(p[1])
      /\ p[1] \in Areas /\ p[2] \in 1 .. SlotsOf(p[1])
  BY VolumeFields, PositionFields
<1>2. v.cells[p[1]] \in Seq(Slot) /\ DOMAIN v.cells[p[1]] = 1 .. SlotsOf(p[1])
  BY <1>1
<1>3. [v.cells[p[1]] EXCEPT ![p[2]] = v.cells[p[1]][p[2]]] = v.cells[p[1]]
  BY <1>2
<1> DEFINE cs == v.cells
<1>4. [cs EXCEPT ![p[1]][p[2]] = cs[p[1]][p[2]]] = cs
  <2>1. [cs EXCEPT ![p[1]][p[2]] = cs[p[1]][p[2]]]
          = [cs EXCEPT ![p[1]] = [cs[p[1]] EXCEPT ![p[2]] = cs[p[1]][p[2]]]]
    OBVIOUS
  <2> QED
    BY <2>1, <1>1, <1>3
<1>5. Put(v, p, At(v, p)) = [v EXCEPT !.cells = [cs EXCEPT ![p[1]][p[2]] = cs[p[1]][p[2]]]]
  BY <1>1 DEF Put, At, Volume
<1> QED
  BY <1>1, <1>4, <1>5 DEF Volume

LEMMA BlankIs ==
    ASSUME NEW v, Typed(v), NEW c \in 2 .. PastEnd
    PROVE  LET w == Blank(v, c)
           IN  /\ Typed(w) /\ Cleared(v, w, c)
               /\ w.table = v.table /\ w.firstFree = v.firstFree /\ w.cwd = v.cwd
<1> DEFINE w == Blank(v, c)
<1>1. Typed(w)
  BY BlankTyped
<1>2. v \in Volume /\ v.cells \in [Areas -> Seq(Slot)] /\ c \in Areas /\ c # ROOT
  <2>1. c \in Areas /\ c # ROOT
    BY Numbers
  <2> QED
    BY <2>1, VolumeFields
<1>3. w.table = v.table /\ w.firstFree = v.firstFree /\ w.cwd = v.cwd
      /\ w.cells = [v.cells EXCEPT ![c] = [i \in 1 .. ClusterSlots |-> EndMark]]
  BY <1>2 DEF Blank, Volume
<1>4. ASSUME NEW p \in Position, p[1] = c
      PROVE  At(w, p) = EndMark
  <2>1. p[2] \in 1 .. ClusterSlots
    BY <1>2, <1>4, PositionFields DEF SlotsOf
  <2> QED
    BY <2>1, <1>2, <1>3, <1>4 DEF At
<1> QED
  BY <1>1, <1>2, <1>3, <1>4 DEF Cleared

------------------------------------------------------------------------
(* A place for a new entry.                                                *)

\* A slot of the directory that can take an entry.
Open(v, r, p) == p \in Spots(r) /\ At(v, p) \in {EndMark, Free} /\ Unmarked(v, r, p)

\* The directory was extended by g, and its last slot or the first of g is taken.
Extended(v, w, r, g, p) ==
    /\ r[1] # ROOT /\ g # FREE /\ Cleared(v, w, g)
    /\ (g = PastEnd /\ LedPast(v, w, LastOf(r))) \/ Lengthened(v, w, LastOf(r), g)
    /\ \/ p = <<g, 1>> /\ \A q \in Spots(r) : At(v, q) # EndMark
       \/ p[1] = LastOf(r) /\ Open(v, r, p)

GapOutcome(v, r, o) ==
    /\ Typed(o.vol) /\ o.vol.cwd = v.cwd /\ o.ok \in BOOLEAN
    /\ \/ ~o.ok /\ o.vol.table = v.table /\ o.vol.cells = v.cells
       \/ o.ok /\ o.vol = v /\ Open(v, r, o.pos)
       \/ o.ok /\ \E g : Extended(v, o.vol, r, g, o.pos)

\* A cluster for the directory: the slot after the last one.
AfterLast(v, r, o) ==
    /\ Typed(o.vol) /\ o.vol.cwd = v.cwd /\ o.ok \in BOOLEAN
    /\ o.pos \in Position
    /\ \/ ~o.ok /\ o.vol.table = v.table /\ o.vol.cells = v.cells /\ o.pos[1] = LastOf(r)
          /\ o.pos[2] = SlotsOf(LastOf(r))
       \/ /\ o.ok /\ r[1] # ROOT
          /\ \E g : /\ g # FREE /\ Cleared(v, o.vol, g) /\ o.pos = <<g, 1>> /\ g \in Areas
                    /\ (g = PastEnd /\ LedPast(v, o.vol, LastOf(r))) \/ Lengthened(v, o.vol, LastOf(r), g)

LEMMA StepOffLast ==
    ASSUME NEW v, Typed(v), NEW r, IsRun(v.table, r), NEW p \in Position,
           p[1] = LastOf(r), p[2] = SlotsOf(LastOf(r))
    PROVE  AfterLast(v, r, StepOn(v, p))
<1> DEFINE l == LastOf(r)
           o == StepOn(v, p)
<1>1. Typed(v) /\ Len(v.cells[p[1]]) = SlotsOf(p[1])
  BY VolumeFields, PositionFields DEF Typed, Firm
<1>2. LastOfArea(v, p)
  BY <1>1 DEF LastOfArea
<1>3. l \in Areas /\ l \in Table!Entry
  BY RunFields DEF LastOf
<1>4. CASE l = ROOT
  <2>1. o = Step(FALSE, v, p)
    BY <1>2, <1>4 DEF StepOn
  <2> QED
    BY <2>1 DEF AfterLast, Step
<1>5. CASE l # ROOT
  <2>1. r[1] # ROOT /\ v.table[l] = EOF
    <3>1. r[1] # ROOT
      <4>1. r = <<ROOT>> => l = ROOT
        BY DEF LastOf
      <4> QED
        BY <4>1, <1>5, RunFields
    <3> QED
      BY <3>1, RunFields DEF LastOf
  <2> DEFINE u == LinkFree(v, l).vol
             g == LinkFree(v, l).cluster
  <2>2. LinkOutcome(v, u, l, g)
    BY <1>3, <2>1, LinkFreeIs
  <2>3. o = Grown(LinkFree(v, l), p)
    BY <1>2, <1>5, <2>1 DEF StepOn
  <2>4. o = IF g = FREE THEN Step(FALSE, u, p) ELSE Step(TRUE, Blank(u, g), <<g, 1>>)
    BY <2>3 DEF Grown
  <2> HIDE DEF u, g, o, l
  <2>5. CASE g = FREE
    <3>1. o.ok = FALSE /\ o.vol = u /\ o.pos = p
      BY <2>4, <2>5 DEF Step
    <3>2. u.table = v.table /\ u.cells = v.cells /\ u.cwd = v.cwd /\ Typed(u)
      <4>1. FREE # PastEnd /\ FREE \notin Cluster
        BY Numbers
      <4> QED
        BY <2>2, <2>5, <4>1 DEF LinkOutcome, NothingLeft, Lengthened
    <3> QED
      BY <3>1, <3>2 DEF AfterLast, l, o
  <2>6. CASE g # FREE
    <3>1. o.ok = TRUE /\ o.vol = Blank(u, g) /\ o.pos = <<g, 1>>
      BY <2>4, <2>6 DEF Step
    <3>2. /\ Typed(u) /\ u.cells = v.cells /\ u.cwd = v.cwd
          /\ (g = PastEnd /\ LedPast(v, u, l)) \/ Lengthened(v, u, l, g)
      BY <2>2, <2>6 DEF LinkOutcome
    <3>3. g \in 2 .. PastEnd /\ g \in Areas
      BY <3>2, Numbers DEF Lengthened
    <3> DEFINE w == Blank(u, g)
    <3>4. /\ Typed(w) /\ Cleared(u, w, g)
          /\ w.table = u.table /\ w.firstFree = u.firstFree /\ w.cwd = u.cwd
      BY <3>2, <3>3, BlankIs DEF Typed, Firm
    <3> HIDE DEF w
    <3>5. Typed(w) /\ Cleared(v, w, g)
      BY <3>2, <3>4 DEF Typed, Firm, Full, Cleared
    <3>6. (g = PastEnd /\ LedPast(v, w, l)) \/ Lengthened(v, w, l, g)
      BY <3>2, <3>4 DEF LedPast, Lengthened, Full
    <3>7. <<g, 1>> \in Position
      <4>1. 1 \in 1 .. SlotsOf(g)
        BY <3>3, SlotsOfIsPositive
      <4> QED
        BY <4>1, <3>3, IsPosition
    <3>8. o.vol = w /\ o.pos = <<g, 1>> /\ o.ok
      BY <3>1 DEF w
    <3> QED
      BY <2>1, <2>6, <3>2, <3>3, <3>4, <3>5, <3>6, <3>7, <3>8 DEF AfterLast, l, o
  <2> QED
    BY <2>5, <2>6
<1> QED
  BY <1>4, <1>5

\* Where the slot after p lies.
LEMMA NextSpot ==
    ASSUME NEW v, Typed(v), NEW r, IsRun(v.table, r), NEW p \in Spots(r)
    PROVE  \/ /\ p[2] < SlotsOf(p[1]) /\ <<p[1], p[2] + 1>> \in Spots(r)
              /\ Before(r, p, <<p[1], p[2] + 1>>)
           \/ p[2] = SlotsOf(p[1]) /\ p[1] = LastOf(r)
           \/ /\ p[2] = SlotsOf(p[1]) /\ p[1] # ROOT /\ v.table[p[1]] # EOF
              /\ Area(v.table[p[1]]) = v.table[p[1]]
              /\ <<v.table[p[1]], 1>> \in Spots(r) /\ Before(r, p, <<v.table[p[1]], 1>>)
<1>1. p \in Position /\ p[1] \in Areas /\ p[2] \in 1 .. SlotsOf(p[1]) /\ p = <<p[1], p[2]>>
      /\ SlotsOf(p[1]) \in Nat
  BY SpotArea, PositionFields, SlotsOfIsPositive
<1>2. PICK k \in 1 .. Len(r) : p[1] = r[k]
  BY DEF Spots, SpotsTo
<1>3. Len(r) \in Nat /\ Len(r) \in 1 .. Len(r)
  BY RunFields
<1>4. CASE p[2] # SlotsOf(p[1])
  <2>1. p[2] < SlotsOf(p[1]) /\ p[2] + 1 \in 1 .. SlotsOf(p[1])
    BY <1>1, <1>4
  <2> DEFINE q == <<p[1], p[2] + 1>>
  <2>2. q \in Position
    BY <2>1, <1>1, IsPosition
  <2>3. q[1] = p[1] /\ q[2] = p[2] + 1 /\ p[2] < q[2]
    BY <2>1, <1>1
  <2> HIDE DEF q
  <2>4. q \in Spots(r)
    BY <2>2, <2>3, <1>2 DEF Spots, SpotsTo
  <2>5. Before(r, p, q)
    BY <2>3, <1>2 DEF Before
  <2> QED
    BY <2>1, <2>4, <2>5 DEF q
<1>5. CASE p[2] = SlotsOf(p[1]) /\ k # Len(r)
  <2>1. k \in 1 .. Len(r) - 1 /\ k + 1 \in 1 .. Len(r) /\ k < k + 1
    BY <1>3, <1>5
  <2>2. r # <<ROOT>>
    <3>1. CASE r = <<ROOT>>
      <4>1. Len(r) = 1
        BY <3>1
      <4> QED
        BY <4>1, <2>1
    <3> QED
      BY <3>1
  <2>3. Seg(v.table, r)
    BY <2>2 DEF IsRun
  <2>4. v.table[p[1]] = r[k + 1] /\ r[k] \in Cluster /\ r[k + 1] \in Cluster
    BY <2>1, <2>3, <1>2, SegFields DEF Seg
  <2>5. r[k] # ROOT /\ r[k + 1] # EOF
    BY <2>4, Numbers
  <2>6. Area(r[k + 1]) = r[k + 1] /\ r[k + 1] \in Areas
    BY <2>1, RunFields
  <2> DEFINE q == <<r[k + 1], 1>>
  <2>7. q \in Position
    <3>1. 1 \in 1 .. SlotsOf(r[k + 1])
      BY <2>6, SlotsOfIsPositive
    <3> QED
      BY <3>1, <2>6, IsPosition
  <2>8. q[1] = r[k + 1]
    OBVIOUS
  <2> HIDE DEF q
  <2>9. q \in Spots(r)
    BY <2>1, <2>7, <2>8 DEF Spots, SpotsTo
  <2> DEFINE j == k + 1
  <2>10. j \in 1 .. Len(r) /\ k < j /\ q[1] = r[j]
    BY <2>1, <2>8
  <2> HIDE DEF j
  <2>11. Before(r, p, q)
    BY <2>10, <1>2 DEF Before
  <2> QED
    BY <2>4, <2>5, <2>6, <2>9, <2>11, <1>2, <1>5 DEF q
<1>6. CASE p[2] = SlotsOf(p[1]) /\ k = Len(r)
  BY <1>2, <1>6 DEF LastOf
<1> QED
  BY <1>4, <1>5, <1>6

\* The end mark p gives way when there is a slot after it.
LEMMA AtMarkIs ==
    ASSUME NEW v, Typed(v), NEW d, NEW up, NEW r, Neat(v, d, up, r),
           NEW p, Open(v, r, p), At(v, p) = EndMark
    PROVE  GapOutcome(v, r, AtMark(v, p))
<1> DEFINE o == StepOn(v, p)
<1>1. IsRun(v.table, r) /\ Typed(v)
  BY DEF Neat, Typed, Firm
<1>2. p \in Spots(r) /\ p \in Position /\ p[1] \in Areas /\ p = <<p[1], p[2]>>
  BY SpotArea, PositionFields DEF Open
<1>3. LastOfArea(v, p) <=> p[2] = SlotsOf(p[1])
  BY <1>1, <1>2, VolumeFields DEF LastOfArea
<1>4. AtMark(v, p) = Step(o.ok, Put(o.vol, o.pos, EndMark), p)
  BY DEF AtMark, MarkedAfter
<1>5. ASSUME NEW q \in Spots(r), Before(r, p, q), o = Step(TRUE, v, q)
      PROVE  GapOutcome(v, r, AtMark(v, p))
  <2>1. At(v, q) = EndMark /\ q \in Position
    BY <1>2, <1>5, SpotArea DEF Neat
  <2>2. Put(v, q, EndMark) = v
    BY <2>1, <1>1, PutSame
  <2>3. AtMark(v, p) = Step(TRUE, v, p)
    BY <2>2, <1>4, <1>5 DEF Step
  <2> QED
    BY <2>3 DEF Step, GapOutcome
<1>6. CASE p[2] < SlotsOf(p[1]) /\ <<p[1], p[2] + 1>> \in Spots(r) /\ Before(r, p, <<p[1], p[2] + 1>>)
  <2>1. ~LastOfArea(v, p)
    <3>1. SlotsOf(p[1]) \in Nat /\ p[2] \in Nat
      BY <1>2, SlotsOfIsPositive, PositionFields
    <3> QED
      BY <3>1, <1>3, <1>6
  <2>2. o = Step(TRUE, v, <<p[1], p[2] + 1>>)
    BY <2>1 DEF StepOn
  <2> HIDE DEF o
  <2> QED
    BY <2>2, <1>5, <1>6
<1>7. CASE /\ p[2] = SlotsOf(p[1]) /\ p[1] # ROOT /\ v.table[p[1]] # EOF
           /\ Area(v.table[p[1]]) = v.table[p[1]]
           /\ <<v.table[p[1]], 1>> \in Spots(r) /\ Before(r, p, <<v.table[p[1]], 1>>)
  <2>1. o = Step(TRUE, v, <<v.table[p[1]], 1>>)
    BY <1>3, <1>7 DEF StepOn
  <2> HIDE DEF o
  <2> QED
    BY <2>1, <1>5, <1>7
<1>8. CASE p[2] = SlotsOf(p[1]) /\ p[1] = LastOf(r)
  <2>1. AfterLast(v, r, o)
    BY <1>1, <1>2, <1>8, StepOffLast
  <2> HIDE DEF o
  <2>2. o.pos \in Position /\ Typed(o.vol) /\ Typed(o.vol) /\ o.vol.cwd = v.cwd /\ o.ok \in BOOLEAN
    BY <2>1 DEF AfterLast, Typed, Firm
  <2>3. At(o.vol, o.pos) = EndMark
    <3>1. CASE ~o.ok
      <4>1. o.vol.cells = v.cells /\ o.pos[1] = p[1] /\ o.pos[2] = p[2]
        BY <2>1, <3>1, <1>8 DEF AfterLast
      <4> QED
        BY <4>1 DEF At
    <3>2. CASE o.ok
      <4>1. PICK g : Cleared(v, o.vol, g) /\ o.pos = <<g, 1>>
        BY <2>1, <3>2 DEF AfterLast
      <4> QED
        BY <4>1, <2>2 DEF Cleared
    <3> QED
      BY <3>1, <3>2
  <2>4. Put(o.vol, o.pos, EndMark) = o.vol
    BY <2>2, <2>3, PutSame
  <2>5. AtMark(v, p) = Step(o.ok, o.vol, p)
    BY <2>4, <1>4
  <2>6. GapOutcome(v, r, Step(o.ok, o.vol, p))
    <3>1. CASE ~o.ok
      BY <2>1, <2>2, <3>1 DEF AfterLast, GapOutcome, Step
    <3>2. CASE o.ok
      <4>1. PICK g : g # FREE /\ Cleared(v, o.vol, g)
                     /\ ((g = PastEnd /\ LedPast(v, o.vol, LastOf(r))) \/ Lengthened(v, o.vol, LastOf(r), g))
        BY <2>1, <3>2 DEF AfterLast
      <4>2. r[1] # ROOT
        BY <2>1, <3>2 DEF AfterLast
      <4>3. Extended(v, o.vol, r, g, p)
        BY <4>1, <4>2, <1>8 DEF Extended
      <4> QED
        BY <4>3, <2>2, <3>2 DEF GapOutcome, Step
    <3> QED
      BY <3>1, <3>2
  <2> QED
    BY <2>5, <2>6
<1> QED
  BY <1>1, <1>2, <1>6, <1>7, <1>8, NextSpot

\* A slot is not before one that is before it.
LEMMA BeforeIsOrder ==
    ASSUME NEW t, NEW r, IsRun(t, r), NEW p \in Spots(r), NEW q \in Spots(r),
           Before(r, p, q), Before(r, q, p)
    PROVE  FALSE
<1>1. PICK a, b \in 1 .. Len(r) : p[1] = r[a] /\ q[1] = r[b] /\ (a < b \/ (a = b /\ p[2] < q[2]))
  BY DEF Before
<1>2. PICK x, y \in 1 .. Len(r) : q[1] = r[x] /\ p[1] = r[y] /\ (x < y \/ (x = y /\ q[2] < p[2]))
  BY DEF Before
<1>3. \A m, n \in 1 .. Len(r) : r[m] = r[n] => m = n
  BY RunFields
<1>4. a = y /\ b = x
  BY <1>1, <1>2, <1>3
<1>5. p[2] \in Nat /\ q[2] \in Nat
  BY SpotArea, PositionFields, SlotsOfIsPositive
<1> QED
  BY <1>1, <1>2, <1>4, <1>5

LEMMA FindEntryGapIs ==
    ASSUME NEW v, Typed(v), NEW d, NEW up, NEW r, Neat(v, d, up, r)
    PROVE  GapOutcome(v, r, FindEntryGap(v, d.entry.cluster))
<1> DEFINE s == Slots(v, d.entry.cluster)
           gaps == {i \in DOMAIN s : At(v, s[i]) \in {EndMark, Free}}
<1>1. IsRun(v.table, r) /\ Typed(v)
  BY DEF Neat, Typed, Firm
<1>2. s \in Walks /\ DOMAIN s = 1 .. Len(s) /\ Spelled(r, Len(r), s)
  BY <1>1, NeatListing
<1>3. FindEntryGap(v, d.entry.cluster) = GapAmong(v, s)
  BY DEF FindEntryGap
<1> HIDE DEF s
<1>4. CASE gaps = {}
  <2> DEFINE p == Last(s)
             o == StepOn(v, p)
  <2>1. GapAmong(v, s) = BehindLast(o)
    BY <1>4 DEF GapAmong
  <2>2. p = <<LastOf(r), SlotsOf(LastOf(r))>> /\ p \in Position
    <3>1. s[Len(s)] \in Position
      BY <1>2 DEF Walks
    <3> QED
      BY <3>1, <1>2 DEF Spelled, LastOf, Last
  <2>3. AfterLast(v, r, o)
    BY <1>1, <2>2, StepOffLast
  <2> HIDE DEF o
  <2>4. o.pos \in Position /\ Typed(o.vol) /\ Typed(o.vol) /\ o.vol.cwd = v.cwd /\ o.ok \in BOOLEAN
    BY <2>3 DEF AfterLast, Typed, Firm
  <2>5. CASE ~o.ok
    <3>1. GapAmong(v, s) = o
      BY <2>1, <2>5 DEF BehindLast
    <3> QED
      BY <3>1, <2>3, <2>4, <2>5, <1>3 DEF AfterLast, GapOutcome
  <2>6. CASE o.ok
    <3> DEFINE w == o.vol
    <3>1. PICK g : /\ g # FREE /\ Cleared(v, w, g) /\ o.pos = <<g, 1>> /\ g \in Areas
                   /\ (g = PastEnd /\ LedPast(v, w, LastOf(r))) \/ Lengthened(v, w, LastOf(r), g)
      BY <2>3, <2>6 DEF AfterLast
    <3>2. r[1] # ROOT /\ g # ROOT
      <4>1. ROOT = FREE
        BY Numbers
      <4> QED
        BY <2>3, <2>6, <3>1, <4>1 DEF AfterLast
    <3>3. GapAmong(v, s) = AtMark(w, <<g, 1>>)
      BY <2>1, <2>6, <3>1 DEF BehindLast
    <3>4. SlotsOf(g) >= 2 /\ SlotsOf(g) \in Nat
      BY <3>1, SlotsOfIsPositive
    <3> DEFINE q1 == <<g, 1>>
               q == <<g, 2>>
    <3>5. q1 \in Position /\ q \in Position /\ q[1] = g /\ q1[1] = g /\ q1[2] = 1
      <4>1. 1 \in 1 .. SlotsOf(g) /\ 2 \in 1 .. SlotsOf(g)
        BY <3>4
      <4> QED
        BY <4>1, <3>1, IsPosition
    <3>6. ~LastOfArea(w, q1)
      <4>1. Len(w.cells[g]) = SlotsOf(g)
        BY <2>4, <3>1, VolumeFields
      <4> HIDE DEF q1, w
      <4>2. Len(w.cells[q1[1]]) = SlotsOf(g)
        BY <4>1, <3>5
      <4>3. q1[2] # SlotsOf(g)
        BY <3>4, <3>5
      <4> QED
        BY <4>2, <4>3 DEF LastOfArea
    <3>7. StepOn(w, q1) = Step(TRUE, w, q)
      BY <3>6 DEF StepOn
    <3>8. At(w, q) = EndMark
      BY <3>1, <3>5 DEF Cleared
    <3>9. Put(w, q, EndMark) = w
      BY <2>4, <3>5, <3>8, PutSame
    <3>10. AtMark(w, q1) = Step(TRUE, w, q1)
      <4> DEFINE next == StepOn(w, q1)
      <4>1. next.ok = TRUE /\ next.vol = w /\ next.pos = q
        BY <3>7 DEF Step
      <4> HIDE DEF q1, w, q, next
      <4>2. MarkedAfter(q1, next) = Step(TRUE, w, q1)
        BY <4>1, <3>9 DEF MarkedAfter
      <4> QED
        BY <4>2 DEF AtMark, next
    <3>11. Extended(v, w, r, g, q1)
      <4>1. ASSUME NEW a \in Spots(r)
            PROVE  At(v, a) # EndMark
        <5>1. PICK i \in 1 .. Len(s) : s[i] = a
          BY <1>2 DEF Spelled, Spots
        <5> QED
          BY <5>1, <1>2, <1>4
      <4> HIDE DEF w
      <4> QED
        BY <3>1, <3>2, <4>1 DEF Extended
    <3> HIDE DEF q1, w
    <3>12. GapOutcome(v, r, Step(TRUE, w, q1))
      BY <3>11, <2>4 DEF GapOutcome, Step, w
    <3> QED
      BY <3>3, <3>10, <3>12, <1>3 DEF q1
  <2> QED
    BY <2>4, <2>5, <2>6
<1>5. CASE gaps # {}
  <2> DEFINE i == Min(gaps)
             p == s[i]
  <2>1. gaps \in SUBSET Nat
    BY <1>2 DEF Walks
  <2>2. i \in gaps /\ \A j \in gaps : i <= j
    <3> HIDE DEF gaps
    <3> QED BY <2>1, <1>5, MinIsLeast
  <2>3. GapAmong(v, s) = IF At(v, p) = Free THEN Step(TRUE, v, p) ELSE AtMark(v, p)
    BY <1>5 DEF GapAmong
  <2>4. i \in 1 .. Len(s) /\ At(v, p) \in {EndMark, Free} /\ Len(s) \in Nat
    BY <2>2, <1>2 DEF Walks
  <2>5. \A j \in 1 .. Len(s) : At(v, s[j]) = EndMark => i <= j
    BY <2>2, <1>2
  <2> HIDE DEF i, gaps
  <2>6. p \in Spots(r)
    BY <2>4, <1>2 DEF Spelled, Spots
  <2>7. Unmarked(v, r, p)
    <3>1. SUFFICES ASSUME NEW q \in Spots(r), Before(r, q, p), At(v, q) = EndMark
                   PROVE  FALSE
      BY DEF Unmarked
    <3>2. PICK j \in 1 .. Len(s) : s[j] = q
      BY <1>2 DEF Spelled, Spots
    <3>3. i <= j
      BY <2>5, <3>1, <3>2
    <3>4. CASE i = j
      <4>1. Before(r, p, p)
        BY <3>1, <3>2, <3>4
      <4> QED
        BY <4>1, <2>6, <1>1, BeforeIsOrder
    <3>5. CASE i < j
      <4>1. Before(r, p, q)
        BY <3>2, <3>5, <2>4, <1>2 DEF Spelled
      <4> HIDE DEF p
      <4> QED
        BY <4>1, <3>1, <2>6, <1>1, BeforeIsOrder
    <3> QED
      BY <3>3, <3>4, <3>5, <2>4
  <2>8. Open(v, r, p)
    BY <2>4, <2>6, <2>7 DEF Open
  <2> HIDE DEF p
  <2>9. CASE At(v, p) = Free
    <3>1. GapAmong(v, s) = Step(TRUE, v, p)
      BY <2>3, <2>9
    <3> QED
      BY <3>1, <2>8, <1>3 DEF GapOutcome, Step
  <2>10. CASE At(v, p) # Free
    <3>1. GapAmong(v, s) = AtMark(v, p) /\ At(v, p) = EndMark
      BY <2>3, <2>4, <2>10
    <3> QED
      BY <3>1, <2>8, <1>3, AtMarkIs
  <2> QED
    BY <2>9, <2>10
<1> QED
  BY <1>4, <1>5

\* The directory has a slot for the entry, or the slot lies in a cluster that no
\* link leads to.
Unseen(w, Q, p) ==
    /\ p[1] \notin Held(Q) /\ LastCluster \in Held(Q)
    /\ \/ p[1] = PastEnd /\ Full(w) /\ w.firstFree = PastEnd
       \/ p[1] \in Cluster /\ w.table[p[1]] = EOF
\* Outside A no entry in use has changed.
UsedStays(v, w, A) ==
    \A a \in Table!Entry \ A : v.table[a] # FREE => w.table[a] = v.table[a]
Settled(v, w, N, R, Q, D, p) ==
    /\ Laid(w, N, Q) /\ DOMAIN Q = DOMAIN R
    /\ \A n \in DOMAIN R : n # D => Q[n] = R[n]
    /\ \A n \in DOMAIN R : ~n.entry.dir => Same(v, w, Members(R[n]))
    /\ p \in Position
    /\ Open(w, Q[D], p) \/ Unseen(w, Q, p)
    /\ Held(R) \subseteq Held(Q) /\ \A a \in Held(Q) : a \in Held(R) \/ v.table[a] = FREE
    /\ UsedStays(v, w, Held(Q))

\* The directory goes on in the entry past the table.
LinkedPast(v, w, R, D, p) ==
    /\ D # Top /\ LastOf(R[D]) < LastCluster
    /\ w.table = [v.table EXCEPT ![LastOf(R[D])] = PastEnd]
    /\ Full(w) /\ w.firstFree = PastEnd /\ Cleared(v, w, PastEnd)
    /\ p = <<PastEnd, 1>> \/ (p[1] = LastOf(R[D]) /\ Open(v, R[D], p))

LEMMA OpenSame ==
    ASSUME NEW v, NEW w, NEW r, Same(v, w, Members(r)), NEW p, Open(v, r, p)
    PROVE  Open(w, r, p)
<1>1. \A q \in Spots(r) : At(w, q) = At(v, q)
  BY SameSpots
<1> QED
  BY <1>1 DEF Open, Unmarked

LEMMA SettledAsItIs ==
    ASSUME NEW v, NEW w, NEW N, NEW R, Laid(v, N, R), NEW D \in Dirs(N), Same(v, w, Held(R)),
           UsedStays(v, w, Held(R)), NEW p \in Position, Open(v, R[D], p) \/ Unseen(w, R, p)
    PROVE  Settled(v, w, N, R, R, D, p)
<1>1. Laid(w, N, R)
  BY Frame
<1>2. \A n \in DOMAIN R : Same(v, w, Members(R[n]))
  BY HeldAre DEF Same
<1>3. Same(v, w, Members(R[D]))
  BY <1>2, RunOfDir
<1>4. Open(w, R[D], p) \/ Unseen(w, R, p)
  BY <1>3, OpenSame
<1> QED
  BY <1>1, <1>2, <1>4 DEF Settled

LEMMA SettledGrown ==
    ASSUME NEW v, Typed(v), NEW w, NEW N, NEW R, Laid(v, N, R), NEW D \in Dirs(N), NEW g,
           GrowsBy(v, w, R, D, g), NEW p,
           \/ p = <<g, 1>> /\ \A q \in Spots(R[D]) : At(v, q) # EndMark
           \/ Open(v, R[D], p)
    PROVE  Settled(v, w, N, R, Longer1(R, D, g), D, p)
<1> DEFINE Q == Longer1(R, D, g)
           r == R[D]
           q == Append(r, g)
<1>1. Laid(w, N, Q)
  BY Grow
<1>2. D \in DOMAIN R /\ D.entry.dir
  BY RunOfDir
<1>3. DOMAIN Q = DOMAIN R /\ Q[D] = q /\ \A n \in DOMAIN R : n # D => Q[n] = R[n]
  BY <1>2 DEF Longer1
<1>4. Untouched(v, w, R, r, g)
  BY GrowsElsewhere
<1>5. ASSUME NEW n \in DOMAIN R, ~n.entry.dir
      PROVE  Same(v, w, Members(R[n]))
  <2>1. n # D /\ Members(R[n]) \subseteq Held(R)
    BY <1>2, <1>5, HeldAre
  <2>2. Members(R[n]) \cap Members(R[D]) = {}
    BY <2>1, <1>2 DEF Laid, RunsApart
  <2> QED
    BY <2>1, <2>2, <1>4 DEF Untouched, Same
<1>6. PICK u \in N : Neat(v, D, u.entry.cluster, r)
  BY DEF Laid, Orderly
<1>7. NeatAfter(v, w, D, u.entry.cluster, r, g, q)
  <2> DEFINE k == u.entry.cluster
  <2>1. Neat(v, D, k, R[D])
    BY <1>6
  <2> HIDE DEF k
  <2> QED
    BY <2>1, GrowNeat DEF k
<1>8. Open(w, Q[D], p) /\ p \in Position
  <2>1. /\ \A a \in Spots(r) : a \in Spots(q) /\ At(w, a) = At(v, a)
        /\ \A a \in Position : a \in Spots(q) <=> a \in Spots(r) \/ a[1] = g
        /\ \A a, b \in Spots(r) : Before(q, a, b) => Before(r, a, b)
        /\ \A a, b \in Position : a[1] = g /\ Before(q, a, b) => b[1] = g
        /\ <<g, 1>> \in Spots(q)
    BY <1>7 DEF NeatAfter, SpotsAfter
  <2>2. \A a \in Position : a[1] = g => At(w, a) = EndMark
    BY DEF GrowsBy, Cleared
  <2>3. \A a \in Spots(q) : a \in Position
    BY SpotArea
  <2>4. \A a \in Spots(r) : a \in Position /\ a[1] # g
    <3>1. g \notin Members(r)
      BY <1>4, RunOfDir DEF Untouched
    <3> QED
      BY <3>1, SpotArea
  <2>5. Q[D] = q
    BY <1>3
  <2> HIDE DEF q, r
  <2>6. CASE p = <<g, 1>> /\ \A a \in Spots(r) : At(v, a) # EndMark
    <3>1. p \in Spots(q) /\ p \in Position /\ p[1] = g /\ At(w, p) = EndMark
      BY <2>1, <2>2, <2>3, <2>6
    <3>2. ASSUME NEW a \in Spots(q), Before(q, a, p)
          PROVE  At(w, a) # EndMark
      <4>1. CASE a \in Spots(r)
        BY <4>1, <2>1, <2>6
      <4>2. CASE a[1] = g
        <5>1. Before(q, a, <<g, 1>>)
          BY <3>2, <2>6
        <5>2. FALSE
          <6>1. PICK i, j \in 1 .. Len(q) : a[1] = q[i] /\ g = q[j] /\ (i < j \/ (i = j /\ a[2] < 1))
            BY <5>1 DEF Before
          <6>2. \A k, m \in 1 .. Len(q) : q[k] = q[m] => k = m
            BY <1>7 DEF NeatAfter, Appended, Seg
          <6>3. i = j
            BY <6>1, <6>2, <4>2
          <6>4. a[2] \in Nat /\ a[2] >= 1
            BY <2>3, PositionFields, SlotsOfIsPositive
          <6> QED
            BY <6>1, <6>3, <6>4
        <5> QED
          BY <5>2
      <4> QED
        BY <4>1, <4>2, <2>1, <2>3
    <3> QED
      BY <3>1, <3>2, <2>5 DEF Open, Unmarked
  <2>7. CASE Open(v, R[D], p)
    <3>1. p \in Spots(r) /\ At(v, p) \in {EndMark, Free} /\ Unmarked(v, r, p)
      BY <2>7 DEF Open, r
    <3>2. p \in Spots(q) /\ p \in Position /\ At(w, p) \in {EndMark, Free}
      BY <3>1, <2>1, <2>3
    <3>3. ASSUME NEW a \in Spots(q), Before(q, a, p)
          PROVE  At(w, a) # EndMark
      <4>1. a \in Position /\ a[1] # g
        BY <2>1, <2>3, <2>4, <3>1, <3>2, <3>3
      <4>2. a \in Spots(r)
        BY <4>1, <2>1, <3>3
      <4>3. Before(r, a, p)
        BY <4>2, <2>1, <3>1, <3>3
      <4> QED
        BY <4>2, <4>3, <2>1, <3>1 DEF Unmarked
    <3> QED
      BY <3>2, <3>3, <2>5 DEF Open, Unmarked
  <2> QED
    BY <2>6, <2>7 DEF r
<1>9. Held(Q) = Held(R) \cup {g}
  <2>1. Members(Q[D]) = Members(R[D]) \cup {g}
    BY <1>3, <1>7 DEF NeatAfter, Appended
  <2> QED
    BY <2>1, <1>2, <1>3 DEF Held
<1>10. v.table[g] = FREE /\ UsedStays(v, w, Held(Q))
  <2>1. LastOf(R[D]) \in Held(Q) /\ g \in Held(Q)
    BY <1>2, <1>4, <1>9, HeldAre DEF Untouched
  <2>2. Lengthened(v, w, LastOf(R[D]), g)
    BY DEF GrowsBy
  <2> HIDE DEF Q, q
  <2> QED
    BY <2>1, <2>2 DEF Lengthened, UsedStays
<1>11. Held(R) \subseteq Held(Q) /\ \A a \in Held(Q) : a \in Held(R) \/ v.table[a] = FREE
  BY <1>9, <1>10
<1> HIDE DEF Q, q
<1> QED
  BY <1>1, <1>3, <1>5, <1>8, <1>10, <1>11 DEF Settled, Q

\* What the search for a slot comes to when it finds one.
LEMMA GapSettles ==
    ASSUME NEW v, Typed(v), NEW N, NEW R, Laid(v, N, R), NEW D \in Dirs(N),
           NEW o, GapOutcome(v, R[D], o), o.ok
    PROVE  (\E Q : Settled(v, o.vol, N, R, Q, D, o.pos)) \/ LinkedPast(v, o.vol, R, D, o.pos)
<1> DEFINE r == R[D]
           w == o.vol
           p == o.pos
           l == LastOf(r)
<1>1. CASE w = v /\ Open(v, r, p)
  <2>1. p \in Position
    BY <1>1, SpotArea DEF Open
  <2>2. Same(v, w, Held(R)) /\ UsedStays(v, w, Held(R))
    BY <1>1 DEF Same, UsedStays
  <2> HIDE DEF w, p
  <2>3. Settled(v, w, N, R, R, D, p)
    BY <1>1, <2>1, <2>2, SettledAsItIs
  <2> QED
    BY <2>3 DEF w, p
<1>2. ASSUME NEW g, Extended(v, w, r, g, p)
      PROVE  (\E Q : Settled(v, w, N, R, Q, D, p)) \/ LinkedPast(v, w, R, D, p)
  <2>1. D # Top
    <3>1. D = Top => r[1] = ROOT
      BY RunOfTop
    <3> QED
      BY <3>1, <1>2 DEF Extended
  <2>2. D \in DOMAIN R /\ Members(r) \subseteq Held(R) /\ Seg(v.table, r)
    BY <2>1, RunOfDir, RunOf
  <2>3. l \in Members(r) /\ l \in Cluster
    BY <2>2, SegFields DEF LastOf
  <2> HIDE DEF r, w, p
  <2>4. /\ Cleared(v, w, g) /\ g # FREE
        /\ (g = PastEnd /\ LedPast(v, w, l)) \/ Lengthened(v, w, l, g)
        /\ \/ p = <<g, 1>> /\ \A q \in Spots(r) : At(v, q) # EndMark
           \/ p[1] = l /\ Open(v, r, p)
    BY <1>2 DEF Extended
  <2>5. CASE l < LastCluster /\ g = PastEnd /\ LedPast(v, w, l)
    <3>1. LinkedPast(v, w, R, D, p)
      BY <2>1, <2>3, <2>4, <2>5 DEF LinkedPast, LedPast, r
    <3> QED
      BY <3>1
  <2>6. CASE l < LastCluster /\ Lengthened(v, w, l, g)
    <3>1. GrowsBy(v, w, R, D, g)
      BY <2>1, <2>4, <2>6 DEF GrowsBy, r
    <3>2. Settled(v, w, N, R, Longer1(R, D, g), D, p)
      BY <3>1, <2>4, SettledGrown DEF r
    <3> QED
      BY <3>2
  <2>7. CASE ~(l < LastCluster)
    <3>1. l = LastCluster
      BY <2>3, <2>7, Numbers
    <3>2. g \in Areas /\ g \in {PastEnd} \cup Cluster /\ g \notin Held(R)
      <4>1. \A c \in {PastEnd} \cup Cluster : c \in Areas
        BY Numbers
      <4>2. CASE g = PastEnd
        BY <4>1, <4>2, HeldIsUsed
      <4>3. CASE Lengthened(v, w, l, g)
        BY <4>1, <4>3, HeldIsUsed DEF Lengthened
      <4> QED
        BY <2>4, <4>2, <4>3
    <3>3. Same(v, w, Held(R))
      <4>1. \A a \in Held(R) : a # g /\ a \in Areas /\ a \in Table!Entry
        BY <3>2, HeldIsUsed
      <4>2. \A a \in Held(R) : w.cells[a] = v.cells[a]
        BY <4>1, <2>4 DEF Cleared
      <4>3. CASE LedPast(v, w, l)
        <5>1. v.table \in [Table!Entry -> Table!Value]
          BY VolumeFields DEF Typed, Firm
        <5>2. w.table = [v.table EXCEPT ![l] = @]
          BY <4>3, <2>7 DEF LedPast
        <5>3. w.table = v.table
          BY <5>1, <5>2
        <5> QED
          BY <5>3, <4>2 DEF Same
      <4>4. CASE Lengthened(v, w, l, g)
        <5>1. \A a \in Held(R) : w.table[a] = v.table[a]
          BY <4>1, <4>4, <2>7 DEF Lengthened
        <5> QED
          BY <5>1, <4>2 DEF Same
      <4> QED
        BY <4>3, <4>4, <2>4
    <3>4. p \in Position /\ (Open(v, R[D], p) \/ Unseen(w, R, p))
      <4>1. CASE Open(v, r, p)
        BY <4>1, SpotArea DEF Open, r
      <4>2. CASE p = <<g, 1>>
        <5>1. 1 \in 1 .. SlotsOf(g)
          BY <3>2, SlotsOfIsPositive
        <5>2. p \in Position /\ p[1] = g
          BY <5>1, <3>2, <4>2, IsPosition
        <5>3. LastCluster \in Held(R)
          BY <2>2, <2>3, <3>1
        <5>4. \/ g = PastEnd /\ Full(w) /\ w.firstFree = PastEnd
              \/ g \in Cluster /\ w.table[g] = EOF
          BY <2>4 DEF LedPast, Lengthened
        <5> QED
          BY <5>2, <5>3, <5>4, <3>2 DEF Unseen
      <4> QED
        BY <4>1, <4>2, <2>4
    <3>6. UsedStays(v, w, Held(R))
      <4>1. l \in Held(R)
        BY <2>2, <2>3
      <4>2. v.table \in [Table!Entry -> Table!Value]
        BY VolumeFields DEF Typed, Firm
      <4> HIDE DEF l
      <4> QED
        BY <2>4, <4>1, <4>2 DEF LedPast, Lengthened, UsedStays
    <3>5. Settled(v, w, N, R, R, D, p)
      BY <3>3, <3>4, <3>6, SettledAsItIs
    <3> QED
      BY <3>5
  <2> QED
    BY <2>4, <2>5, <2>6, <2>7
<1> QED
  BY <1>1, <1>2 DEF GapOutcome
------------------------------------------------------------------------
(* Every sound volume is laid out so.                                      *)

\* From c link by link.
Linking(t, c, r) ==
    /\ r \in Seq(Cluster) /\ Len(r) >= 1 /\ r[1] = c
    /\ \A k \in 1 .. Len(r) - 1 : t[r[k]] = r[k + 1]

LEMMA LinkedOn ==
    ASSUME NEW t, NEW c \in Cluster, NEW e \in Table!Chain(t, c)
    PROVE  \E r : Linking(t, c, r) /\ r[Len(r)] = e
<1> DEFINE S == {d \in Cluster : \E r : Linking(t, c, r) /\ r[Len(r)] = d}
<1>1. c \in S
  <2>1. <<c>> \in Seq(Cluster) /\ Len(<<c>>) = 1 /\ <<c>>[1] = c
    OBVIOUS
  <2>2. Linking(t, c, <<c>>)
    BY <2>1 DEF Linking
  <2> QED
    BY <2>1, <2>2
<1>2. ASSUME NEW d \in S, t[d] \in Cluster
      PROVE  t[d] \in S
  <2>1. PICK r : Linking(t, c, r) /\ r[Len(r)] = d
    OBVIOUS
  <2> DEFINE q == Append(r, t[d])
  <2>2. /\ q \in Seq(Cluster) /\ Len(q) = Len(r) + 1 /\ q[Len(r) + 1] = t[d]
        /\ \A k \in 1 .. Len(r) : q[k] = r[k]
        /\ Len(r) \in Nat /\ Len(r) >= 1
    BY <2>1, <1>2 DEF Linking
  <2> HIDE DEF q
  <2>3. ASSUME NEW k \in 1 .. Len(q) - 1
        PROVE  t[q[k]] = q[k + 1]
    <3>1. CASE k = Len(r)
      BY <3>1, <2>1, <2>2
    <3>2. CASE k # Len(r)
      <4>1. k \in 1 .. Len(r) - 1 /\ k + 1 \in 1 .. Len(r) /\ k \in 1 .. Len(r)
        BY <3>2, <2>2
      <4>2. t[r[k]] = r[k + 1]
        BY <4>1, <2>1 DEF Linking
      <4> QED
        BY <4>1, <4>2, <2>2
    <3> QED
      BY <3>1, <3>2
  <2>4. Linking(t, c, q)
    BY <2>1, <2>2, <2>3 DEF Linking
  <2>5. q[Len(q)] = t[d]
    BY <2>2
  <2> QED
    BY <2>4, <2>5, <1>2
<1>3. S \in SUBSET Table!Cluster /\ ({c} \cap Table!Cluster) \subseteq S
  BY <1>1, Numbers
<1>4. Table!ClosedUnder(t, S)
  BY <1>2, Numbers DEF Table!ClosedUnder
<1>5. e \in S
  BY <1>3, <1>4 DEF Table!Chain
<1> QED
  BY <1>5

\* A chain that comes to an end has no cycle.
ChainRun(t, c, r) == Seg(t, r) /\ t[r[Len(r)]] = EOF /\ r[1] = c

LEMMA ChainHasRun ==
    ASSUME NEW t, NEW c \in Cluster, NEW e \in Table!Chain(t, c), t[e] = EOF
    PROVE  \E r : ChainRun(t, c, r)
<1>1. PICK r : Linking(t, c, r) /\ r[Len(r)] = e
  BY LinkedOn
<1>2. EOF \notin Cluster
  BY Numbers
<1>3. r \in Seq(Cluster) /\ Len(r) \in Nat /\ Len(r) >= 1 /\ \A k \in 1 .. Len(r) : r[k] \in Cluster
  BY <1>1 DEF Linking
<1>4. ASSUME NEW i \in 1 .. Len(r), NEW j \in 1 .. Len(r), i < j, r[i] = r[j]
      PROVE  FALSE
  <2> DEFINE S == {m \in Nat : r[i + m] = r[j + m]}
             n == Len(r) - j
  <2>1. n \in Nat /\ i + n \in 1 .. Len(r) - 1 /\ i + n + 1 \in 1 .. Len(r) /\ j + n = Len(r)
    BY <1>3, <1>4
  <2>2. 0 \in S
    BY <1>4
  <2>3. ASSUME NEW k \in 1 .. n, k - 1 \in S
        PROVE  k \in S
    <3> DEFINE a == i + (k - 1)
               b == j + (k - 1)
    <3>1. a \in 1 .. Len(r) - 1 /\ b \in 1 .. Len(r) - 1 /\ a + 1 = i + k /\ b + 1 = j + k
          /\ k \in Nat
      BY <1>3, <1>4
    <3>2. r[a] = r[b]
      BY <2>3
    <3> HIDE DEF a, b
    <3>3. t[r[a]] = r[a + 1] /\ t[r[b]] = r[b + 1]
      BY <3>1, <1>1 DEF Linking
    <3> QED
      BY <3>1, <3>2, <3>3
  <2> HIDE DEF S, n
  <2>4. 0 .. n \subseteq S
    <3>1. \A k \in 0 + 1 .. n : k - 1 \in S => k \in S
      BY <2>3
    <3>2. 0 \in Nat /\ n \in Nat
      BY <2>1
    <3> QED
      BY <2>2, <3>1, <3>2, UpTo
  <2>5. n \in S
    BY <2>1, <2>4
  <2>6. r[i + n] = r[Len(r)]
    BY <2>1, <2>5 DEF S
  <2>7. t[r[i + n]] = r[i + n + 1] /\ r[i + n + 1] \in Cluster
    BY <2>1, <1>1, <1>3 DEF Linking
  <2> QED
    BY <2>6, <2>7, <1>1, <1>2
<1>5. \A i, j \in 1 .. Len(r) : r[i] = r[j] => i = j
  <2>1. \A i, j \in 1 .. Len(r) : i < j \/ j < i \/ i = j
    BY <1>3
  <2> QED
    BY <2>1, <1>4
<1>6. Seg(t, r) /\ t[r[Len(r)]] = EOF /\ r[1] = c
  BY <1>1, <1>2, <1>3, <1>5 DEF Seg, Linking
<1> QED
  BY <1>6 DEF ChainRun

LEMMA SoundIsNeat ==
    ASSUME NEW v, Typed(v), NEW d \in NodeSet, NEW up, NEW r, IsRun(v.table, r), r[1] = d.entry.cluster,
           d # Top => r[1] # ROOT, d.path = <<>> <=> d = Top, SoundDirectory(v, d, up)
    PROVE  Neat(v, d, up, r)
<1> DEFINE s == Slots(v, r[1])
<1>1. Spelled(r, Len(r), s)
  BY SlotsOfRun
<1>2. SoundSlots(v, d, up, s)
  BY DEF SoundDirectory
<1> HIDE DEF s
<1>3. /\ s \in Walks /\ Len(s) \in Nat /\ DOMAIN s = 1 .. Len(s) /\ Len(s) >= 2
      /\ \A i \in 1 .. Len(s) : s[i] \in Spots(r)
      /\ \A p \in Spots(r) : \E i \in 1 .. Len(s) : s[i] = p
      /\ \A i, j \in 1 .. Len(s) : i < j => Before(r, s[i], s[j])
      /\ s[1] = <<r[1], 1>> /\ s[2] = <<r[1], 2>>
  BY <1>1 DEF Spelled, Spots, Walks
<1>4. \A p \in Spots(r) : p \in Range(s)
  BY <1>3 DEF Range
<1>5. \A p \in Spots(r) : At(v, p).kind # "data"
  BY <1>2, <1>4 DEF SoundSlots
<1>6. ASSUME NEW p \in Spots(r), IsDot(At(v, p))
      PROVE  d # Top /\ p \in {<<r[1], 1>>, <<r[1], 2>>}
  <2>1. d # Top
    BY <1>2, <1>4, <1>6 DEF SoundSlots
  <2>2. PICK i \in 1 .. Len(s) : s[i] = p
    BY <1>3
  <2>3. i = 1 \/ i = 2 \/ i \in 3 .. Len(s)
    BY <1>3
  <2>4. i \notin 3 .. Len(s)
    BY <1>2, <1>6, <2>1, <2>2 DEF SoundSlots
  <2> QED
    BY <1>3, <2>1, <2>2, <2>3, <2>4
<1>7. d # Top => /\ At(v, <<r[1], 1>>) = Entry(".", TRUE, d.entry.cluster, 0)
                 /\ At(v, <<r[1], 2>>) = Entry("..", TRUE, up, 0)
  BY <1>2, <1>3 DEF SoundSlots
<1>8. ASSUME NEW p \in Spots(r), NEW q \in Spots(r), Before(r, p, q), At(v, p) = EndMark
      PROVE  At(v, q) = EndMark
  <2>1. PICK i \in 1 .. Len(s), j \in 1 .. Len(s) : s[i] = p /\ s[j] = q
    BY <1>3
  <2>2. ~(j < i)
    BY <1>3, <1>8, <2>1, BeforeIsOrder
  <2>3. i # j
    BY <1>8, <2>1, BeforeItself
  <2>4. j > i
    BY <2>2, <2>3, <1>3
  <2>5. i \in Marks(v, s)
    BY <2>1, <1>3, <1>8 DEF Marks
  <2>6. j \in Marks(v, s)
    BY <2>4, <2>5, <1>2, <1>3 DEF SoundSlots
  <2> QED
    BY <2>1, <2>6 DEF Marks
<1> QED
  BY <1>5, <1>6, <1>7, <1>8 DEF Neat

\* The runs of the nodes of a sound volume.
RunsOf(v) ==
    [n \in NodesOf(v) |->
        IF n = Top THEN <<ROOT>> ELSE CHOOSE r : ChainRun(v.table, n.entry.cluster, r)]

LEMMA SoundRuns ==
    ASSUME NEW v, Typed(v), Sound(v, NodesOf(v))
    PROVE  /\ PathsApart(NodesOf(v))
           /\ RunsOf(v)[Top] = <<ROOT>>
           /\ \A n \in NodesOf(v) : n # Top => ChainRun(v.table, n.entry.cluster, RunsOf(v)[n])
           /\ RunsApart(v.table, NodesOf(v), RunsOf(v)) /\ Sized(NodesOf(v), RunsOf(v))
<1> DEFINE N == NodesOf(v)
           R == RunsOf(v)
<1>1. /\ \A n, m \in N : n.path = m.path => n = m
      /\ SoundChains(v, N)
  BY DEF Sound
<1>2. PathsApart(N)
  BY <1>1, NodesAre DEF PathsApart
<1>3. \A n \in N : n.path = <<>> <=> n = Top
  BY <1>2, PathFacts
<1>4. Top \in N /\ DOMAIN R = N /\ R[Top] = <<ROOT>>
  BY NodesAre DEF RunsOf
<1>5. ASSUME NEW n \in N, n # Top
      PROVE  ChainRun(v.table, n.entry.cluster, R[n])
  <2>1. /\ n.entry.cluster \in Cluster
        /\ \E e \in Table!Chain(v.table, n.entry.cluster) : v.table[e] = EOF
    BY <1>1, <1>3, <1>5 DEF SoundChains, Clusters
  <2>2. \E r : ChainRun(v.table, n.entry.cluster, r)
    BY <2>1, ChainHasRun
  <2>3. R[n] = CHOOSE r : ChainRun(v.table, n.entry.cluster, r)
    BY <1>5 DEF RunsOf
  <2> QED
    BY <2>2, <2>3
<1> HIDE DEF R, N
<1>6. ASSUME NEW n \in N, n # Top
      PROVE  /\ Clusters(v, n.entry.cluster) = Members(R[n]) /\ Members(R[n]) \subseteq Cluster
             /\ Cardinality(Members(R[n])) = Len(R[n])
  <2> DEFINE r == R[n]
  <2>1. Seg(v.table, r) /\ r[1] = n.entry.cluster
    BY <1>5, <1>6 DEF ChainRun
  <2> HIDE DEF r
  <2>2. Table!Chain(v.table, r[1]) = Members(r) /\ Members(r) \subseteq Cluster
        /\ Cardinality(Members(r)) = Len(r)
    BY <2>1, SegChain, SegFields, SegSize
  <2> QED
    BY <2>1, <2>2 DEF r, Clusters
<1>7. Members(<<ROOT>>) = {ROOT}
  <2>1. Len(<<ROOT>>) = 1 /\ <<ROOT>>[1] = ROOT /\ 1 .. 1 = {1}
    OBVIOUS
  <2> QED
    BY <2>1 DEF Members
<1>8. ROOT \notin Cluster
  BY Numbers
<1>9. ASSUME NEW n \in N
      PROVE  /\ IsRun(v.table, R[n]) /\ R[n][1] = n.entry.cluster
             /\ n # Top => R[n][1] # ROOT
  <2>1. CASE n = Top
    <3>1. <<ROOT>>[1] = ROOT /\ Top.entry.cluster = ROOT
      BY DEF Top, RootEntry, Entry
    <3> QED
      BY <2>1, <3>1, <1>4 DEF IsRun
  <2>2. CASE n # Top
    <3> DEFINE r == R[n]
    <3>1. Seg(v.table, r) /\ v.table[r[Len(r)]] = EOF /\ r[1] = n.entry.cluster
      BY <1>5, <2>2 DEF ChainRun
    <3> HIDE DEF r
    <3>2. r[1] \in Cluster
      BY <3>1, SegFields
    <3>3. IsRun(v.table, r)
      BY <3>1 DEF IsRun
    <3> QED
      BY <3>1, <3>2, <3>3, <1>8 DEF r
  <2> QED
    BY <2>1, <2>2
<1>10. ASSUME NEW n \in N, NEW m \in N, n # m
       PROVE  Members(R[n]) \cap Members(R[m]) = {}
  <2>1. CASE n = Top
    BY <2>1, <1>4, <1>6, <1>7, <1>8, <1>10
  <2>2. CASE m = Top
    BY <2>2, <1>4, <1>6, <1>7, <1>8, <1>10
  <2>3. CASE n # Top /\ m # Top
    <3>1. Clusters(v, n.entry.cluster) \cap Clusters(v, m.entry.cluster) = {}
      BY <2>3, <1>1, <1>3, <1>10 DEF SoundChains
    <3> QED
      BY <3>1, <2>3, <1>6
  <2> QED
    BY <2>1, <2>2, <2>3
<1>11. RunsApart(v.table, N, R)
  BY <1>4, <1>9, <1>10 DEF RunsApart, Dirs
<1>12. ASSUME NEW n \in N, ~n.entry.dir
       PROVE  Len(R[n]) = Needed(n.entry.size)
  <2>1. n # Top
    BY <1>12 DEF Top, RootEntry, Entry
  <2>2. Cardinality(Clusters(v, n.entry.cluster)) = Needed(n.entry.size)
    BY <2>1, <1>1, <1>3, <1>12 DEF SoundChains
  <2> QED
    BY <2>1, <2>2, <1>6
<1>13. Sized(N, R)
  BY <1>12 DEF Sized
<1> QED
  BY <1>2, <1>4, <1>5, <1>11, <1>13 DEF N, R

ParentOf(N, n) == (CHOOSE m \in N : m.path = Front(n.path)).entry.cluster

LEMMA SoundIsIntact ==
    ASSUME NEW v, Typed(v), Sound(v, NodesOf(v))
    PROVE  Intact(v, NodesOf(v), RunsOf(v))
<1> DEFINE N == NodesOf(v)
           R == RunsOf(v)
<1>1. /\ PathsApart(N) /\ RunsApart(v.table, N, R) /\ Sized(N, R) /\ DOMAIN R = N
  BY SoundRuns DEF RunsOf
<1>2. \A d \in Dirs(N) : /\ Within(v, d) \subseteq N
                         /\ SoundDirectory(v, d, IF d.path = <<>> THEN ROOT ELSE ParentOf(N, d))
  BY DEF Sound, Dirs, ParentOf
<1>3. Stands(v, N)
  BY DEF Sound, Stands, Dirs
<1>4. \A n \in N : n = Top \/ \E d \in Dirs(N) : n \in Within(v, d)
  BY NodesAre DEF Dirs
<1>5. \A d \in N : \A n \in Within(v, d) : Front(n.path) = d.path
  BY NodesAre, WithinTyped
<1> HIDE DEF N, R
<1>6. /\ \A n \in N : n \in NodeSet /\ (n.path = <<>> <=> n = Top)
      /\ Top \in Dirs(N) /\ Dirs(N) \subseteq N
      /\ \A n, m \in N : n.path = m.path => n = m
  BY <1>1, PathFacts DEF PathsApart
<1>7. ASSUME NEW d \in Dirs(N)
      PROVE  \E u \in N : Above(N, d, u) /\ Neat(v, d, u.entry.cluster, R[d])
  <2>0. d \in N /\ d \in NodeSet /\ (d.path = <<>> <=> d = Top)
    BY <1>6
  <2>1. IsRun(v.table, R[d]) /\ R[d][1] = d.entry.cluster /\ (d # Top => R[d][1] # ROOT)
    BY <1>1, <1>6 DEF RunsApart
  <2>2. \E u \in N : Above(N, d, u) /\ SoundDirectory(v, d, u.entry.cluster)
    <3>1. CASE d = Top
      <4>1. Top.entry.cluster = ROOT
        BY DEF Top, RootEntry, Entry
      <4>2. SoundDirectory(v, d, ROOT)
        BY <3>1, <2>0, <1>2
      <4> QED
        BY <3>1, <4>1, <4>2, <1>6 DEF Above
    <3>2. CASE d # Top
      <4>1. PICK u \in Dirs(N) : d \in Within(v, u)
        BY <3>2, <2>0, <1>4
      <4>2. u \in N /\ Front(d.path) = u.path
        BY <4>1, <1>5, <1>6
      <4>3. ParentOf(N, d) = u.entry.cluster
        BY <4>2, <1>6 DEF ParentOf
      <4>4. SoundDirectory(v, d, ParentOf(N, d))
        BY <3>2, <2>0, <1>2
      <4>5. Above(N, d, u)
        BY <3>2, <4>1, <4>2 DEF Above
      <4> QED
        BY <4>2, <4>3, <4>4, <4>5
    <3> QED
      BY <3>1, <3>2
  <2>3. PICK u \in N : Above(N, d, u) /\ SoundDirectory(v, d, u.entry.cluster)
    BY <2>2
  <2>4. Neat(v, d, u.entry.cluster, R[d])
    BY <2>0, <2>1, <2>3, SoundIsNeat
  <2> QED
    BY <2>3, <2>4
<1>8. \A d \in Dirs(N) : Within(v, d) = {NodeAt(v, d, p) : p \in NamedSpots(v, R[d])}
  BY <1>7, NeatWithin
<1>9. \A d \in Dirs(N) : Orderly(v, N, R, d)
  BY <1>2, <1>7, <1>8 DEF Orderly
<1>10. ASSUME NEW n \in N, n # Top
       PROVE  \E d \in Dirs(N) : LiesIn(v, R, n, d)
  <2>1. PICK d \in Dirs(N) : n \in Within(v, d)
    BY <1>4, <1>10
  <2>2. PICK p \in NamedSpots(v, R[d]) : n = NodeAt(v, d, p)
    BY <2>1, <1>8
  <2>3. n.pos = p
    BY <2>2 DEF NodeAt
  <2> QED
    BY <2>2, <2>3 DEF LiesIn
<1>11. Laid(v, N, R)
  BY <1>1, <1>9, <1>10 DEF Laid
<1> QED
  BY <1>1, <1>3, <1>11 DEF Intact, N, R
------------------------------------------------------------------------
(* A new entry for a directory.                                            *)

LEMMA LookupMisses ==
    ASSUME NEW v, Typed(v), NEW N, NEW R, Laid(v, N, R), NEW D \in Dirs(N), NEW x \in Names,
           ~Lookup(v, D.entry.cluster, x, FALSE).found
    PROVE  \A n \in N : n.path # Append(D.path, x)
<1>1. Formed(v) /\ NodesOf(v) = N
  BY LaidIsFormed, LaidNodes
<1>2. D \in NodesOf(v) /\ D.entry.dir
  BY <1>1 DEF Dirs
<1> DEFINE f == Lookup(v, D.entry.cluster, x, FALSE)
<1>3. \A m \in NodesOf(v) : m.path = Append(D.path, x) /\ Fits(m, FALSE) => f.found
  BY <1>1, <1>2, LookupOfName
<1> QED
  BY <1>1, <1>3 DEF Fits

\* Nothing has been given out, and nothing is left to be.
Spent(v) == Full(v) /\ v.firstFree = PastEnd

NoNode(N, D, e) == \A n \in N : n.path # Append(D.path, e.name)

\* The entry e is in the slot of a, and u is the volume before it was written.
AddedTo(v, u, N, R, D, e, a) ==
    /\ Typed(u) /\ u.cwd = v.cwd /\ SlotPut(u, a.vol, a.pos, e) /\ NoNode(N, D, e)
    /\ Spent(v) => Spent(u)
    /\ (\E Q : Settled(v, u, N, R, Q, D, a.pos)) \/ LinkedPast(v, u, R, D, a.pos)

AddOutcome(v, N, R, D, e, a) ==
    /\ Typed(a.vol) /\ a.vol.cwd = v.cwd /\ a.ok \in BOOLEAN /\ a.pos \in Position
    /\ \/ ~a.ok /\ a.vol.table = v.table /\ a.vol.cells = v.cells
       \/ a.ok /\ \E u : AddedTo(v, u, N, R, D, e, a)

LEMMA GapOfSpent ==
    ASSUME NEW v, Typed(v), NEW r, NEW o, GapOutcome(v, r, o), o.ok, Spent(v)
    PROVE  Spent(o.vol)
<1>1. CASE o.vol = v
  BY <1>1
<1>2. CASE \E g : Extended(v, o.vol, r, g, o.pos)
  <2>1. PICK g : Extended(v, o.vol, r, g, o.pos)
    BY <1>2
  <2>2. ~Lengthened(v, o.vol, LastOf(r), g)
    BY DEF Lengthened, Spent, Full
  <2>3. LedPast(v, o.vol, LastOf(r))
    BY <2>1, <2>2 DEF Extended
  <2> QED
    BY <2>3 DEF LedPast, Spent
<1> QED
  BY <1>1, <1>2 DEF GapOutcome

LEMMA AddEntryIs ==
    ASSUME NEW v, Typed(v), NEW N, NEW R, Laid(v, N, R), NEW D \in Dirs(N),
           NEW e \in EntrySlot, e.name \in Names
    PROVE  AddOutcome(v, N, R, D, e, AddEntry(v, D.entry.cluster, e))
<1> DEFINE a == AddEntry(v, D.entry.cluster, e)
           o == FindEntryGap(v, D.entry.cluster)
<1>1. D.entry.cluster \in Table!Entry
  <2>1. D \in NodeSet
    BY PathFacts DEF Laid
  <2> QED
    BY <2>1, NodeFields
<1>2. StepTyped(a) /\ StepTyped(o)
  BY <1>1, AddEntryTyped, FindEntryGapTyped
<1>3. PICK up : Neat(v, D, up, R[D])
  BY DEF Laid, Orderly
<1>4. GapOutcome(v, R[D], o)
  BY <1>3, FindEntryGapIs
<1>5. a = IF Lookup(v, D.entry.cluster, e.name, FALSE).found THEN Step(FALSE, v, <<ROOT, 1>>)
          ELSE Filled(o, e)
  BY DEF AddEntry
<1>6. CASE Lookup(v, D.entry.cluster, e.name, FALSE).found
  <2>1. a.ok = FALSE /\ a.vol = v
    BY <1>5, <1>6 DEF Step
  <2> QED
    BY <2>1, <1>2 DEF AddOutcome, StepTyped
<1>7. CASE ~Lookup(v, D.entry.cluster, e.name, FALSE).found
  <2>1. NoNode(N, D, e)
    BY <1>7, LookupMisses DEF NoNode
  <2>2. a = Filled(o, e)
    BY <1>5, <1>7
  <2> HIDE DEF a, o
  <2>3. CASE ~o.ok
    <3>1. a = o
      BY <2>2, <2>3 DEF Filled
    <3> QED
      BY <3>1, <2>3, <1>2, <1>4 DEF GapOutcome, AddOutcome, StepTyped, a
  <2>4. CASE o.ok
    <3>1. a = Step(TRUE, Put(o.vol, o.pos, e), o.pos)
      BY <2>2, <2>4 DEF Filled
    <3>2. a.ok = TRUE /\ a.vol = Put(o.vol, o.pos, e) /\ a.pos = o.pos
      BY <3>1 DEF Step
    <3>3. Typed(o.vol) /\ o.vol.cwd = v.cwd /\ o.pos \in Position
      BY <1>2, <1>4 DEF GapOutcome, StepTyped
    <3>4. SlotPut(o.vol, a.vol, a.pos, e)
      <4>1. e \in Slot
        BY DEF Slot
      <4> QED
        BY <4>1, <3>2, <3>3, PutIs
    <3>5. Spent(v) => Spent(o.vol)
      BY <1>4, <2>4, GapOfSpent
    <3>6. (\E Q : Settled(v, o.vol, N, R, Q, D, o.pos)) \/ LinkedPast(v, o.vol, R, D, o.pos)
      BY <1>4, <2>4, GapSettles
    <3>7. AddedTo(v, o.vol, N, R, D, e, a)
      BY <2>1, <3>2, <3>3, <3>4, <3>5, <3>6 DEF AddedTo
    <3>8. Typed(a.vol) /\ a.vol.cwd = v.cwd
      BY <3>3, <3>4 DEF SlotPut
    <3> QED
      BY <3>2, <3>3, <3>7, <3>8 DEF AddOutcome, a
  <2> QED
    BY <2>3, <2>4
<1> QED
  BY <1>6, <1>7

\* What has no node has no entry.
LEMMA RoomIs ==
    ASSUME NEW v, NEW N, NEW R, Laid(v, N, R), NEW D \in Dirs(N), NEW p, Open(v, R[D], p),
           NEW e \in EntrySlot, e.name \in Names, NoNode(N, D, e)
    PROVE  RoomFor(v, N, R, D, p, e)
<1>1. ASSUME NEW q \in NamedSpots(v, R[D])
      PROVE  At(v, q).name # e.name
  <2>1. NodeAt(v, D, q) \in N
    BY DEF Laid, Orderly
  <2>2. NodeAt(v, D, q).path = Append(D.path, At(v, q).name)
    BY DEF NodeAt
  <2> QED
    BY <2>1, <2>2 DEF NoNode
<1> QED
  BY <1>1 DEF RoomFor, Open

\* What a volume becomes when it is forgotten what its free clusters hold.
LEMMA ForgetSame ==
    ASSUME NEW v, Typed(v), NEW N, NEW R, Laid(v, N, R)
    PROVE  Same(v, Forget(v), Held(R)) /\ Forget(v).cwd = v.cwd
<1>1. /\ Forget(v).table = v.table /\ Forget(v).cwd = v.cwd
      /\ \A a \in Areas : a = ROOT \/ v.table[a] # FREE => Forget(v).cells[a] = v.cells[a]
  BY ForgetIs
<1>2. \A a \in Held(R) : a \in Areas /\ v.table[a] # FREE
  BY HeldIsUsed
<1> QED
  BY <1>1, <1>2 DEF Same

LEMMA ForgetIntact ==
    ASSUME NEW v, Typed(v), NEW N, NEW R, Intact(v, N, R)
    PROVE  Intact(Forget(v), N, R) /\ TreeOf(Forget(v), N) = TreeOf(v, N)
<1>1. Same(v, Forget(v), Held(R)) /\ Forget(v).cwd = v.cwd
  BY ForgetSame DEF Intact
<1> QED
  BY <1>1, FrameIntact

------------------------------------------------------------------------
(* The volume after the directory has been given room.                     *)

\* Files keep their runs.
LEMMA SettledSized ==
    ASSUME NEW v, NEW w, NEW N, NEW R, Intact(v, N, R), NEW D \in Dirs(N), NEW Q, NEW p,
           Settled(v, w, N, R, Q, D, p)
    PROVE  /\ Sized(N, Q) /\ DOMAIN Q = N
           /\ \A n \in N : ~n.entry.dir => Q[n] = R[n] /\ Same(v, w, Members(R[n]))
<1>1. DOMAIN R = N /\ Sized(N, R)
  BY DEF Intact
<1>2. ASSUME NEW n \in N, ~n.entry.dir
      PROVE  Q[n] = R[n]
  <2>1. n # D
    BY <1>2 DEF Dirs
  <2> QED
    BY <2>1, <1>1 DEF Settled
<1> QED
  BY <1>1, <1>2 DEF Sized, Settled
------------------------------------------------------------------------
(* The trees before and after.                                             *)

FilesKeep(v, w, M) == \A n \in M : ~n.entry.dir => ReadsAs(w, n) = ReadsAs(v, n)

LEMMA KeptFiles ==
    ASSUME NEW v, NEW w, NEW N, NEW R, Intact(v, N, R), NEW M \in SUBSET N,
           \A n \in M : ~n.entry.dir => Same(v, w, Members(R[n]))
    PROVE  FilesKeep(v, w, M)
<1>1. Laid(v, N, R) /\ DOMAIN R = N /\ Sized(N, R)
  BY DEF Intact
<1>2. ASSUME NEW n \in M, ~n.entry.dir
      PROVE  ReadsAs(w, n) = ReadsAs(v, n)
  <2>1. n \in DOMAIN R /\ Len(R[n]) = Needed(n.entry.size) /\ Same(v, w, Members(R[n]))
    BY <1>1, <1>2 DEF Sized
  <2> QED
    BY <1>1, <1>2, <2>1, FilesSame
<1> QED
  BY <1>2 DEF FilesKeep

LEMMA KeptShows ==
    ASSUME NEW v, NEW w, NEW M, FilesKeep(v, w, M), NEW n \in M
    PROVE  Shows(w, n) = Shows(v, n)
  BY DEF Shows, FilesKeep

LEMMA TreeKept ==
    ASSUME NEW v, NEW w, NEW N, PathsApart(N), FilesKeep(v, w, N)
    PROVE  TreeOf(w, N) = TreeOf(v, N)
<1> DEFINE P == {n.path : n \in N}
           t == TreeOf(v, N)
           u == TreeOf(w, N)
<1>1. /\ \A n \in N : t[n.path] = Shows(v, n) /\ u[n.path] = Shows(w, n)
      /\ t = [p \in P |-> t[p]] /\ u = [p \in P |-> u[p]]
  BY TreeOfNodes
<1>2. \A n \in N : Shows(w, n) = Shows(v, n)
  BY KeptShows
<1> HIDE DEF t, u
<1>3. \A p \in P : u[p] = t[p]
  BY <1>1, <1>2
<1> QED
  BY <1>1, <1>3 DEF t, u

\* The tree t with x at the path q.
Grafted(t, u, q, x) == u = [p \in DOMAIN t \cup {q} |-> IF p = q THEN x ELSE t[p]]

\* A node is added, or takes the place of the one of its path.
LEMMA TreeGrafted ==
    ASSUME NEW v, NEW w, NEW N, PathsApart(N), NEW M \in SUBSET N, NEW y, PathsApart(M \cup {y}),
           FilesKeep(v, w, M), \A n \in N : n \in M \/ n.path = y.path,
           \A n \in M : n.path # y.path
    PROVE  Grafted(TreeOf(v, N), TreeOf(w, M \cup {y}), y.path, Shows(w, y))
<1> DEFINE t == TreeOf(v, N)
           u == TreeOf(w, M \cup {y})
           P == {n.path : n \in M \cup {y}}
<1>1. /\ \A n \in N : t[n.path] = Shows(v, n)
      /\ DOMAIN t = {n.path : n \in N}
      /\ \A n \in M \cup {y} : u[n.path] = Shows(w, n)
      /\ u = [p \in P |-> u[p]]
  BY TreeOfNodes
<1>2. \A n \in M : Shows(w, n) = Shows(v, n)
  BY KeptShows
<1> HIDE DEF t, u
<1>3. P = DOMAIN t \cup {y.path}
  BY <1>1
<1>4. \A p \in P : u[p] = IF p = y.path THEN Shows(w, y) ELSE t[p]
  BY <1>1, <1>2
<1> HIDE DEF P
<1>5. u = [p \in P |-> IF p = y.path THEN Shows(w, y) ELSE t[p]]
  BY <1>1, <1>4
<1> QED
  BY <1>3, <1>5 DEF Grafted, t, u

\* The tree t without the path q.
Pruned(t, u, q) == u = [p \in DOMAIN t \ {q} |-> t[p]]

LEMMA TreePruned ==
    ASSUME NEW v, NEW w, NEW N, PathsApart(N), NEW y \in N, PathsApart(N \ {y}),
           FilesKeep(v, w, N \ {y})
    PROVE  Pruned(TreeOf(v, N), TreeOf(w, N \ {y}), y.path)
<1> DEFINE t == TreeOf(v, N)
           u == TreeOf(w, N \ {y})
           P == {n.path : n \in N \ {y}}
<1>1. /\ \A n \in N : t[n.path] = Shows(v, n)
      /\ DOMAIN t = {n.path : n \in N}
      /\ \A n \in N \ {y} : u[n.path] = Shows(w, n)
      /\ u = [p \in P |-> u[p]]
  BY TreeOfNodes
<1>2. \A n \in N \ {y} : Shows(w, n) = Shows(v, n)
  BY KeptShows
<1>3. \A n \in N \ {y} : n.path # y.path
  BY DEF PathsApart
<1> HIDE DEF t, u
<1>4. P = DOMAIN t \ {y.path}
  BY <1>1, <1>3
<1>5. \A p \in P : u[p] = t[p]
  BY <1>1, <1>2
<1> HIDE DEF P
<1>6. u = [p \in P |-> t[p]]
  BY <1>1, <1>5
<1> QED
  BY <1>4, <1>6 DEF Pruned, t, u

------------------------------------------------------------------------
(* What is no sound volume.                                                *)

\* A run follows the links from its first cluster.
Leading1(q, r) == Len(r) <= Len(q) /\ \A k \in 1 .. Len(r) : q[k] = r[k]

LEMMA RunGoesOn ==
    ASSUME NEW t, NEW q, IsRun(t, q), q[1] # ROOT, NEW r, Linking(t, q[1], r)
    PROVE  Leading1(q, r)
<1> DEFINE n == Len(r)
           S == {k \in 1 .. n : k <= Len(q) /\ q[k] = r[k]}
<1>1. Seg(t, q) /\ t[q[Len(q)]] = EOF /\ Len(q) \in Nat /\ Len(q) >= 1
  BY RunFields
<1>2. r \in Seq(Cluster) /\ n \in Nat /\ n >= 1 /\ r[1] = q[1]
  BY DEF Linking
<1>3. ASSUME NEW k \in 2 .. n, k - 1 \in S
      PROVE  k \in S
  <2>1. k - 1 \in 1 .. n - 1 /\ k \in 1 .. n /\ k - 1 <= Len(q) /\ q[k - 1] = r[k - 1] /\ (k - 1) + 1 = k
    BY <1>2, <1>3
  <2>2. t[r[k - 1]] = r[k] /\ r[k] \in Cluster
    BY <1>2, <2>1 DEF Linking
  <2>3. EOF \notin Cluster
    BY Numbers
  <2>4. k - 1 # Len(q)
    BY <1>1, <2>1, <2>2, <2>3
  <2>5. k - 1 \in 1 .. Len(q) - 1 /\ k <= Len(q)
    BY <1>1, <2>1, <2>4
  <2>6. t[q[k - 1]] = q[k]
    BY <1>1, <2>1, <2>5 DEF Seg
  <2> QED
    BY <2>1, <2>2, <2>5, <2>6
<1>4. 1 \in S
  BY <1>1, <1>2
<1>5. 1 .. n \subseteq S
  <2>1. \A k \in 1 + 1 .. n : k - 1 \in S => k \in S
    BY <1>3
  <2> HIDE DEF S, n
  <2> QED
    BY <1>2, <1>4, <2>1, UpTo
<1> QED
  BY <1>2, <1>5 DEF Leading1

\* It ends where the chain does, and nowhere else.
RunAlong(t, q, r) ==
    /\ Leading1(q, r) /\ LastOf(r) \in Members(q)
    /\ t[LastOf(r)] \in Cluster \cup {EOF}
    /\ t[LastOf(r)] = EOF => Len(q) = Len(r)

LEMMA RunIsAlong ==
    ASSUME NEW t, NEW q, IsRun(t, q), q[1] # ROOT, NEW r, Linking(t, q[1], r)
    PROVE  RunAlong(t, q, r)
<1> DEFINE n == Len(r)
<1>1. Seg(t, q) /\ t[q[Len(q)]] = EOF /\ Len(q) \in Nat /\ Len(q) >= 1
  BY RunFields
<1>2. n \in Nat /\ n >= 1
  BY DEF Linking
<1>3. Leading1(q, r)
  BY RunGoesOn
<1>4. n <= Len(q) /\ q[n] = r[n]
  BY <1>2, <1>3 DEF Leading1
<1>5. LastOf(r) \in Members(q)
  BY <1>1, <1>2, <1>4 DEF Members, LastOf
<1>6. ASSUME n # Len(q)
      PROVE  t[LastOf(r)] \in Cluster
  <2>1. n \in 1 .. Len(q) - 1 /\ n + 1 \in 1 .. Len(q)
    BY <1>1, <1>2, <1>4, <1>6
  <2>2. t[q[n]] = q[n + 1]
    BY <1>1, <2>1 DEF Seg
  <2>3. q[n + 1] \in Cluster
    BY <1>1, <2>1 DEF Seg
  <2> QED
    BY <1>4, <2>2, <2>3 DEF LastOf
<1>7. EOF \notin Cluster
  BY Numbers
<1>8. CASE n = Len(q)
  BY <1>1, <1>3, <1>4, <1>5, <1>8 DEF RunAlong, LastOf
<1>9. CASE n # Len(q)
  BY <1>3, <1>5, <1>6, <1>7, <1>9 DEF RunAlong
<1> QED
  BY <1>8, <1>9

\* The nodes of the volume can be laid out.
Unharmed(w) == \E N, Q : Intact(w, N, Q)

\* The directories other than D are as they were.
ElsewhereSame(v, w, N, R, D) ==
    \A d \in Dirs(N) : d # D =>
        /\ \A c \in Members(R[d]) : w.table[c] = v.table[c]
        /\ \A q \in Spots(R[d]) : At(w, q) = At(v, q)

\* Then D is a directory still, of any tree that lies in the volume: its path leads
\* through the others.
LEMMA DirStays ==
    ASSUME NEW v, Typed(v), NEW N, NEW R, Laid(v, N, R), NEW D \in Dirs(N),
           NEW w, Typed(w), NEW M, NEW Q, Laid(w, M, Q), ElsewhereSame(v, w, N, R, D)
    PROVE  D \in Dirs(M)
<1> DEFINE B == {d \in Dirs(N) : d \notin Dirs(M)}
           L == {Len(d.path) : d \in B}
<1>1. PathsApart(N) /\ PathsApart(M)
  BY DEF Laid
<1>2. SUFFICES ASSUME D \notin Dirs(M)
               PROVE  FALSE
  OBVIOUS
<1>3. \A d \in Dirs(N) : d \in N /\ d \in NodeSet /\ Len(d.path) \in Nat /\ d.entry.dir
  BY <1>1, PathFacts, NodeFields DEF Dirs
<1>4. L \in SUBSET Nat /\ L # {}
  BY <1>2, <1>3
<1>5. PICK k \in L : \A m \in L : k <= m
  <2> HIDE DEF L
  <2> QED
    BY <1>4, LeastNumber
<1>6. PICK d \in B : Len(d.path) = k
  BY <1>5
<1>7. d # Top
  BY <1>1, <1>6, PathFacts
<1>8. PICK P \in Dirs(N) : LiesIn(v, R, d, P)
  BY <1>6, <1>7, <1>3 DEF Laid
<1>9. Len(d.path) = Len(P.path) + 1
  BY <1>1, <1>3, <1>6, <1>8, OneDeeper
<1>10. P \notin B
  <2>1. Len(P.path) \in Nat /\ Len(P.path) < k
    BY <1>3, <1>6, <1>8, <1>9
  <2> QED
    BY <1>5, <2>1
<1>11. P \in Dirs(M)
  BY <1>8, <1>10
<1>12. P # D
  BY <1>2, <1>11
<1>13. d \in Within(w, P)
  <2>1. Orderly(v, N, R, P)
    BY <1>8 DEF Laid
  <2>2. /\ \A c \in Members(R[P]) : w.table[c] = v.table[c]
        /\ \A q \in Spots(R[P]) : At(w, q) = At(v, q)
    BY <1>8, <1>12 DEF ElsewhereSame
  <2>3. Orderly(w, N, R, P) /\ NamedSpots(w, R[P]) = NamedSpots(v, R[P])
    BY <2>1, <2>2, OrderlySame
  <2>4. PICK u \in N : Neat(w, P, u.entry.cluster, R[P])
    BY <2>3 DEF Orderly
  <2>5. Within(w, P) = {NodeAt(w, P, p) : p \in NamedSpots(w, R[P])}
    BY <2>4, NeatWithin
  <2>6. d.pos \in NamedSpots(w, R[P]) /\ d = NodeAt(v, P, d.pos)
    BY <1>8, <2>3 DEF LiesIn
  <2>7. At(w, d.pos) = At(v, d.pos)
    BY <2>2, <2>6 DEF NamedSpots, EntrySpots
  <2>8. NodeAt(w, P, d.pos) = NodeAt(v, P, d.pos)
    BY <2>7 DEF NodeAt
  <2> QED
    BY <2>5, <2>6, <2>8
<1>14. d \in M
  BY <1>11, <1>13, LaidWithin
<1>15. d \in Dirs(M)
  BY <1>3, <1>6, <1>14 DEF Dirs
<1> QED
  BY <1>6, <1>15

\* A directory whose chain leads out of the clusters is no directory.
LEMMA BrokenDir ==
    ASSUME NEW v, Typed(v), NEW N, NEW R, Laid(v, N, R), NEW D \in Dirs(N), D # Top,
           NEW w, Typed(w), ElsewhereSame(v, w, N, R, D),
           NEW r, Linking(w.table, D.entry.cluster, r),
           w.table[LastOf(r)] \notin Cluster \cup {EOF}
    PROVE  ~Unharmed(w)
<1> SUFFICES ASSUME NEW M, NEW Q, Intact(w, M, Q)
             PROVE  FALSE
  BY DEF Unharmed
<1>1. Laid(w, M, Q) /\ D \in Dirs(M)
  BY DirStays DEF Intact
<1>2. D \in DOMAIN Q /\ IsRun(w.table, Q[D]) /\ Q[D][1] = D.entry.cluster
  BY <1>1, RunOfDir
<1>3. Q[D][1] # ROOT
  BY <1>1, <1>2 DEF Laid, RunsApart
<1>4. RunAlong(w.table, Q[D], r)
  BY <1>2, <1>3, RunIsAlong
<1> QED
  BY <1>4 DEF RunAlong

\* An entry at p that the directory D does not have before is a node of any tree
\* that lies in the volume.
LEMMA EntryShows ==
    ASSUME NEW u, Typed(u), NEW N, NEW Q, Laid(u, N, Q), NEW D \in Dirs(N), NEW p \in Spots(Q[D]),
           NEW w, Typed(w), SameBut(u, w, Held(Q), p),
           At(w, p).kind = "entry", At(w, p).name \in Names,
           NEW M, NEW P, Laid(w, M, P)
    PROVE  NodeAt(w, D, p) \in M
<1>1. D \in DOMAIN Q /\ D \in N /\ IsRun(u.table, Q[D]) /\ Members(Q[D]) \subseteq Held(Q)
      /\ Q[D][1] = D.entry.cluster
  BY RunOfDir
<1>2. ElsewhereSame(u, w, N, Q, D)
  <2> SUFFICES ASSUME NEW d \in Dirs(N), d # D
               PROVE  /\ \A c \in Members(Q[d]) : w.table[c] = u.table[c]
                      /\ \A q \in Spots(Q[d]) : At(w, q) = At(u, q)
    BY DEF ElsewhereSame
  <2>1. d \in DOMAIN Q /\ Members(Q[d]) \subseteq Held(Q)
    BY RunOfDir
  <2>2. p[1] \notin Members(Q[d])
    BY <1>1, <2>1, SpotIsInOne
  <2> QED
    BY <2>1, <2>2, SpotsSameBut
<1>3. D \in Dirs(M)
  BY <1>2, DirStays
<1>4. D \in DOMAIN P /\ IsRun(w.table, P[D]) /\ P[D][1] = D.entry.cluster
  BY <1>3, RunOfDir
<1>5. p \in Spots(P[D])
  <2>1. CASE D.entry.cluster = ROOT
    <3>1. P[D] = <<ROOT>> /\ Q[D] = <<ROOT>>
      BY <1>1, <1>4, <2>1, RunFields
    <3> QED
      BY <3>1
  <2>2. CASE D.entry.cluster # ROOT
    <3>1. Seg(u.table, Q[D])
      BY <1>1, <2>2, RunFields
    <3>2. Linking(w.table, P[D][1], Q[D])
      <4>1. \A k \in 1 .. Len(Q[D]) - 1 : k \in 1 .. Len(Q[D])
        BY <3>1, SegFields
      <4>2. \A k \in 1 .. Len(Q[D]) : Q[D][k] \in Members(Q[D])
        BY <3>1, SegFields
      <4>3. \A k \in 1 .. Len(Q[D]) - 1 : w.table[Q[D][k]] = u.table[Q[D][k]]
        BY <1>1, <4>1, <4>2 DEF SameBut
      <4> QED
        BY <1>1, <1>4, <3>1, <4>3 DEF Seg, Linking
    <3>3. Leading1(P[D], Q[D])
      BY <1>4, <2>2, <3>2, RunGoesOn
    <3>4. PICK k \in 1 .. Len(Q[D]) : p[1] = Q[D][k]
      BY DEF Spots, SpotsTo
    <3>5. Len(P[D]) \in Nat /\ Len(Q[D]) \in Nat
      BY <1>1, <1>4, RunFields
    <3>6. k \in 1 .. Len(P[D]) /\ p[1] = P[D][k]
      BY <3>3, <3>4, <3>5 DEF Leading1
    <3> QED
      BY <3>6 DEF Spots, SpotsTo
  <2> QED
    BY <2>1, <2>2
<1>6. p \in NamedSpots(w, P[D])
  BY <1>5, NamesAreNotDots DEF NamedSpots, EntrySpots
<1> QED
  BY <1>3, <1>6 DEF Laid, Orderly

\* An entry with a number that is no cluster.
LEMMA BadEntry ==
    ASSUME NEW u, Typed(u), NEW N, NEW Q, Laid(u, N, Q), NEW D \in Dirs(N), NEW p \in Spots(Q[D]),
           NEW w, Typed(w), SameBut(u, w, Held(Q), p),
           At(w, p).kind = "entry", At(w, p).name \in Names, At(w, p).cluster \notin Cluster
    PROVE  ~Unharmed(w)
<1> SUFFICES ASSUME NEW M, NEW P, Intact(w, M, P)
             PROVE  FALSE
  BY DEF Unharmed
<1> DEFINE y == NodeAt(w, D, p)
<1>1. Laid(w, M, P) /\ DOMAIN P = M
  BY DEF Intact
<1>2. y \in M
  BY <1>1, EntryShows
<1>3. y # Top
  <2>1. D.path \in Seq(Names)
    BY PathFacts, NodeFields DEF Dirs, Laid
  <2>2. y.path # <<>>
    BY <2>1, FrontOfAppend DEF NodeAt
  <2> QED
    BY <2>2 DEF Top
<1>4. y.entry.cluster \in Cluster
  BY <1>1, <1>2, <1>3, RunOf
<1> QED
  BY <1>4 DEF NodeAt

\* A file with a chain that is too short or does not end.
LEMMA BadFile ==
    ASSUME NEW u, Typed(u), NEW N, NEW Q, Laid(u, N, Q), NEW D \in Dirs(N), NEW p \in Spots(Q[D]),
           NEW w, Typed(w), SameBut(u, w, Held(Q), p),
           At(w, p).kind = "entry", At(w, p).name \in Names, ~At(w, p).dir,
           NEW r, Linking(w.table, At(w, p).cluster, r),
           \/ w.table[LastOf(r)] \notin Cluster \cup {EOF}
           \/ w.table[LastOf(r)] = EOF /\ Len(r) # Needed(At(w, p).size)
    PROVE  ~Unharmed(w)
<1> SUFFICES ASSUME NEW M, NEW P, Intact(w, M, P)
             PROVE  FALSE
  BY DEF Unharmed
<1> DEFINE y == NodeAt(w, D, p)
<1>1. Laid(w, M, P) /\ DOMAIN P = M /\ Sized(M, P)
  BY DEF Intact
<1>2. y \in M
  BY <1>1, EntryShows
<1>3. y # Top
  <2>1. D.path \in Seq(Names)
    BY PathFacts, NodeFields DEF Dirs, Laid
  <2>2. y.path # <<>>
    BY <2>1, FrontOfAppend DEF NodeAt
  <2> QED
    BY <2>2 DEF Top
<1>4. y.entry = At(w, p)
  BY DEF NodeAt
<1> HIDE DEF y
<1>5. IsRun(w.table, P[y]) /\ P[y][1] = y.entry.cluster /\ P[y][1] # ROOT
  BY <1>1, <1>2, <1>3 DEF Laid, RunsApart
<1>6. Len(P[y]) = Needed(y.entry.size)
  BY <1>1, <1>2, <1>4 DEF Sized
<1>7. RunAlong(w.table, P[y], r)
  BY <1>4, <1>5, RunIsAlong
<1> QED
  BY <1>4, <1>6, <1>7 DEF RunAlong

\* The root directory has no data.
LEMMA BadRoot ==
    ASSUME NEW w, Typed(w), At(w, <<ROOT, 1>>).kind = "data"
    PROVE  ~Unharmed(w)
<1> SUFFICES ASSUME NEW M, NEW P, Intact(w, M, P)
             PROVE  FALSE
  BY DEF Unharmed
<1>1. Laid(w, M, P)
  BY DEF Intact
<1>2. P[Top] = <<ROOT>> /\ Top \in Dirs(M)
  BY <1>1, RunOfTop, PathFacts DEF Laid
<1>3. IsRun(w.table, <<ROOT>>) /\ <<ROOT>>[1] = ROOT
  BY DEF IsRun
<1>4. <<ROOT, 1>> \in Spots(P[Top])
  BY <1>2, <1>3, FirstSpots
<1> QED
  BY <1>1, <1>2, <1>4 DEF Laid, Orderly, Neat

\* A directory that is the current one and has been deleted.
LEMMA BadCurrent ==
    ASSUME NEW w, Typed(w), NEW N, NEW R, Laid(w, N, R), ~Stands(w, N)
    PROVE  ~Unharmed(w)
<1> SUFFICES ASSUME NEW M, NEW P, Intact(w, M, P)
             PROVE  FALSE
  BY DEF Unharmed
<1>1. M = NodesOf(w) /\ N = NodesOf(w)
  BY LaidNodes DEF Intact
<1> QED
  BY <1>1 DEF Intact

\* A volume is sound, after what its free clusters hold is forgotten, exactly if
\* its nodes can be laid out.
LEMMA SoundIsUnharmed ==
    ASSUME NEW w, Typed(w), Sound(Forget(w), NodesOf(Forget(w)))
    PROVE  Unharmed(w)
<1> DEFINE f == Forget(w)
           N == NodesOf(f)
           R == RunsOf(f)
<1>1. Typed(f) /\ f.table = w.table /\ f.cwd = w.cwd
      /\ \A a \in Areas : a = ROOT \/ w.table[a] # FREE => f.cells[a] = w.cells[a]
  BY ForgetIs
<1>2. Intact(f, N, R)
  BY <1>1, SoundIsIntact
<1>3. Same(f, w, Held(R))
  <2> SUFFICES ASSUME NEW a \in Held(R)
               PROVE  w.cells[a] = f.cells[a] /\ w.table[a] = f.table[a]
    BY DEF Same
  <2>1. f.table[a] # FREE /\ a \in Areas
    BY <1>1, <1>2, HeldIsUsed DEF Intact
  <2> QED
    BY <1>1, <2>1
<1> HIDE DEF f, N, R
<1>4. Intact(w, N, R)
  BY <1>1, <1>2, <1>3, FrameIntact
<1> QED
  BY <1>4 DEF Unharmed

\* A volume that has broken, in a way that has a name.
Fallen(w) == Excused(Forget(w)) /\ ~Unharmed(w)
Broke(w) == Excused(w) /\ Fallen(w)

LEMMA FullIsForgotten ==
    ASSUME NEW w, Typed(w), FoundFull(w)
    PROVE  Excused(Forget(w))
<1>1. Forget(w).table = w.table /\ Forget(w).firstFree = w.firstFree /\ Forget(w).cells[ROOT] = w.cells[ROOT]
  <2>1. ROOT \in Areas
    BY Numbers
  <2> QED
    BY <2>1, ForgetIs
<1> DEFINE z == Forget(w)
<1> HIDE DEF z
<1>2. z.table = w.table /\ z.firstFree = w.firstFree /\ z.cells[ROOT] = w.cells[ROOT]
  BY <1>1 DEF z
<1>3. FoundFull(z)
  BY <1>2 DEF FoundFull
<1> QED
  BY <1>3 DEF Excused, z

LEMMA FullBreaks ==
    ASSUME NEW w, Typed(w), FoundFull(w), ~Unharmed(w)
    PROVE  Broke(w)
  BY FullIsForgotten DEF Broke, Fallen, Excused
=============================================================================
