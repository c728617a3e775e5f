------------------------ MODULE TableLayers_proofs ------------------------
(***************************************************************************)
(* Proofs about the two modules next to FileAllocationTable: FatLoops, the *)
(* loops its calls are made of, and FileIO, the files written through it.  *)
(* Both have the table's variables and neither has the other's, so that    *)
(* each theorem is about one of the two specifications.                    *)
(***************************************************************************)
EXTENDS FatLoops, FileIO, FileAllocationTable_proofs

------------------------------------------------------------------------
(***************************************************************************)
(* The loops of FatLoops implement the calls of FileAllocationTable, for a *)
(* table of any size.  The invariant has two parts: that of the calls, in  *)
(* the state they are mapped to (proved once, and used here through the    *)
(* instance Abs), and what a loop has in hand: the search knows the       *)
(* entries behind it to be used, and its argument is still held.  Two      *)
(* facts carry the argument: the search that stops has found what FindFree *)
(* says (SearchFinds), and erasing an entry and then the chain behind it   *)
(* erases the chain (EraseStep).                                           *)
(***************************************************************************)

\* The invariant and the lemmas of FileAllocationTable, about the calls the
\* loops make up.
Abs == INSTANCE FileAllocationTable_proofs
    WITH table <- AbsTable, heads <- AbsHeads, orphans <- AbsOrphans

------------------------------------------------------------------------
(* The operators of the two instances are those of FileAllocationTable.    *)

LEMMA Assumption == Abs!LastClusterAssumption
BY LastClusterAssumption
   DEF Abs!LastClusterAssumption, Abs!MaxLastCluster, Abs!CLUSTER_FIRST, MaxLastCluster, CLUSTER_FIRST

LEMMA SameConstants ==
    /\ Abs!CLUSTER_FREE = CLUSTER_FREE /\ Calls!CLUSTER_FREE = CLUSTER_FREE
    /\ Abs!CLUSTER_FIRST = CLUSTER_FIRST /\ Calls!CLUSTER_FIRST = CLUSTER_FIRST
    /\ Abs!CLUSTER_EOF = CLUSTER_EOF /\ Calls!CLUSTER_EOF = CLUSTER_EOF
    /\ Abs!PastEnd = PastEnd /\ Calls!PastEnd = PastEnd
    /\ Abs!Entry = Entry /\ Calls!Entry = Entry
    /\ Abs!Cluster = Cluster /\ Calls!Cluster = Cluster
    /\ Abs!Value = Value /\ Calls!Value = Value
<1>1. /\ Abs!CLUSTER_FREE = CLUSTER_FREE /\ Calls!CLUSTER_FREE = CLUSTER_FREE
      /\ Abs!CLUSTER_FIRST = CLUSTER_FIRST /\ Calls!CLUSTER_FIRST = CLUSTER_FIRST
  BY DEF Abs!CLUSTER_FREE, Calls!CLUSTER_FREE, CLUSTER_FREE,
         Abs!CLUSTER_FIRST, Calls!CLUSTER_FIRST, CLUSTER_FIRST
<1>2. Abs!CLUSTER_EOF = CLUSTER_EOF /\ Calls!CLUSTER_EOF = CLUSTER_EOF
  BY SMT DEF Abs!CLUSTER_EOF, Calls!CLUSTER_EOF, CLUSTER_EOF
<1>3. Abs!PastEnd = PastEnd /\ Calls!PastEnd = PastEnd
  BY DEF Abs!PastEnd, Calls!PastEnd, PastEnd
<1>4. /\ Abs!Entry = Entry /\ Calls!Entry = Entry
      /\ Abs!Cluster = Cluster /\ Calls!Cluster = Cluster
  BY <1>1, <1>3 DEF Abs!Entry, Calls!Entry, Entry, Abs!Cluster, Calls!Cluster, Cluster
<1>5. Abs!Value = Value /\ Calls!Value = Value
  BY <1>2, <1>4 DEF Abs!Value, Calls!Value, Value
<1> QED
  BY <1>1, <1>2, <1>3, <1>4, <1>5

LEMMA SameOperators ==
    ASSUME NEW t, NEW c, NEW h
    PROVE  /\ Abs!Chain(t, c) = Chain(t, c) /\ Calls!Chain(t, c) = Chain(t, c)
           /\ Abs!LinkFreeCluster(t, h, c) = LinkFreeCluster(t, h, c)
           /\ Calls!LinkFreeCluster(t, h, c) = LinkFreeCluster(t, h, c)
           /\ Abs!ClearLinks(t, c) = ClearLinks(t, c) /\ Calls!ClearLinks(t, c) = ClearLinks(t, c)
           /\ Abs!LoweredHint(h, c) = LoweredHint(h, c) /\ Calls!LoweredHint(h, c) = LoweredHint(h, c)
<1>1. Abs!Chain(t, c) = Chain(t, c) /\ Calls!Chain(t, c) = Chain(t, c)
  BY SameConstants DEF Abs!Chain, Calls!Chain, Chain, Abs!ClosedUnder, Calls!ClosedUnder, ClosedUnder
<1>2. Abs!ClearLinks(t, c) = ClearLinks(t, c) /\ Calls!ClearLinks(t, c) = ClearLinks(t, c)
  BY <1>1, SameConstants DEF Abs!ClearLinks, Calls!ClearLinks, ClearLinks
<1>3. Abs!LoweredHint(h, c) = LoweredHint(h, c) /\ Calls!LoweredHint(h, c) = LoweredHint(h, c)
  BY SameConstants DEF Abs!LoweredHint, Calls!LoweredHint, LoweredHint
<1>4. \A a, b : Abs!WriteFatEntry(t, a, b) = WriteFatEntry(t, a, b)
                /\ Calls!WriteFatEntry(t, a, b) = WriteFatEntry(t, a, b)
  BY SameConstants DEF Abs!WriteFatEntry, Calls!WriteFatEntry, WriteFatEntry
<1>5. \A a : Abs!FreeFrom(t, a) = FreeFrom(t, a) /\ Calls!FreeFrom(t, a) = FreeFrom(t, a)
  BY SameConstants DEF Abs!FreeFrom, Calls!FreeFrom, FreeFrom
<1>6. Abs!SearchStart(h) = SearchStart(h) /\ Calls!SearchStart(h) = SearchStart(h)
  BY SameConstants DEF Abs!SearchStart, Calls!SearchStart, SearchStart
<1>7. \A S : Abs!Min(S) = Min(S) /\ Calls!Min(S) = Min(S)
  BY DEF Abs!Min, Calls!Min, Min
<1>8. Abs!FindFree(t, h) = FindFree(t, h) /\ Calls!FindFree(t, h) = FindFree(t, h)
  BY <1>5, <1>6, <1>7, SameConstants DEF Abs!FindFree, Calls!FindFree, FindFree
<1>9. \A a, b : Abs!LinkTo(t, a, b) = LinkTo(t, a, b) /\ Calls!LinkTo(t, a, b) = LinkTo(t, a, b)
  BY <1>4, SameConstants DEF Abs!LinkTo, Calls!LinkTo, LinkTo
<1>10. \A u, a : Abs!MarkEnd(u, a) = MarkEnd(u, a) /\ Calls!MarkEnd(u, a) = MarkEnd(u, a)
  BY SameConstants DEF Abs!MarkEnd, Calls!MarkEnd, MarkEnd, Abs!WriteFatEntry, Calls!WriteFatEntry, WriteFatEntry
<1>11. Abs!HasLink(t, c) = HasLink(t, c) /\ Calls!HasLink(t, c) = HasLink(t, c)
  BY SameConstants DEF Abs!HasLink, Calls!HasLink, HasLink
<1>12. /\ Abs!LinkFreeCluster(t, h, c) = LinkFreeCluster(t, h, c)
       /\ Calls!LinkFreeCluster(t, h, c) = LinkFreeCluster(t, h, c)
  BY <1>8, <1>9, <1>10, <1>11, SameConstants
     DEF Abs!LinkFreeCluster, Calls!LinkFreeCluster, LinkFreeCluster
<1> QED
  BY <1>1, <1>2, <1>3, <1>12

LEMMA SameHeld ==
    /\ Abs!Roots = Calls!Roots
    /\ Abs!Held = Calls!Held
<1>1. Abs!Roots = Calls!Roots
  BY DEF Abs!Roots, Calls!Roots
<1>2. \A r : Abs!Chain(AbsTable, r) = Calls!Chain(AbsTable, r)
  BY SameOperators
<1> QED
  BY <1>1, <1>2, SameConstants DEF Abs!Held, Calls!Held

LEMMA SameNext == Calls!Next => Abs!Next
<1>1. ASSUME Calls!AllocHead PROVE Abs!AllocHead
  BY <1>1, SameOperators, SameConstants DEF Abs!AllocHead, Calls!AllocHead
<1>2. ASSUME NEW c, Calls!Extend(c) PROVE Abs!Extend(c)
  BY <1>2, SameOperators, SameConstants, SameHeld DEF Abs!Extend, Calls!Extend
<1>3. ASSUME NEW h, Calls!Release(h) PROVE Abs!Release(h)
  BY <1>3, SameOperators, SameConstants DEF Abs!Release, Calls!Release
<1>4. ASSUME Calls!Remount PROVE Abs!Remount
  BY <1>4, SameConstants DEF Abs!Remount, Calls!Remount
<1> QED
  BY <1>1, <1>2, <1>3, <1>4, SameConstants DEF Abs!Next, Calls!Next

------------------------------------------------------------------------
(* The invariant.                                                          *)

\* How far the search has come: entries up to cur are used, after the wrap
\* around also those from the hint on.
Searched ==
    IF looped
    THEN /\ cur \in Cluster
         /\ \A e \in {firstFree} \cup (firstFree .. LastCluster) : table[e] # CLUSTER_FREE
         /\ \A e \in CLUSTER_FIRST .. cur - 1 : table[e] # CLUSTER_FREE
    ELSE /\ cur \in {firstFree} \cup (firstFree .. LastCluster)
         /\ \A e \in firstFree .. cur - 1 : table[e] # CLUSTER_FREE

LoopFacts ==
    /\ table \in [Entry -> Value] /\ FixedEntries /\ table[LastCluster] # PastEnd
    /\ loc \in {"idle", "scan", "link", "mark", "clear", "walk"}
    /\ keep \in BOOLEAN /\ looped \in BOOLEAN
    /\ loc \in {"scan", "link", "mark"} =>
            arg \in 0 .. LastCluster /\ (keep => arg = CLUSTER_FREE)
    /\ loc = "scan" => ~HasLink(table, arg) /\ (~keep => arg \in Held) /\ Searched
    /\ loc \in {"link", "mark"} => cur \in CLUSTER_FIRST .. PastEnd
    /\ loc = "clear" => cur \in Entry

\* What the loops have in hand, and the invariant of the calls they make up.
LoopInv == Abs!IInv /\ LoopFacts

AbsVars == <<AbsTable, firstFree, AbsHeads, AbsOrphans>>

\* The mapped state by the place the call is at.
AbsCases ==
    /\ loc \in {"idle", "scan", "walk"} =>
            AbsTable = table /\ AbsHeads = heads /\ AbsOrphans = orphans
    /\ loc = "link" => AbsTable = MarkEnd(LinkTo(table, arg, cur), cur)
    /\ loc = "mark" => AbsTable = MarkEnd(table, cur)
    /\ loc \in {"link", "mark"} =>
            /\ AbsHeads = IF keep THEN heads \cup {cur} ELSE heads
            /\ AbsOrphans = IF Unlinked THEN orphans \cup {cur} ELSE orphans
    /\ loc = "clear" =>
            /\ AbsTable = ClearLinks(table, cur)
            /\ AbsHeads = heads \ {arg}
            /\ AbsOrphans = orphans

LEMMA AbsCasesHold == AbsCases /\ AbsCases'
<1>1. AbsCases
  BY DEF AbsCases, AbsTable, AbsHeads, AbsOrphans
<1>2. AbsCases'
  BY DEF AbsCases, AbsTable, AbsHeads, AbsOrphans
<1> QED
  BY <1>1, <1>2

\* While nothing is half done the mapped state is the state.
LEMMA AtRest ==
    ASSUME Abs!IInv, loc \in {"idle", "scan", "walk"}
    PROVE  /\ AbsTable = table /\ AbsHeads = heads /\ AbsOrphans = orphans
           /\ Calls!Held = Held
           /\ firstFree \in CLUSTER_FIRST .. PastEnd
           /\ \A c \in Held \cap Cluster : table[c] # CLUSTER_FREE
<1>1. AbsTable = table /\ AbsHeads = heads /\ AbsOrphans = orphans
  BY AbsCasesHold DEF AbsCases
<1>2. Calls!Held = Held
  <2>1. Calls!Roots = Roots
    BY <1>1 DEF Calls!Roots, Roots
  <2>2. \A r : Calls!Chain(AbsTable, r) = Chain(table, r)
    BY <1>1, SameOperators
  <2> QED
    BY <1>1, <2>1, <2>2, SameConstants DEF Calls!Held, Held
<1>3. firstFree \in CLUSTER_FIRST .. PastEnd
  BY SameConstants DEF Abs!IInv, Abs!TypeOK
<1>4. \A c \in Abs!Held \cap Abs!Cluster : AbsTable[c] # Abs!CLUSTER_FREE
  BY Assumption, Abs!HeldIsAllocated
<1> QED
  BY <1>1, <1>2, <1>3, <1>4, SameHeld, SameConstants

\* A step that leaves the mapped state alone keeps its invariant.
LEMMA StutterKeeps ==
    ASSUME Abs!IInv, UNCHANGED AbsVars
    PROVE  /\ [Calls!Next]_(Calls!vars)
           /\ Abs!IInv'
<1>1. UNCHANGED Abs!vars /\ UNCHANGED Calls!vars
  BY DEF AbsVars, Abs!vars, Calls!vars
<1> QED
  BY <1>1, Assumption, Abs!NextInvariant

\* So does a call.
LEMMA CallKeeps ==
    ASSUME Abs!IInv, Calls!Next
    PROVE  Abs!IInv'
BY Assumption, SameNext, Abs!NextInvariant

------------------------------------------------------------------------
(* linkFreeCluster.                                                        *)

\* The least element of a set of numbers.
LEMMA MinIs ==
    ASSUME NEW S \in SUBSET Nat, NEW n \in S, \A m \in S : n <= m
    PROVE  Min(S) = n
<1>1. Min(S) \in S /\ \A m \in S : Min(S) <= m
  BY DEF Min
<1>2. Min(S) <= n /\ n <= Min(S) /\ Min(S) \in Nat /\ n \in Nat
  BY <1>1
<1> QED
  BY <1>2

\* The search that stops at a free entry has found what FindFree says.
LEMMA SearchFinds ==
    ASSUME LoopInv, loc = "scan", table[cur] = CLUSTER_FREE
    PROVE  FindFree(table, firstFree) = cur /\ cur \in CLUSTER_FIRST .. PastEnd
<1>1. firstFree \in CLUSTER_FIRST .. PastEnd /\ Searched /\ looped \in BOOLEAN
  BY AtRest DEF LoopInv, LoopFacts
<1>2. SearchStart(firstFree) = firstFree /\ firstFree \in Nat
  BY <1>1, ConstantOrder DEF SearchStart
<1> DEFINE ahead == FreeFrom(table, firstFree)
           behind == FreeFrom(table, CLUSTER_FIRST)
<1>3. ahead \in SUBSET Nat /\ behind \in SUBSET Nat
  BY <1>2, ConstantOrder DEF FreeFrom
<1>4. CASE ~looped
  <2>1. /\ cur \in {firstFree} \cup (firstFree .. LastCluster)
        /\ \A e \in firstFree .. cur - 1 : table[e] # CLUSTER_FREE
    BY <1>1, <1>4 DEF Searched
  <2>2. cur \in ahead
    BY <2>1 DEF FreeFrom
  <2>3. \A m \in ahead : cur <= m
    BY <1>2, <2>1, ConstantOrder DEF FreeFrom
  <2>4. Min(ahead) = cur
    BY <1>3, <2>2, <2>3, MinIs
  <2> QED
    BY <1>1, <1>2, <2>1, <2>2, <2>4, ConstantOrder DEF FindFree
<1>5. CASE looped
  <2>1. /\ cur \in Cluster
        /\ \A e \in {firstFree} \cup (firstFree .. LastCluster) : table[e] # CLUSTER_FREE
        /\ \A e \in CLUSTER_FIRST .. cur - 1 : table[e] # CLUSTER_FREE
    BY <1>1, <1>5 DEF Searched
  <2>2. ahead = {}
    BY <2>1 DEF FreeFrom
  <2>3. cur \in behind /\ \A m \in behind : cur <= m
    BY <2>1, ConstantOrder DEF FreeFrom, Cluster
  <2>4. Min(behind) = cur
    BY <1>3, <2>3, MinIs
  <2> QED
    BY <1>2, <2>1, <2>2, <2>3, <2>4, ConstantOrder DEF FindFree, Cluster
<1> QED
  BY <1>1, <1>4, <1>5

LEMMA BeginLinkStep ==
    ASSUME LoopInv, NEW c \in Entry, NEW k \in BOOLEAN, BeginLink(c, k)
    PROVE  UNCHANGED AbsVars /\ LoopFacts'
<1>1. /\ AbsTable = table /\ AbsHeads = heads /\ AbsOrphans = orphans
      /\ firstFree \in CLUSTER_FIRST .. PastEnd
  BY AtRest DEF LoopInv, BeginLink
<1>2. /\ loc' = "scan" /\ arg' = c /\ keep' = k /\ cur' = SearchStart(firstFree) /\ looped' = FALSE
      /\ table' = table /\ firstFree' = firstFree /\ heads' = heads /\ orphans' = orphans
      /\ IF k THEN c = CLUSTER_FREE ELSE c \in Held
      /\ c <= LastCluster /\ ~HasLink(table, c)
  BY DEF BeginLink, vars
<1>3. UNCHANGED AbsVars
  BY <1>1, <1>2, AbsCasesHold DEF AbsCases, AbsVars
<1>4. cur' = firstFree /\ firstFree \in Nat
  BY <1>1, <1>2, ConstantOrder DEF SearchStart
<1>5. Searched'
  BY <1>1, <1>2, <1>4 DEF Searched
<1>6. c \in 0 .. LastCluster
  BY <1>2, ConstantOrder DEF Entry
<1>7. Held' = Held
  BY <1>2 DEF Held, Roots
<1>8. LoopFacts'
  BY <1>2, <1>5, <1>6, <1>7 DEF LoopInv, LoopFacts, FixedEntries, HasLink
<1> QED
  BY <1>3, <1>8

\* While it goes on the search changes nothing.
LEMMA ScanStep ==
    ASSUME LoopInv, ScanUsed \/ ScanWrap
    PROVE  UNCHANGED AbsVars /\ LoopFacts'
<1>1. /\ AbsTable = table /\ AbsHeads = heads /\ AbsOrphans = orphans
      /\ firstFree \in CLUSTER_FIRST .. PastEnd /\ Searched /\ looped \in BOOLEAN
  BY AtRest DEF LoopInv, LoopFacts, ScanUsed, ScanWrap
<1>2. /\ loc = "scan" /\ loc' = "scan" /\ arg' = arg /\ keep' = keep
      /\ table' = table /\ firstFree' = firstFree /\ heads' = heads /\ orphans' = orphans
      /\ table[cur] # CLUSTER_FREE
  BY DEF ScanUsed, ScanWrap, vars
<1>3. UNCHANGED AbsVars
  BY <1>1, <1>2, AbsCasesHold DEF AbsCases, AbsVars
<1>4. looped' \in BOOLEAN /\ Searched'
  <2>1. CASE ScanUsed
    <3>1. cur' = cur + 1 /\ looped' = looped /\ cur + 1 <= LastCluster
      BY <2>1 DEF ScanUsed
    <3>2. CASE looped
      BY <1>1, <1>2, <3>1, <3>2, ConstantOrder DEF Searched, Cluster
    <3>3. CASE ~looped
      BY <1>1, <1>2, <3>1, <3>3, ConstantOrder DEF Searched
    <3> QED
      BY <1>1, <3>1, <3>2, <3>3
  <2>2. CASE ScanWrap
    <3>1. cur' = CLUSTER_FIRST /\ looped' = TRUE /\ ~looped /\ cur + 1 > LastCluster
      BY <2>2 DEF ScanWrap
    <3>2. \A e \in {firstFree} \cup (firstFree .. LastCluster) : table[e] # CLUSTER_FREE
      BY <1>1, <1>2, <3>1, ConstantOrder DEF Searched
    <3>3. CLUSTER_FIRST \in Cluster
      BY ConstantOrder DEF Cluster
    <3>4. CLUSTER_FIRST .. CLUSTER_FIRST - 1 = {}
      BY ConstantOrder
    <3> QED
      BY <1>2, <3>1, <3>2, <3>3, <3>4 DEF Searched
  <2> QED
    BY <2>1, <2>2
<1>5. Held' = Held
  BY <1>2 DEF Held, Roots
<1>6. LoopFacts'
  BY <1>2, <1>4, <1>5 DEF LoopInv, LoopFacts, FixedEntries, HasLink
<1> QED
  BY <1>3, <1>6

\* The search that finds nothing is the call on a full volume.
LEMMA ScanFullStep ==
    ASSUME LoopInv, ScanFull
    PROVE  Calls!Next /\ LoopFacts'
<1>1. /\ AbsTable = table /\ AbsHeads = heads /\ AbsOrphans = orphans
      /\ firstFree \in CLUSTER_FIRST .. PastEnd /\ Searched /\ Calls!Held = Held
  BY AtRest DEF LoopInv, LoopFacts, ScanFull
<1>2. /\ loc = "scan" /\ table[cur] # CLUSTER_FREE /\ cur + 1 > LastCluster /\ looped
      /\ firstFree' = cur + 1 /\ table' = table /\ heads' = heads /\ orphans' = orphans
      /\ loc' = "idle" /\ arg' = CLUSTER_FREE /\ keep' = FALSE /\ looped' = FALSE
  BY DEF ScanFull, Return
<1>3. /\ cur \in Cluster
      /\ \A e \in {firstFree} \cup (firstFree .. LastCluster) : table[e] # CLUSTER_FREE
      /\ \A e \in CLUSTER_FIRST .. cur - 1 : table[e] # CLUSTER_FREE
  BY <1>1, <1>2 DEF Searched
<1>4. cur = LastCluster /\ firstFree' = PastEnd
  BY <1>2, <1>3, ConstantOrder DEF Cluster
<1>5. FindFree(table, firstFree) = CLUSTER_FREE
  <2>1. SearchStart(firstFree) = firstFree
    BY <1>1, ConstantOrder DEF SearchStart
  <2>2. FreeFrom(table, firstFree) = {}
    BY <1>3 DEF FreeFrom
  <2>3. FreeFrom(table, CLUSTER_FIRST) = {}
    BY <1>2, <1>3, <1>4, ConstantOrder DEF FreeFrom
  <2> QED
    BY <2>1, <2>2, <2>3 DEF FindFree
<1>6. /\ arg \in 0 .. LastCluster /\ (keep => arg = CLUSTER_FREE) /\ keep \in BOOLEAN
      /\ ~HasLink(table, arg) /\ (~keep => arg \in Held)
  BY <1>2 DEF LoopInv, LoopFacts
<1>7. LinkFreeCluster(table, firstFree, arg) =
        [table |-> table, firstFree |-> PastEnd, ret |-> CLUSTER_FREE]
  <2>1. ~(arg > LastCluster)
    BY <1>6, ConstantOrder
  <2> QED
    BY <1>5, <1>6, <2>1 DEF LinkFreeCluster
<1>8. AbsTable' = table /\ AbsHeads' = heads /\ AbsOrphans' = orphans
  BY <1>2, AbsCasesHold DEF AbsCases
<1>9. Calls!Next
  <2>1. CASE keep
    <3>1. Calls!AllocHead
      BY <1>1, <1>4, <1>6, <1>7, <1>8, <2>1, SameOperators, SameConstants DEF Calls!AllocHead
    <3> QED
      BY <3>1 DEF Calls!Next
  <2>2. CASE ~keep
    <3>1. Calls!Extend(arg)
      BY <1>1, <1>4, <1>6, <1>7, <1>8, <2>2, SameOperators, SameConstants DEF Calls!Extend
    <3>2. arg \in Calls!Entry
      BY <1>6, SameConstants, ConstantOrder DEF Entry
    <3> QED
      BY <3>1, <3>2 DEF Calls!Next
  <2> QED
    BY <1>6, <2>1, <2>2
<1>10. LoopFacts'
  BY <1>2 DEF LoopInv, LoopFacts, FixedEntries
<1> QED
  BY <1>9, <1>10

\* When the search has found a cluster the call has in effect happened.
LEMMA ScanFreeStep ==
    ASSUME LoopInv, ScanFree
    PROVE  Calls!Next /\ LoopFacts'
<1> DEFINE u == MarkEnd(LinkTo(table, arg, cur), cur)
<1>1. /\ AbsTable = table /\ AbsHeads = heads /\ AbsOrphans = orphans
      /\ Calls!Held = Held
      /\ \A c \in Held \cap Cluster : table[c] # CLUSTER_FREE
  BY AtRest DEF LoopInv, ScanFree
<1>2. /\ loc = "scan" /\ table[cur] = CLUSTER_FREE /\ firstFree' = cur /\ loc' = "link"
      /\ table' = table /\ heads' = heads /\ orphans' = orphans
      /\ arg' = arg /\ keep' = keep /\ cur' = cur /\ looped' = looped
  BY DEF ScanFree
<1>3. /\ arg \in 0 .. LastCluster /\ (keep => arg = CLUSTER_FREE) /\ keep \in BOOLEAN
      /\ ~HasLink(table, arg) /\ (~keep => arg \in Held)
      /\ table \in [Entry -> Value] /\ FixedEntries /\ table[LastCluster] # PastEnd
  BY <1>2 DEF LoopInv, LoopFacts
<1>4. FindFree(table, firstFree) = cur /\ cur \in CLUSTER_FIRST .. PastEnd
  BY <1>2, SearchFinds
<1>5. cur # CLUSTER_FREE /\ arg \in Entry /\ ~(arg > LastCluster)
  BY <1>3, <1>4, ConstantOrder DEF Entry
<1>6. LinkFreeCluster(table, firstFree, arg) = [table |-> u, firstFree |-> cur, ret |-> cur]
  BY <1>3, <1>4, <1>5 DEF LinkFreeCluster
<1>7. /\ AbsTable' = u
      /\ AbsHeads' = IF keep THEN heads \cup {cur} ELSE heads
      /\ AbsOrphans' = IF Unlinked THEN orphans \cup {cur} ELSE orphans
  <2>1. Unlinked' = Unlinked
    BY <1>2 DEF Unlinked
  <2> QED
    BY <1>2, <2>1, AbsCasesHold DEF AbsCases
<1> HIDE DEF u
<1>8. ASSUME keep
      PROVE  Calls!Next
  <2>1. ~Unlinked
    BY <1>8 DEF Unlinked
  <2>2. Calls!AllocHead
    BY <1>1, <1>2, <1>3, <1>5, <1>6, <1>7, <1>8, <2>1, SameOperators, SameConstants
       DEF Calls!AllocHead
  <2> QED
    BY <2>2 DEF Calls!Next
<1>9. ASSUME ~keep
      PROVE  Calls!Next
  <2>1. arg # cur
    <3>1. CASE arg \in Cluster
      BY <1>1, <1>2, <1>3, <1>9, <3>1
    <3>2. CASE arg \notin Cluster
      BY <1>3, <1>4, <3>2, ConstantOrder DEF Cluster
    <3> QED
      BY <3>1, <3>2
  <2>2. u[arg] = IF arg \in CLUSTER_FIRST .. LastCluster - 1 THEN cur ELSE table[arg]
    BY <1>3, <1>4, <1>5, <2>1, GrantedTable DEF u
  <2>3. u[arg] # cur <=> Unlinked
    <3>1. CASE arg \in CLUSTER_FIRST .. LastCluster - 1
      BY <2>2, <3>1, <1>9, ConstantOrder DEF Unlinked
    <3>2. CASE arg = LastCluster
      <4>1. u[arg] = table[LastCluster] /\ Unlinked
        BY <2>2, <3>2, <1>9, ConstantOrder DEF Unlinked
      <4>2. table[LastCluster] # cur
        BY <1>3, <1>4, <3>2, ConstantOrder DEF HasLink, Cluster
      <4> QED
        BY <4>1, <4>2
    <3>3. CASE arg < CLUSTER_FIRST
      <4>1. arg \in {0, 1}
        BY <1>3, <3>3, ConstantOrder
      <4>2. u[arg] = CLUSTER_EOF /\ Unlinked
        BY <1>3, <2>2, <3>3, <1>9, <4>1, ConstantOrder DEF Unlinked, FixedEntries
      <4>3. CLUSTER_EOF # cur
        BY <1>4, ConstantOrder
      <4> QED
        BY <4>2, <4>3
    <3> QED
      BY <1>3, <3>1, <3>2, <3>3, ConstantOrder
  <2>4. AbsOrphans' = orphans \cup {n \in {cur} \ {CLUSTER_FREE} : u[arg] # n}
    BY <1>5, <1>7, <2>3
  <2>5. Calls!Extend(arg)
    BY <1>1, <1>2, <1>3, <1>6, <1>7, <1>9, <2>4, SameOperators, SameConstants DEF Calls!Extend
  <2> QED
    BY <1>5, <2>5, SameConstants DEF Calls!Next
<1>10. LoopFacts'
  BY <1>2, <1>3, <1>4 DEF LoopInv, LoopFacts, FixedEntries
<1> QED
  BY <1>3, <1>8, <1>9, <1>10

\* The two writes complete what the mapped state has from the start.
LEMMA LinkStepStutters ==
    ASSUME LoopInv, LinkStep
    PROVE  UNCHANGED AbsVars /\ LoopFacts'
<1>1. /\ loc = "link" /\ loc' = "mark" /\ table' = LinkTo(table, arg, cur)
      /\ firstFree' = firstFree /\ heads' = heads /\ orphans' = orphans
      /\ arg' = arg /\ keep' = keep /\ cur' = cur /\ looped' = looped
  BY DEF LinkStep
<1>2. /\ arg \in 0 .. LastCluster /\ cur \in CLUSTER_FIRST .. PastEnd
      /\ table \in [Entry -> Value] /\ FixedEntries /\ table[LastCluster] # PastEnd
  BY <1>1 DEF LoopInv, LoopFacts
<1>3. Unlinked' = Unlinked
  BY <1>1 DEF Unlinked
<1>4. UNCHANGED AbsVars
  BY <1>1, <1>3, AbsCasesHold DEF AbsCases, AbsVars
<1>5. /\ table' \in [Entry -> Value]
      /\ \A e \in Entry : e \notin CLUSTER_FIRST .. LastCluster - 1 => table'[e] = table[e]
  BY <1>1, <1>2, ConstantOrder DEF LinkTo, WriteFatEntry, Cluster, Entry, Value
<1>6. \A e \in {0, 1, LastCluster, PastEnd} :
          e \in Entry /\ e \notin CLUSTER_FIRST .. LastCluster - 1
  BY ConstantOrder DEF Entry
<1>7. FixedEntries' /\ table'[LastCluster] # PastEnd
  BY <1>2, <1>5, <1>6 DEF FixedEntries
<1>8. LoopFacts'
  BY <1>1, <1>2, <1>5, <1>7 DEF LoopInv, LoopFacts
<1> QED
  BY <1>4, <1>8

LEMMA MarkStepStutters ==
    ASSUME LoopInv, MarkStep
    PROVE  UNCHANGED AbsVars /\ LoopFacts'
<1>1. /\ loc = "mark" /\ loc' = "idle" /\ table' = MarkEnd(table, cur)
      /\ firstFree' = firstFree /\ keep' = FALSE /\ looped' = FALSE
      /\ heads' = IF keep THEN heads \cup {cur} ELSE heads
      /\ orphans' = IF Unlinked THEN orphans \cup {cur} ELSE orphans
  BY DEF MarkStep, Return
<1>2. /\ cur \in CLUSTER_FIRST .. PastEnd
      /\ table \in [Entry -> Value] /\ FixedEntries /\ table[LastCluster] # PastEnd
  BY <1>1 DEF LoopInv, LoopFacts
<1>3. UNCHANGED AbsVars
  BY <1>1, AbsCasesHold DEF AbsCases, AbsVars
<1>4. /\ table' \in [Entry -> Value]
      /\ \A e \in Entry : table'[e] = IF e = cur /\ cur \in Cluster THEN CLUSTER_EOF ELSE table[e]
  BY <1>1, <1>2, ConstantOrder DEF MarkEnd, WriteFatEntry, Cluster, Entry, Value
<1>5. FixedEntries' /\ table'[LastCluster] # PastEnd
  BY <1>2, <1>4, ConstantOrder DEF FixedEntries, Entry, Cluster
<1>6. LoopFacts'
  BY <1>1, <1>4, <1>5 DEF LoopInv, LoopFacts
<1> QED
  BY <1>3, <1>6

------------------------------------------------------------------------
(* clearLinks.                                                             *)

LEMMA NoChain ==
    ASSUME NEW t, NEW c, c \notin Cluster
    PROVE  Chain(t, c) = {}
<1>1. ClosedUnder(t, {}) /\ {} \in SUBSET Cluster
  BY DEF ClosedUnder
<1> QED
  BY <1>1, ChainLeast

\* Erasing an entry and then the chain behind it erases the chain.
LEMMA EraseStep ==
    ASSUME NEW t \in [Entry -> Value], NEW c \in Entry,
           t[0] = CLUSTER_EOF, t[1] = CLUSTER_EOF, t[PastEnd] = CLUSTER_FREE
    PROVE  LET u == WriteFatEntry(t, c, CLUSTER_FREE)
           IN  /\ u \in [Entry -> Value]
               /\ \A e \in Entry : u[e] = IF e = c /\ c \in Cluster THEN CLUSTER_FREE ELSE t[e]
               /\ t[c] \notin Cluster => ClearLinks(t, c) = u
               /\ ClearLinks(t, c) = ClearLinks(u, t[c])
<1> DEFINE u == WriteFatEntry(t, c, CLUSTER_FREE)
<1> DEFINE n == t[c]
<1>1. /\ u \in [Entry -> Value]
      /\ \A e \in Entry : u[e] = IF e = c /\ c \in Cluster THEN CLUSTER_FREE ELSE t[e]
      /\ c \notin Cluster => u = t
  BY ConstantOrder DEF WriteFatEntry, Cluster, Entry, Value
<1>2. CLUSTER_FREE \notin Cluster /\ CLUSTER_EOF \notin Cluster /\ Cluster \subseteq Entry
  BY ConstantOrder DEF Cluster, Entry
<1> HIDE DEF u, n
<1>3. CASE c \notin Cluster
  <2>1. c \in {0, 1, PastEnd}
    BY <1>3, ConstantOrder DEF Entry, Cluster
  <2>2. n \notin Cluster
    BY <1>2, <2>1 DEF n
  <2>3. Chain(t, c) = {} /\ Chain(u, n) = {} /\ u = t
    BY <1>1, <1>3, <2>2, NoChain
  <2>4. ClearLinks(t, c) = t /\ ClearLinks(u, n) = t
    BY <2>3 DEF ClearLinks
  <2> QED
    BY <1>1, <2>3, <2>4 DEF u, n
<1>4. CASE c \in Cluster
  <2>1. Chain(u, n) \subseteq Chain(t, c)
    <3>1. ClosedUnder(u, Chain(t, c))
      BY <1>1, <1>2, <1>4, ChainClosed DEF ClosedUnder
    <3>2. Chain(t, c) \in SUBSET Cluster /\ (n \in Cluster => n \in Chain(t, c))
      BY <1>4, ChainClosed DEF ClosedUnder, n
    <3> QED
      BY <3>1, <3>2, ChainLeast
  <2>2. Chain(t, c) \subseteq {c} \cup Chain(u, n)
    <3> DEFINE S == {c} \cup Chain(u, n)
    <3>1. S \in SUBSET Cluster /\ c \in S
      BY <1>4, ChainClosed
    <3>2. ASSUME NEW d \in S, t[d] \in Cluster
          PROVE  t[d] \in S
      <4>1. CASE d = c
        BY <3>2, <4>1, ChainClosed DEF n
      <4>2. CASE d # c
        <5>1. d \in Chain(u, n) /\ d \in Entry
          BY <1>2, <3>1, <4>2
        <5>2. u[d] = t[d]
          BY <1>1, <4>2, <5>1
        <5> QED
          BY <3>2, <5>1, <5>2, ChainClosed DEF ClosedUnder
      <4> QED
        BY <4>1, <4>2
    <3>3. ClosedUnder(t, S)
      BY <3>2 DEF ClosedUnder
    <3> HIDE DEF S
    <3>4. Chain(t, c) \subseteq S
      BY <3>1, <3>3, ChainLeast
    <3> QED
      BY <3>4 DEF S
  <2>3. c \in Chain(t, c)
    BY <1>4, ChainClosed
  <2>4. ClearLinks(t, c) = ClearLinks(u, n)
    <3>1. \A e \in Entry : (IF e \in Chain(t, c) THEN CLUSTER_FREE ELSE t[e])
                            = (IF e \in Chain(u, n) THEN CLUSTER_FREE ELSE u[e])
      BY <1>1, <1>4, <2>1, <2>2, <2>3
    <3> QED
      BY <3>1 DEF ClearLinks
  <2>5. n \notin Cluster => ClearLinks(u, n) = u
    <3> SUFFICES ASSUME n \notin Cluster PROVE ClearLinks(u, n) = u
      OBVIOUS
    <3>1. Chain(u, n) = {}
      BY NoChain
    <3> QED
      BY <1>1, <3>1 DEF ClearLinks
  <2> QED
    BY <1>1, <2>4, <2>5 DEF u, n
<1> QED
  BY <1>3, <1>4

\* The call has in effect happened when the loop begins.
LEMMA BeginClearStep ==
    ASSUME LoopInv, NEW h \in Entry, BeginClear(h)
    PROVE  Calls!Next /\ LoopFacts'
<1>1. AbsTable = table /\ AbsHeads = heads /\ AbsOrphans = orphans
  BY AtRest DEF LoopInv, BeginClear
<1>2. /\ loc' = "clear" /\ cur' = h /\ arg' = h /\ h \in heads
      /\ firstFree' = LoweredHint(firstFree, h)
      /\ table' = table /\ heads' = heads /\ orphans' = orphans
      /\ keep' = keep /\ looped' = looped
  BY DEF BeginClear
<1>3. /\ AbsTable' = ClearLinks(table, h)
      /\ AbsHeads' = heads \ {h} /\ AbsOrphans' = orphans
  BY <1>2, AbsCasesHold DEF AbsCases
<1>4. Calls!Release(h)
  BY <1>1, <1>2, <1>3, SameOperators DEF Calls!Release
<1>5. LoopFacts'
  BY <1>2 DEF LoopInv, LoopFacts, FixedEntries
<1> QED
  BY <1>4, <1>5, SameConstants DEF Calls!Next

\* A start cluster that is none has no chain.
LEMMA RefuseClearStep ==
    ASSUME LoopInv, NEW h \in Entry, RefuseClear(h)
    PROVE  Calls!Next /\ LoopFacts'
<1>1. AbsTable = table /\ AbsHeads = heads /\ AbsOrphans = orphans
  BY AtRest DEF LoopInv, RefuseClear
<1>2. /\ loc = "idle" /\ h \in heads /\ h \notin Cluster /\ heads' = heads \ {h}
      /\ table' = table /\ firstFree' = firstFree /\ orphans' = orphans
      /\ loc' = loc /\ arg' = arg /\ keep' = keep /\ cur' = cur /\ looped' = looped
  BY DEF RefuseClear, call
<1>3. AbsTable' = table /\ AbsHeads' = heads \ {h} /\ AbsOrphans' = orphans
  BY <1>2, AbsCasesHold DEF AbsCases
<1>4. ClearLinks(table, h) = table /\ LoweredHint(firstFree, h) = firstFree
  <2>1. table \in [Entry -> Value]
    BY DEF LoopInv, LoopFacts
  <2> QED
    BY <1>2, <2>1, NoChain DEF ClearLinks, LoweredHint
<1>5. Calls!Release(h)
  BY <1>1, <1>2, <1>3, <1>4, SameOperators DEF Calls!Release
<1>6. LoopFacts'
  BY <1>2 DEF LoopInv, LoopFacts, FixedEntries
<1> QED
  BY <1>5, <1>6, SameConstants DEF Calls!Next

LEMMA ClearStepStutters ==
    ASSUME LoopInv, ClearStep
    PROVE  UNCHANGED AbsVars /\ LoopFacts'
<1>1. /\ loc = "clear" /\ table' = WriteFatEntry(table, cur, CLUSTER_FREE)
      /\ firstFree' = firstFree /\ orphans' = orphans
  BY DEF ClearStep
<1>2. /\ cur \in Entry /\ table \in [Entry -> Value] /\ FixedEntries
      /\ table[LastCluster] # PastEnd /\ keep \in BOOLEAN /\ looped \in BOOLEAN
  BY <1>1 DEF LoopInv, LoopFacts
<1>3. /\ table' \in [Entry -> Value]
      /\ \A e \in Entry :
            table'[e] = IF e = cur /\ cur \in Cluster THEN CLUSTER_FREE ELSE table[e]
      /\ table[cur] \notin Cluster => ClearLinks(table, cur) = table'
      /\ ClearLinks(table, cur) = ClearLinks(table', table[cur])
  BY <1>1, <1>2, EraseStep DEF FixedEntries
<1>4. AbsTable = ClearLinks(table, cur) /\ AbsHeads = heads \ {arg} /\ AbsOrphans = orphans
  BY <1>1, AbsCasesHold DEF AbsCases
<1>5. FixedEntries' /\ table'[LastCluster] # PastEnd
  BY <1>2, <1>3, ConstantOrder DEF FixedEntries, Entry, Cluster
<1>6. CASE table[cur] \in {CLUSTER_EOF, CLUSTER_FREE}
  <2>1. /\ heads' = heads \ {arg}
        /\ loc' = "idle" /\ keep' = FALSE /\ looped' = FALSE
    BY <1>6 DEF ClearStep, Return
  <2>2. table[cur] \notin Cluster
    BY <1>6, ConstantOrder DEF Cluster
  <2>3. AbsTable' = table' /\ AbsHeads' = heads' /\ AbsOrphans' = orphans'
    BY <2>1, AbsCasesHold DEF AbsCases
  <2>4. UNCHANGED AbsVars
    BY <1>1, <1>3, <1>4, <2>1, <2>2, <2>3 DEF AbsVars
  <2>5. LoopFacts'
    BY <1>3, <1>5, <2>1 DEF LoopFacts
  <2> QED
    BY <2>4, <2>5
<1>7. CASE table[cur] \notin {CLUSTER_EOF, CLUSTER_FREE}
  <2>1. /\ cur' = table[cur] /\ heads' = heads
        /\ loc' = loc /\ arg' = arg /\ keep' = keep /\ looped' = looped
    BY <1>7 DEF ClearStep
  <2>2. /\ AbsTable' = ClearLinks(table', cur')
        /\ AbsHeads' = heads' \ {arg'} /\ AbsOrphans' = orphans'
    BY <1>1, <2>1, AbsCasesHold DEF AbsCases
  <2>3. UNCHANGED AbsVars
    BY <1>1, <1>3, <1>4, <2>1, <2>2 DEF AbsVars
  <2>4. cur' \in Entry
    BY <1>2, <1>7, <2>1 DEF Value
  <2>5. LoopFacts'
    BY <1>1, <1>2, <1>3, <1>5, <2>1, <2>4 DEF LoopFacts
  <2> QED
    BY <2>3, <2>5
<1> QED
  BY <1>6, <1>7

------------------------------------------------------------------------
(* The other calls.                                                        *)

\* Walking a chain changes nothing.
LEMMA WalkStutters ==
    ASSUME LoopInv, WalkStep \/ \E c \in Entry : BeginWalk(c)
    PROVE  UNCHANGED AbsVars /\ LoopFacts'
<1>1. /\ loc \in {"idle", "walk"} /\ loc' \in {"idle", "walk"}
      /\ table' = table /\ firstFree' = firstFree /\ heads' = heads /\ orphans' = orphans
      /\ keep' \in {keep, FALSE} /\ looped' \in {looped, FALSE}
  BY DEF WalkStep, BeginWalk, Return, vars
<1>2. UNCHANGED AbsVars
  BY <1>1, AbsCasesHold DEF AbsCases, AbsVars
<1>3. LoopFacts'
  BY <1>1 DEF LoopInv, LoopFacts, FixedEntries
<1> QED
  BY <1>2, <1>3

LEMMA RemountStep ==
    ASSUME LoopInv, loc = "idle", Remount, UNCHANGED call
    PROVE  Calls!Next /\ LoopFacts'
<1>1. /\ loc' = "idle" /\ firstFree' = CLUSTER_FIRST
      /\ table' = table /\ heads' = heads /\ orphans' = orphans
      /\ keep' = keep /\ looped' = looped
  BY DEF Remount, call
<1>2. Calls!Remount
  BY <1>1, SameConstants, AbsCasesHold DEF AbsCases, Calls!Remount
<1>3. LoopFacts'
  BY <1>1 DEF LoopInv, LoopFacts, FixedEntries
<1> QED
  BY <1>2, <1>3 DEF Calls!Next

LEMMA IdleStutters ==
    ASSUME LoopInv, UNCHANGED loopVars
    PROVE  UNCHANGED AbsVars /\ LoopFacts'
<1>1. /\ loc' = loc /\ arg' = arg /\ keep' = keep /\ cur' = cur /\ looped' = looped
      /\ table' = table /\ firstFree' = firstFree /\ heads' = heads /\ orphans' = orphans
  BY DEF loopVars, vars, call
<1>2. UNCHANGED AbsVars
  BY <1>1 DEF AbsVars, AbsTable, AbsHeads, AbsOrphans, Unlinked
<1>3. LoopFacts'
  BY <1>1 DEF LoopInv, LoopFacts, FixedEntries, HasLink, Held, Roots, Searched
<1> QED
  BY <1>2, <1>3

------------------------------------------------------------------------

LEMMA LoopInitHolds == LoopInit => LoopInv /\ Calls!Init
<1> SUFFICES ASSUME LoopInit PROVE LoopInv /\ Calls!Init
  OBVIOUS
<1>1. loc = "idle" /\ keep = FALSE /\ looped = FALSE /\ Init
  BY DEF LoopInit
<1>2. AbsTable = table /\ AbsHeads = heads /\ AbsOrphans = orphans
  BY <1>1, AbsCasesHold DEF AbsCases
<1>3. Abs!InitialTable = InitialTable /\ Calls!InitialTable = InitialTable
  BY SameConstants DEF Abs!InitialTable, Calls!InitialTable, InitialTable
<1>4. Abs!Init /\ Calls!Init
  BY <1>1, <1>2, <1>3, SameConstants DEF Init, Abs!Init, Calls!Init
<1>5. Abs!IInv
  BY <1>4, Assumption, Abs!InitInvariant
<1>6. table \in [Entry -> Value] /\ FixedEntries
  BY <1>1, InitInvariant DEF IInv, TypeOK
<1>7. table[LastCluster] # PastEnd
  BY <1>1, ConstantOrder DEF Init, InitialTable, Entry
<1> QED
  BY <1>1, <1>4, <1>5, <1>6, <1>7 DEF LoopInv, LoopFacts

\* Every step of a loop is a call or leaves the mapped state as it is.
LEMMA LoopStep ==
    ASSUME LoopInv, [LoopNext]_loopVars
    PROVE  (Calls!Next \/ UNCHANGED AbsVars) /\ LoopFacts'
<1>1. CASE \E c \in Entry, k \in BOOLEAN : BeginLink(c, k)
  BY <1>1, BeginLinkStep
<1>2. CASE \E c \in Entry : AnswerAtOnce(c)
  BY <1>2, IdleStutters DEF AnswerAtOnce
<1>3. CASE \E h \in Entry : BeginClear(h)
  BY <1>3, BeginClearStep
<1>4. CASE \E h \in Entry : RefuseClear(h)
  BY <1>4, RefuseClearStep
<1>5. CASE WalkStep \/ \E c \in Entry : BeginWalk(c)
  BY <1>5, WalkStutters
<1>6. CASE loc = "idle" /\ Remount /\ UNCHANGED call
  BY <1>6, RemountStep
<1>7. CASE ScanUsed \/ ScanWrap
  BY <1>7, ScanStep
<1>8. CASE ScanFull
  BY <1>8, ScanFullStep
<1>9. CASE ScanFree
  BY <1>9, ScanFreeStep
<1>10. CASE LinkStep
  BY <1>10, LinkStepStutters
<1>11. CASE MarkStep
  BY <1>11, MarkStepStutters
<1>12. CASE ClearStep
  BY <1>12, ClearStepStutters
<1>13. CASE UNCHANGED loopVars
  BY <1>13, IdleStutters
<1> QED
  BY <1>1, <1>2, <1>3, <1>4, <1>5, <1>6, <1>7, <1>8, <1>9, <1>10, <1>11, <1>12, <1>13
     DEF LoopNext, Begin, Step

LEMMA LoopStepKeeps ==
    ASSUME LoopInv, [LoopNext]_loopVars
    PROVE  LoopInv' /\ [Calls!Next]_(Calls!vars)
<1>1. (Calls!Next \/ UNCHANGED AbsVars) /\ LoopFacts'
  BY LoopStep
<1>2. Abs!IInv
  BY DEF LoopInv
<1>3. Abs!IInv' /\ [Calls!Next]_(Calls!vars)
  BY <1>1, <1>2, StutterKeeps, CallKeeps
<1> QED
  BY <1>1, <1>3 DEF LoopInv

\* The loops keep their invariant, on a volume of any size: where the search
\* stands, what it has seen, and the invariant of the calls in the mapped state.
THEOREM LoopInvariant == LoopSpec => []LoopInv
<1>1. LoopInit => LoopInv
  BY LoopInitHolds
<1>2. LoopInv /\ [LoopNext]_loopVars => LoopInv'
  BY LoopStepKeeps
<1> QED
  BY <1>1, <1>2, PTL DEF LoopSpec

\* ImplementsCalls: the search with its wrap around, the two writes of
\* linkFreeCluster and the loop of clearLinks compute what the calls of
\* FileAllocationTable do in one step.
THEOREM LoopsImplementCalls == LoopSpec => ImplementsCalls
<1>1. LoopInit => Calls!Init
  BY LoopInitHolds
<1>2. LoopInv /\ [LoopNext]_loopVars => [Calls!Next]_(Calls!vars)
  BY LoopStepKeeps
<1> QED
  BY <1>1, <1>2, LoopInvariant, PTL DEF LoopSpec, ImplementsCalls, Calls!Spec

------------------------------------------------------------------------
(***************************************************************************)
(* Proofs about FileIO for clusters, sectors and volumes of any size, any  *)
(* number of files and calls of FileWrite of any length.  A file's byte is *)
(* numbered by the place of its cluster on the path from the start cluster *)
(* and the offset in that cluster, so that reading is a statement about    *)
(* paths (Content).  A step of FileWrite changes either the table, at the  *)
(* end of the chain it writes, or the bytes at and behind its position in  *)
(* one cluster (Wrote); each has one lemma that says what it leaves of a   *)
(* file's contents.                                                        *)
(***************************************************************************)

\* The position FileWrite has come to in the file that is open.
Position == w.size + w.len - w.remain

\* The offset of the position in the present cluster; a whole cluster has been
\* written when the next one is asked for.
At == IF pc = "next" THEN BytesPerCluster ELSE w.at

\* The files that have clusters, with what is known of the one that is open.
Kept == Listed \cup (IF pc = "closed" THEN {} ELSE {w.file})

StartOf(f) == IF pc # "closed" /\ f = w.file THEN w.start ELSE files[f].start

SizeOf(f) == IF pc # "closed" /\ f = w.file THEN Position ELSE files[f].size

\* The sections of FileWrite have their conditions on what is left to write.
Sections ==
    /\ w.remain <= w.len /\ w.size + w.len <= MaxSize
    /\ pc \in {"closed", "open", "refused", "undo"} => w.len = 0 /\ w.remain = 0
    /\ pc = "move" => w.at = BytesPerCluster
    /\ pc = "head" => w.at < BytesPerCluster
    /\ pc = "fill" => w.remain = 0 \/ w.at % BytesPerSector = 0
    /\ pc = "next" => w.remain > 0
    /\ pc = "whole" =>
        \/ w.remain = 0
        \/ w.at = 0
        \/ /\ w.remain < BytesPerSector /\ w.at % BytesPerSector = 0
           /\ w.at + w.remain <= BytesPerCluster

\* The entry of the open file is not listed before it is closed.
OpenFile ==
    pc # "closed" =>
        /\ w.file \in Files
        /\ files[w.file].state = IF pc = "undo" THEN "listed" ELSE "writing"
        /\ pc = "undo" => files[w.file].start = w.start /\ files[w.file].size = w.size

\* The start clusters the table has given out are those of the files, and no
\* two files have one in common.
StartsAreHeads == heads = {StartOf(f) : f \in Kept} \ {CLUSTER_FREE}

StartsDiffer ==
    \A f, g \in Kept : (StartOf(f) \in Cluster /\ StartOf(f) = StartOf(g)) => f = g

\* Bytes 0 to n - 1 of file f are where reading from s comes to, as far as it
\* comes; it ends before only behind the volume's last cluster.
Content(t, d, f, s, n) ==
    \A k \in 0 .. MaxSize, o \in Offset :
        k * BytesPerCluster + o < n =>
            /\ Path(t, s)[k] \in Cluster =>
                    d[Path(t, s)[k]][o] = <<f, k * BytesPerCluster + o>>
            /\ Path(t, s)[k] = CLUSTER_EOF => LastCluster \in Chain(t, s)

Contents ==
    \A f \in Kept :
        StartOf(f) \in Cluster => Content(table, data, f, StartOf(f), SizeOf(f))

\* The writer is at the end of a chain: that of its file, at its position, or,
\* when the chain has come to the last cluster, one that nothing leads to.
Linked(k) == Path(table, w.start)[k] = w.cluster

Lost(k) ==
    /\ Path(table, w.start)[k] = CLUSTER_EOF
    /\ LastCluster \in Chain(table, w.start)
    /\ w.cluster \notin Chain(table, w.start)

WriterAtEnd ==
    pc \notin {"closed", "refused", "undo"} =>
        /\ table[w.cluster] \in {CLUSTER_EOF, CLUSTER_FREE}
        /\ w.cluster # 1
        /\ w.cluster \in Cluster =>
                \E r \in {w.start} \cup orphans : w.cluster \in Chain(table, r)
        /\ \E k \in 0 .. MaxSize :
                /\ Position = k * BytesPerCluster + At
                /\ w.start \in Cluster => Linked(k) \/ Lost(k)

\* The inductive invariant.
FileInv ==
    /\ IInv
    /\ FileTypeOK
    /\ Sections
    /\ OpenFile
    /\ StartsAreHeads
    /\ StartsDiffer
    /\ Contents
    /\ WriterAtEnd

------------------------------------------------------------------------
(* Numbers.                                                                *)

LEMMA SizeFacts ==
    /\ BytesPerSector \in Nat /\ BytesPerSector >= 1
    /\ SectorsPerCluster \in Nat /\ SectorsPerCluster >= 1
    /\ BytesPerCluster \in Nat /\ BytesPerCluster >= BytesPerSector
    /\ BytesPerCluster = BytesPerSector * SectorsPerCluster
    /\ MaxSize \in Nat /\ Lengths \subseteq Nat
    /\ Offset = 0 .. BytesPerCluster - 1
<1>1. /\ BytesPerSector \in Nat /\ BytesPerSector >= 1
      /\ SectorsPerCluster \in Nat /\ SectorsPerCluster >= 1
      /\ MaxSize \in Nat /\ Lengths \subseteq Nat
  BY SizesAssumption
<1>2. BytesPerCluster = BytesPerSector * SectorsPerCluster
  BY DEF BytesPerCluster
<1>3. BytesPerCluster \in Nat /\ BytesPerCluster >= BytesPerSector
  BY <1>1, <1>2
<1> QED
  BY <1>1, <1>2, <1>3 DEF Offset

\* A number below n behind k whole pieces of size b is in a later piece, or in
\* the same one.
LEMMA PieceOf ==
    ASSUME NEW b \in Nat, b > 0, NEW k \in Nat, NEW j \in Nat, NEW o \in Nat, o < b,
           NEW p \in Nat, p <= b, k * b + o < j * b + p
    PROVE  k < j \/ (k = j /\ o < p)
<1>1. CASE k < j
  BY <1>1
<1>2. CASE k = j
  <2>1. k * b = j * b
    BY <1>2
  <2>2. k * b \in Nat /\ j * b \in Nat
    OBVIOUS
  <2> QED
    BY <1>2, <2>1, <2>2
<1>3. CASE k > j
  <2>1. k - j \in Nat /\ k - j >= 1
    BY <1>3
  <2>2. (k - j) * b >= b
    BY <2>1
  <2>3. k * b = (k - j) * b + j * b
    OBVIOUS
  <2>4. k * b \in Nat /\ j * b \in Nat /\ (k - j) * b \in Nat
    BY <2>1
  <2> QED
    BY <2>2, <2>3, <2>4
<1> QED
  BY <1>1, <1>2, <1>3

\* A number has one place in pieces of size b.
LEMMA PlaceIsUnique ==
    ASSUME NEW b \in Nat, b > 0, NEW k \in Nat, NEW j \in Nat, NEW o \in Nat, o < b,
           NEW p \in Nat, p < b, k * b + o = j * b + p
    PROVE  k = j /\ o = p
<1>1. k * b \in Nat /\ j * b \in Nat
  OBVIOUS
<1>2. k * b + o < j * b + (p + 1) /\ j * b + p < k * b + (o + 1)
  BY <1>1
<1>3. p + 1 \in Nat /\ p + 1 <= b /\ o + 1 \in Nat /\ o + 1 <= b
  OBVIOUS
<1>4. k < j \/ (k = j /\ o < p + 1)
  BY <1>2, <1>3, PieceOf
<1>5. j < k \/ (j = k /\ p < o + 1)
  BY <1>2, <1>3, PieceOf
<1> QED
  BY <1>4, <1>5

\* Division with remainder.
LEMMA Division ==
    ASSUME NEW a \in Nat, NEW b \in Nat, b > 0
    PROVE  /\ a \div b \in Nat /\ a % b \in Nat /\ a % b < b
           /\ a = (a \div b) * b + (a % b)
OBVIOUS

\* The multiples of b, and what is behind one of them.
LEMMA Multiple ==
    ASSUME NEW b \in Nat, b > 0, NEW k \in Nat, NEW o \in Nat, o < b
    PROVE  (k * b + o) \div b = k /\ (k * b + o) % b = o
<1> DEFINE a == k * b + o
<1>1. a \in Nat /\ k * b \in Nat
  OBVIOUS
<1>2. /\ a \div b \in Nat /\ a % b \in Nat /\ a % b < b
      /\ a = (a \div b) * b + (a % b)
  BY <1>1, Division
<1> QED
  BY <1>2, PlaceIsUnique

\* The multiples of b around a.
LEMMA Aligned ==
    ASSUME NEW b \in Nat, b > 0, NEW a \in Nat
    PROVE  /\ (a - (a % b)) % b = 0
           /\ (a + b - (a % b)) % b = 0
           /\ a % b <= a /\ a % b \in Nat /\ a % b < b
           /\ \A m \in Nat : a < b * m => a + b - (a % b) <= b * m
           /\ \A i \in Nat : (a % b = 0 /\ i < a) => i \div b # a \div b
<1> DEFINE q == a \div b
           r == a % b
<1>1. q \in Nat /\ r \in Nat /\ r < b /\ a = q * b + r
  BY Division
<1>2. q * b \in Nat /\ r <= a
  BY <1>1
<1>3. (a - r) % b = 0
  <2>1. (q * b + 0) % b = 0
    <3> HIDE DEF q
    <3> QED
      BY <1>1, Multiple
  <2>2. a - r = q * b + 0
    <3> HIDE DEF q, r
    <3> QED
      BY <1>1, <1>2
  <2> QED
    BY <2>1, <2>2
<1>4. (a + b - r) % b = 0
  <2>1. ((q + 1) * b + 0) % b = 0
    <3> HIDE DEF q
    <3> QED
      BY <1>1, Multiple
  <2>2. a + b - r = (q + 1) * b + 0
    <3> HIDE DEF q, r
    <3>1. (q + 1) * b = q * b + b
      BY <1>1
    <3> QED
      BY <3>1, <1>1, <1>2
  <2> QED
    BY <2>1, <2>2
<1>5. ASSUME NEW m \in Nat, a < b * m
      PROVE  a + b - r <= b * m
  <2>1. b * m = m * b /\ 0 <= b
    OBVIOUS
  <2> HIDE DEF q, r
  <2>2. q * b + r < m * b + 0
    BY <1>1, <1>5, <2>1
  <2>3. q < m
    BY <1>1, <2>2, <2>1, PieceOf
  <2>4. (q + 1) * b <= m * b
    BY <1>1, <2>3
  <2>5. (q + 1) * b = q * b + b
    BY <1>1
  <2> QED
    BY <2>1, <2>4, <2>5, <1>1, <1>2
<1>6. ASSUME NEW i \in Nat, r = 0, i < a
      PROVE  i \div b # q
  <2>1. i \div b \in Nat /\ i % b \in Nat /\ i = (i \div b) * b + (i % b)
    BY Division
  <2> DEFINE j == i \div b
  <2>2. j * b \in Nat
    BY <2>1
  <2> HIDE DEF q, r
  <2> QED
    BY <2>1, <2>2, <1>1, <1>2, <1>6
<1> QED
  BY <1>1, <1>2, <1>3, <1>4, <1>5, <1>6

\* The sum of two multiples is one.
LEMMA AlignedSum ==
    ASSUME NEW b \in Nat, b > 0, NEW a \in Nat, a % b = 0, NEW c \in Nat, c % b = 0
    PROVE  (a + c) % b = 0
<1> DEFINE q == a \div b
           p == c \div b
<1>1. q \in Nat /\ a = q * b /\ p \in Nat /\ c = p * b
  BY Division
<1> HIDE DEF p, q
<1>2. (q + p) * b = q * b + p * b /\ q + p \in Nat
  BY <1>1
<1>3. ((q + p) * b + 0) % b = 0
  BY <1>2, Multiple
<1>4. a + c = (q + p) * b + 0
  BY <1>1, <1>2
<1> QED
  BY <1>3, <1>4

\* A non-empty set of natural numbers has a least element.
LEMMA LeastNumber ==
    ASSUME NEW S \in SUBSET Nat, S # {}
    PROVE  \E n \in S : \A m \in S : n <= m
<1> DEFINE R == OpToRel(<, Nat)
<1>1. IsWellFoundedOn(R, Nat)
  BY NatLessThanWellFounded
<1>2. PICK n \in S : \A m \in S : <<m, n>> \notin R
  <2> HIDE DEF R
  <2> QED BY <1>1, WFMin
<1>3. ASSUME NEW m \in S, m < n
      PROVE  FALSE
  <2>1. <<m, n>> \in Nat \X Nat /\ <<m, n>>[1] < <<m, n>>[2]
    BY <1>3
  <2>2. <<m, n>> \in R
    BY <2>1 DEF OpToRel
  <2> QED
    BY <2>2, <1>2
<1> QED
  BY <1>3

\* The least of two numbers.
LEMMA MinOfTwo ==
    ASSUME NEW a \in Int, NEW b \in Int
    PROVE  Min({a, b}) = IF a <= b THEN a ELSE b
<1> DEFINE m == IF a <= b THEN a ELSE b
<1>1. m \in {a, b} /\ \A y \in {a, b} : m <= y
  OBVIOUS
<1>2. \A x \in {a, b} : (\A y \in {a, b} : x <= y) => x = m
  OBVIOUS
<1> QED
  BY <1>1, <1>2 DEF Min

------------------------------------------------------------------------
(* Paths.                                                                  *)

IsPath(t, s, n, p) ==
    p = [k \in 0 .. n |-> IF k = 0 THEN s ELSE After(t, p[k - 1])]

\* There are as many places on a path as are asked for.
LEMMA PathExists ==
    ASSUME NEW t, NEW s, NEW n \in Nat
    PROVE  \E p : IsPath(t, s, n, p)
<1> DEFINE Good(m) == \E p : IsPath(t, s, m, p)
           Bad == {m \in Nat : ~Good(m)}
<1>1. SUFFICES ASSUME Bad # {}
               PROVE  FALSE
  OBVIOUS
<1>2. PICK m \in Bad : \A i \in Bad : m <= i
  <2> HIDE DEF Good
  <2> QED
    BY <1>1, LeastNumber
<1>3. Good(0)
  <2> DEFINE p == [k \in 0 .. 0 |-> s]
  <2>1. IsPath(t, s, 0, p)
    BY DEF IsPath
  <2> QED
    BY <2>1
<1>4. m \in Nat /\ m # 0 /\ ~Good(m)
  BY <1>3
<1>5. m - 1 \in Nat /\ Good(m - 1)
  <2> HIDE DEF Good
  <2> QED
    BY <1>2, <1>4
<1>6. PICK p : IsPath(t, s, m - 1, p)
  BY <1>5
<1> DEFINE q == [k \in 0 .. m |-> IF k = m THEN After(t, p[m - 1]) ELSE p[k]]
<1>7. ASSUME NEW k \in 0 .. m
      PROVE  q[k] = IF k = 0 THEN s ELSE After(t, q[k - 1])
  <2>1. CASE k = m
    <3>1. q[k] = After(t, p[m - 1]) /\ q[k - 1] = p[m - 1]
      BY <2>1, <1>4
    <3> QED
      BY <3>1, <2>1, <1>4
  <2>2. CASE k # m
    <3>1. q[k] = p[k] /\ k \in 0 .. m - 1
      BY <2>2, <1>4
    <3>2. p[k] = IF k = 0 THEN s ELSE After(t, p[k - 1])
      BY <3>1, <1>6 DEF IsPath
    <3>3. k # 0 => q[k - 1] = p[k - 1]
      BY <2>2, <1>4
    <3> QED
      BY <3>1, <3>2, <3>3
  <2> QED
    BY <2>1, <2>2
<1>8. IsPath(t, s, m, q)
  <2>1. q = [k \in 0 .. m |-> q[k]]
    OBVIOUS
  <2> HIDE DEF q
  <2> QED
    BY <2>1, <1>7 DEF IsPath
<1> HIDE DEF q
<1> QED
  BY <1>4, <1>8

\* The path begins with the start cluster and follows the table.
LEMMA PathFollows ==
    ASSUME NEW t, NEW s
    PROVE  /\ Path(t, s)[0] = s
           /\ \A k \in 1 .. MaxSize : Path(t, s)[k] = After(t, Path(t, s)[k - 1])
<1> DEFINE P == Path(t, s)
<1>1. MaxSize \in Nat
  BY SizeFacts
<1>2. P = CHOOSE p : IsPath(t, s, MaxSize, p)
  BY DEF Path, IsPath
<1>3. \E p : IsPath(t, s, MaxSize, p)
  BY <1>1, PathExists
<1> HIDE DEF P
<1>4. P = [k \in 0 .. MaxSize |-> IF k = 0 THEN s ELSE After(t, P[k - 1])]
  BY <1>2, <1>3 DEF IsPath
<1>5. P[0] = s /\ \A k \in 1 .. MaxSize : P[k] = After(t, P[k - 1])
  BY <1>4, <1>1
<1> QED
  BY <1>5 DEF P

\* Induction over the places of a path: a set that has place 0, and with a place
\* the next one, has all of them.
LEMMA AllPlaces ==
    ASSUME NEW S, 0 \in S, \A k \in 1 .. MaxSize : k - 1 \in S => k \in S
    PROVE  0 .. MaxSize \subseteq S
<1> DEFINE Out == {k \in 0 .. MaxSize : k \notin S}
<1>1. SUFFICES ASSUME Out # {}
               PROVE  FALSE
  OBVIOUS
<1>2. Out \in SUBSET Nat /\ MaxSize \in Nat
  BY SizeFacts
<1>3. PICK n \in Out : \A m \in Out : n <= m
  BY <1>1, <1>2, LeastNumber
<1>4. n \in 1 .. MaxSize /\ n - 1 \in 0 .. MaxSize /\ ~(n <= n - 1)
  BY <1>2, <1>3
<1>5. n - 1 \in S
  BY <1>3, <1>4
<1> QED
  BY <1>3, <1>4, <1>5

\* A path that has ended goes no further.
LEMMA PathEnds ==
    ASSUME NEW t, NEW s, NEW j \in 0 .. MaxSize, Path(t, s)[j] = CLUSTER_EOF
    PROVE  \A k \in 0 .. MaxSize : j <= k => Path(t, s)[k] = CLUSTER_EOF
<1> DEFINE S == {k \in 0 .. MaxSize : j <= k => Path(t, s)[k] = CLUSTER_EOF}
<1>1. MaxSize \in Nat
  BY SizeFacts
<1>2. 0 \in S
  BY <1>1
<1>3. ASSUME NEW k \in 1 .. MaxSize, k - 1 \in S
      PROVE  k \in S
  <2>1. CASE k <= j
    BY <2>1, <1>1
  <2>2. CASE j <= k - 1
    <3>1. Path(t, s)[k - 1] = CLUSTER_EOF
      BY <1>3, <2>2
    <3>2. Path(t, s)[k] = CLUSTER_EOF
      BY <3>1, PathFollows DEF After
    <3> QED
      BY <3>2, <1>1
  <2> QED
    BY <2>1, <2>2, <1>1
<1> HIDE DEF S
<1>4. 0 .. MaxSize \subseteq S
  BY <1>2, <1>3, AllPlaces
<1> QED
  BY <1>4 DEF S

\* A path leads through the table's values.
LEMMA PathValues ==
    ASSUME NEW t \in [Entry -> Value], NEW s \in Entry
    PROVE  \A k \in 0 .. MaxSize : Path(t, s)[k] \in Value
<1> DEFINE S == {k \in 0 .. MaxSize : Path(t, s)[k] \in Value}
<1>1. 0 \in S
  BY SizeFacts, PathFollows DEF Value
<1>2. ASSUME NEW k \in 1 .. MaxSize, k - 1 \in S
      PROVE  k \in S
  <2>1. k \in 0 .. MaxSize
    BY SizeFacts
  <2>2. Path(t, s)[k - 1] \in Entry \/ Path(t, s)[k - 1] = CLUSTER_EOF
    BY <1>2 DEF Value
  <2>3. Path(t, s)[k] \in Value
    BY <2>2, PathFollows DEF After, Value
  <2> QED
    BY <2>1, <2>3
<1> HIDE DEF S
<1>3. 0 .. MaxSize \subseteq S
  BY <1>1, <1>2, AllPlaces
<1> QED
  BY <1>3 DEF S

\* The entries that are no clusters have no link.
Ends(t) ==
    /\ t \in [Entry -> Value]
    /\ \A e \in Entry \ Cluster : t[e] \in {CLUSTER_EOF, CLUSTER_FREE}

LEMMA TableEnds == IInv => Ends(table)
<1>1. \A e \in Entry \ Cluster : e = 0 \/ e = 1 \/ e = PastEnd
  BY ConstantOrder DEF Entry, Cluster
<1> QED
  BY <1>1 DEF IInv, TypeOK, FixedEntries, Ends

\* The clusters a path comes to are those of the chain.
LEMMA PathInChain ==
    ASSUME NEW t, Ends(t), NEW s \in Cluster
    PROVE  \A k \in 0 .. MaxSize : Path(t, s)[k] \in Cluster => Path(t, s)[k] \in Chain(t, s)
<1> DEFINE S == {k \in 0 .. MaxSize : Path(t, s)[k] \in Cluster => Path(t, s)[k] \in Chain(t, s)}
<1>1. 0 \in S
  BY SizeFacts, PathFollows, ChainClosed
<1>2. ASSUME NEW k \in 1 .. MaxSize, k - 1 \in S
      PROVE  k \in S
  <2>1. k \in 0 .. MaxSize /\ k - 1 \in 0 .. MaxSize
    BY SizeFacts
  <2> SUFFICES ASSUME Path(t, s)[k] \in Cluster
               PROVE  Path(t, s)[k] \in Chain(t, s)
    BY <2>1
  <2> DEFINE c == Path(t, s)[k - 1]
  <2>2. s \in Entry
    BY ConstantOrder DEF Entry, Cluster
  <2>3. c \in Value
    BY <2>1, <2>2, PathValues DEF Ends
  <2>4. Path(t, s)[k] = After(t, c)
    BY PathFollows
  <2> HIDE DEF c
  <2>5. CLUSTER_EOF \notin Cluster /\ CLUSTER_FREE \notin Cluster
    BY ConstantOrder DEF Cluster
  <2>6. Path(t, s)[k] = t[c] /\ c \in Cluster
    BY <2>3, <2>4, <2>5 DEF After, Value, Ends
  <2>7. c \in Chain(t, s)
    BY <1>2, <2>6 DEF c
  <2> QED
    BY <2>6, <2>7, ChainClosed DEF ClosedUnder
<1> HIDE DEF S
<1>3. 0 .. MaxSize \subseteq S
  BY <1>1, <1>2, AllPlaces
<1> QED
  BY <1>3 DEF S

\* A path is the same in two tables as far as they agree on it.
LEMMA PathAgrees ==
    ASSUME NEW t, NEW u, NEW s, NEW n \in 0 .. MaxSize,
           \A k \in 0 .. MaxSize :
              k < n => Path(t, s)[k] = CLUSTER_EOF \/ u[Path(t, s)[k]] = t[Path(t, s)[k]]
    PROVE  \A k \in 0 .. MaxSize : k <= n => Path(u, s)[k] = Path(t, s)[k]
<1> DEFINE S == {k \in 0 .. MaxSize : k <= n => Path(u, s)[k] = Path(t, s)[k]}
<1>1. 0 \in S
  BY SizeFacts, PathFollows
<1>2. ASSUME NEW k \in 1 .. MaxSize, k - 1 \in S
      PROVE  k \in S
  <2>1. k \in 0 .. MaxSize /\ k - 1 \in 0 .. MaxSize
    BY SizeFacts
  <2> SUFFICES ASSUME k <= n
               PROVE  Path(u, s)[k] = Path(t, s)[k]
    BY <2>1
  <2>2. k - 1 < n /\ k - 1 <= n
    BY SizeFacts
  <2>3. Path(u, s)[k - 1] = Path(t, s)[k - 1]
    BY <1>2, <2>2
  <2>4. Path(t, s)[k - 1] = CLUSTER_EOF \/ u[Path(t, s)[k - 1]] = t[Path(t, s)[k - 1]]
    BY <2>1, <2>2
  <2>5. /\ Path(t, s)[k] = After(t, Path(t, s)[k - 1])
        /\ Path(u, s)[k] = After(u, Path(u, s)[k - 1])
    BY PathFollows
  <2> QED
    BY <2>3, <2>4, <2>5 DEF After
<1> HIDE DEF S
<1>3. 0 .. MaxSize \subseteq S
  BY <1>1, <1>2, AllPlaces
<1> QED
  BY <1>3 DEF S

\* In particular when they agree on the chain and on what is no cluster.
LEMMA PathKept ==
    ASSUME NEW t, Ends(t), NEW u, NEW s \in Cluster,
           \A e \in Entry \ Cluster : u[e] = t[e],
           \A e \in Chain(t, s) : u[e] = t[e]
    PROVE  \A k \in 0 .. MaxSize : Path(u, s)[k] = Path(t, s)[k]
<1>1. s \in Entry /\ MaxSize \in 0 .. MaxSize
  BY ConstantOrder, SizeFacts DEF Entry, Cluster
<1>2. ASSUME NEW k \in 0 .. MaxSize
      PROVE  Path(t, s)[k] = CLUSTER_EOF \/ u[Path(t, s)[k]] = t[Path(t, s)[k]]
  <2>1. Path(t, s)[k] \in Value
    BY <1>1, PathValues DEF Ends
  <2>2. Path(t, s)[k] \in Cluster => Path(t, s)[k] \in Chain(t, s)
    BY PathInChain
  <2> QED
    BY <2>1, <2>2 DEF Value
<1>3. \A k \in 0 .. MaxSize : k <= MaxSize => Path(u, s)[k] = Path(t, s)[k]
  BY <1>1, <1>2, PathAgrees
<1> QED
  BY <1>3, SizeFacts

------------------------------------------------------------------------
(* Contents.                                                               *)

LEMMA AreaFacts ==
    ASSUME NEW c \in Entry
    PROVE  /\ Area(c) \in Areas
           /\ c \in Cluster => Area(c) = c
           /\ \A q \in Cluster : q = Area(c) => q = c
           /\ Cluster \subseteq Areas
<1>1. /\ c \in Nat /\ c <= PastEnd
      /\ PastEnd \in Nat /\ PastEnd = LastCluster + 1 /\ CLUSTER_FIRST = 2
  BY ConstantOrder DEF Entry
<1>2. Area(c) \in Areas
  <2>1. c < CLUSTER_FIRST => Area(c) = 0
    BY DEF Area
  <2>2. ~(c < CLUSTER_FIRST) => Area(c) = c /\ c \in CLUSTER_FIRST .. PastEnd
    BY <1>1 DEF Area
  <2> QED
    BY <2>1, <2>2 DEF Areas
<1>3. c \in Cluster => Area(c) = c
  BY <1>1 DEF Area, Cluster
<1>4. \A q \in Cluster : q = Area(c) => q = c
  BY <1>1 DEF Area, Cluster
<1>5. Cluster \subseteq Areas
  <2>1. LastCluster \in Nat
    BY ConstantOrder
  <2>2. Cluster \subseteq CLUSTER_FIRST .. PastEnd
    BY <1>1, <2>1 DEF Cluster
  <2> QED
    BY <2>2 DEF Areas
<1> QED
  BY <1>2, <1>3, <1>4, <1>5

\* Disc e is disc d, but n bytes of file f, those from position p on, lie at
\* offset o of cluster c, and what lies behind them there may be different.
Wrote(d, e, c, o, n, f, p) ==
    \A a \in Areas, i \in Offset :
        /\ (a # Area(c) \/ i < o) => e[a][i] = d[a][i]
        /\ (a = Area(c) /\ o <= i /\ i < o + n) => e[a][i] = <<f, p + i - o>>

\* A file keeps its contents when the table does not change before the place K
\* of its path, nor the disc in its chain.
LEMMA ContentKept ==
    ASSUME NEW t, Ends(t), NEW u, NEW d, NEW e, NEW f, NEW s \in Cluster,
           NEW n \in Nat, NEW K \in 0 .. MaxSize, n <= K * BytesPerCluster + BytesPerCluster,
           \A k \in 0 .. MaxSize : k <= K => Path(u, s)[k] = Path(t, s)[k],
           Chain(t, s) \subseteq Chain(u, s),
           \A c \in Chain(t, s), o \in Offset : e[c][o] = d[c][o],
           Content(t, d, f, s, n)
    PROVE  Content(u, e, f, s, n)
<1> SUFFICES ASSUME NEW k \in 0 .. MaxSize, NEW o \in Offset,
                    k * BytesPerCluster + o < n
             PROVE  /\ Path(u, s)[k] \in Cluster =>
                            e[Path(u, s)[k]][o] = <<f, k * BytesPerCluster + o>>
                    /\ Path(u, s)[k] = CLUSTER_EOF => LastCluster \in Chain(u, s)
  BY DEF Content
<1>1. k <= K
  <2>1. k \in Nat /\ K \in Nat /\ o \in Nat /\ o < BytesPerCluster
    BY SizeFacts
  <2>2. BytesPerCluster \in Nat /\ BytesPerCluster > 0
    BY SizeFacts
  <2>3. K * BytesPerCluster \in Nat /\ k * BytesPerCluster \in Nat
    BY <2>1, <2>2
  <2>4. k * BytesPerCluster + o < K * BytesPerCluster + BytesPerCluster
    BY <2>1, <2>2, <2>3
  <2>5. k < K \/ (k = K /\ o < BytesPerCluster)
    BY <2>1, <2>2, <2>4, PieceOf
  <2> QED
    BY <2>1, <2>5
<1>2. Path(u, s)[k] = Path(t, s)[k]
  BY <1>1
<1>3. /\ Path(t, s)[k] \in Cluster =>
                d[Path(t, s)[k]][o] = <<f, k * BytesPerCluster + o>>
      /\ Path(t, s)[k] = CLUSTER_EOF => LastCluster \in Chain(t, s)
  BY DEF Content
<1>4. Path(t, s)[k] \in Cluster => Path(t, s)[k] \in Chain(t, s)
  BY PathInChain
<1> QED
  BY <1>2, <1>3, <1>4

\* Writing into a cluster that is not in a file's chain leaves the file alone.
LEMMA ContentOfOthers ==
    ASSUME NEW t, Ends(t), NEW d, NEW e, NEW f, NEW s \in Cluster,
           NEW n \in Nat, n <= MaxSize, Content(t, d, f, s, n),
           NEW c \in Entry, c \notin Chain(t, s),
           NEW o, NEW m, NEW g, NEW p, Wrote(d, e, c, o, m, g, p)
    PROVE  Content(t, e, f, s, n)
<1>1. ASSUME NEW q \in Chain(t, s), NEW i \in Offset
      PROVE  e[q][i] = d[q][i]
  <2>1. q \in Cluster /\ q # c
    BY ChainClosed
  <2>2. q \in Areas /\ q # Area(c)
    BY <2>1, AreaFacts
  <2> QED
    BY <2>2 DEF Wrote
<1> DEFINE K == MaxSize
<1>2. K \in 0 .. MaxSize /\ n <= K * BytesPerCluster + BytesPerCluster
  <2>1. K \in Nat /\ BytesPerCluster \in Nat /\ BytesPerCluster >= 1
    BY SizeFacts
  <2>2. K * BytesPerCluster \in Nat /\ K <= K * BytesPerCluster
    BY <2>1
  <2> QED
    BY <2>1, <2>2
<1> HIDE DEF K
<1> QED
  BY <1>1, <1>2, ContentKept

\* Writing at the end of a file's chain, or where nothing leads to, adds to the
\* contents what is written.
LEMMA ContentWritten ==
    ASSUME NEW t, Ends(t), NEW d, NEW e, NEW f, NEW s \in Cluster,
           NEW k \in 0 .. MaxSize, NEW o \in Nat, NEW n \in Nat, o + n <= BytesPerCluster,
           NEW c \in Entry, t[c] \in {CLUSTER_EOF, CLUSTER_FREE},
           NEW p, p = k * BytesPerCluster + o,
           Wrote(d, e, c, o, n, f, p),
           \/ Path(t, s)[k] = c
           \/ /\ Path(t, s)[k] = CLUSTER_EOF
              /\ LastCluster \in Chain(t, s)
              /\ c \notin Chain(t, s),
           Content(t, d, f, s, p)
    PROVE  Content(t, e, f, s, p + n)
<1> SUFFICES ASSUME NEW j \in 0 .. MaxSize, NEW i \in Offset,
                    j * BytesPerCluster + i < p + n
             PROVE  /\ Path(t, s)[j] \in Cluster =>
                            e[Path(t, s)[j]][i] = <<f, j * BytesPerCluster + i>>
                    /\ Path(t, s)[j] = CLUSTER_EOF => LastCluster \in Chain(t, s)
  BY DEF Content
<1> DEFINE q == Path(t, s)[j]
           B == BytesPerCluster
<1>1. /\ B \in Nat /\ B > 0 /\ j \in Nat /\ k \in Nat /\ i \in Nat /\ i < B
      /\ j * B \in Nat /\ k * B \in Nat
  BY SizeFacts
<1>2. j < k \/ (j = k /\ i < o + n)
  <2>1. j * B + i < k * B + (o + n) /\ o + n \in Nat
    BY <1>1
  <2> HIDE DEF B
  <2> QED
    BY <1>1, <2>1, PieceOf DEF B
<1>3. j * B + i < p => /\ q \in Cluster => d[q][i] = <<f, j * B + i>>
                       /\ q = CLUSTER_EOF => LastCluster \in Chain(t, s)
  BY DEF Content
<1>4. q \in Cluster => q \in Areas /\ q \in Chain(t, s) /\ q # CLUSTER_EOF
  BY AreaFacts, PathInChain, ConstantOrder
<1>5. CASE j < k
  <2>1. j * B + i < p
    <3>1. k - j \in Nat /\ k - j >= 1
      BY <1>1, <1>5
    <3>2. (k - j) * B >= B
      BY <3>1, <1>1
    <3>3. k * B = (k - j) * B + j * B
      BY <1>1
    <3> QED
      BY <3>2, <3>3, <1>1
  <2>2. q \in Cluster => q # c
    <3> SUFFICES ASSUME q \in Cluster, q = c
                 PROVE  FALSE
      OBVIOUS
    <3>1. Path(t, s)[k] = c
      BY <1>4
    <3>2. j + 1 \in 1 .. MaxSize /\ j + 1 \in 0 .. MaxSize /\ j + 1 <= k /\ j + 1 - 1 = j
      BY <1>5, SizeFacts
    <3>3. Path(t, s)[j + 1] = After(t, q)
      BY <3>2, PathFollows
    <3>4. Path(t, s)[j + 1] = CLUSTER_EOF
      BY <3>3 DEF After
    <3>5. Path(t, s)[k] = CLUSTER_EOF
      BY <3>2, <3>4, PathEnds
    <3> QED
      BY <3>1, <3>5, <1>4
  <2>3. q \in Cluster => q # Area(c)
    BY <2>2, AreaFacts
  <2>4. q \in Cluster => e[q][i] = d[q][i]
    BY <2>3, <1>4 DEF Wrote
  <2> QED
    BY <2>1, <2>4, <1>3
<1>6. CASE j = k /\ i < o + n
  <2>1. CASE q = c
    <3>1. c # CLUSTER_EOF
      BY ConstantOrder DEF Entry
    <3>2. ASSUME c \in Cluster
          PROVE  e[c][i] = <<f, j * B + i>>
      <4>1. Area(c) = c /\ c \in Areas
        BY <3>2, AreaFacts
      <4>2. CASE i < o
        <5>1. e[c][i] = d[c][i]
          BY <4>1, <4>2 DEF Wrote
        <5>2. j * B + i < p
          BY <1>1, <1>6, <4>2
        <5> QED
          BY <5>1, <5>2, <1>3, <2>1, <3>2
      <4>3. CASE o <= i
        <5>1. e[c][i] = <<f, p + i - o>>
          BY <4>1, <4>3, <1>6 DEF Wrote
        <5>2. p + i - o = j * B + i
          BY <1>1, <1>6
        <5> QED
          BY <5>1, <5>2
      <4> QED
        BY <4>2, <4>3, <1>1
    <3> QED
      BY <2>1, <3>1, <3>2
  <2>2. CASE q = CLUSTER_EOF /\ LastCluster \in Chain(t, s)
    BY <2>2, ConstantOrder
  <2> QED
    BY <2>1, <2>2, <1>6
<1> QED
  BY <1>2, <1>5, <1>6

------------------------------------------------------------------------
(* The open file.                                                          *)

\* A call of FileWrite is under way, or may begin.
Writing == pc \notin {"closed", "refused", "undo"}

\* What the records hold, field by field.
LEMMA FieldTypes ==
    ASSUME FileTypeOK
    PROVE  /\ w.start \in Entry /\ w.cluster \in Entry
           /\ w.size \in Nat /\ w.size <= MaxSize
           /\ w.at \in Nat /\ w.at <= BytesPerCluster
           /\ w.len \in Nat /\ w.remain \in Nat /\ w.append \in BOOLEAN
           /\ \A f \in Files :
                /\ files[f].start \in Entry
                /\ files[f].size \in Nat /\ files[f].size <= MaxSize
<1>1. MaxSize \in Nat /\ BytesPerCluster \in Nat /\ Lengths \cup {0} \subseteq Nat
  BY SizeFacts
<1>2. /\ w.start \in 0 .. PastEnd /\ w.cluster \in 0 .. PastEnd
      /\ w.size \in 0 .. MaxSize /\ w.at \in 0 .. BytesPerCluster
      /\ w.len \in Lengths \cup {0} /\ w.remain \in 0 .. MaxSize /\ w.append \in BOOLEAN
  BY DEF FileTypeOK
<1>3. \A f \in Files : files[f].start \in 0 .. PastEnd /\ files[f].size \in 0 .. MaxSize
  BY DEF FileTypeOK
<1> QED
  BY <1>1, <1>2, <1>3 DEF Entry

\* The files that have clusters are files of the directory.
LEMMA KeptFacts ==
    ASSUME FileInv
    PROVE  /\ Kept \subseteq Files
           /\ pc # "closed" => w.file \in Kept /\ StartOf(w.file) = w.start
           /\ \A f \in Kept :
                /\ StartOf(f) \in Entry
                /\ StartOf(f) \in Cluster => StartOf(f) \in Roots \cap Cluster
                /\ SizeOf(f) \in Nat /\ SizeOf(f) <= MaxSize
<1>1. FileTypeOK /\ Sections /\ OpenFile /\ StartsAreHeads
  BY DEF FileInv
<1>2. Kept \subseteq Files
  BY <1>1 DEF Kept, Listed, OpenFile
<1>3. pc # "closed" => w.file \in Kept /\ StartOf(w.file) = w.start
  BY DEF Kept, StartOf
<1>4. ASSUME NEW f \in Kept
      PROVE  StartOf(f) \in Entry
  BY <1>1, <1>2, <1>4, FieldTypes DEF StartOf
<1>5. ASSUME NEW f \in Kept, StartOf(f) \in Cluster
      PROVE  StartOf(f) \in Roots \cap Cluster
  BY <1>1, <1>5, ConstantOrder DEF StartsAreHeads, Roots, Cluster
<1>6. Position \in Nat /\ Position <= MaxSize
  <2>1. w.remain <= w.len /\ w.size + w.len <= MaxSize
    BY <1>1 DEF Sections
  <2>2. w.size \in Nat /\ w.len \in Nat /\ w.remain \in Nat /\ MaxSize \in Nat
    BY <1>1, FieldTypes, SizeFacts
  <2> QED
    BY <2>1, <2>2 DEF Position
<1>7. ASSUME NEW f \in Kept
      PROVE  SizeOf(f) \in Nat /\ SizeOf(f) <= MaxSize
  BY <1>1, <1>2, <1>6, <1>7, FieldTypes DEF SizeOf
<1> QED
  BY <1>2, <1>3, <1>4, <1>5, <1>7

\* The writer's cluster is in no other file's chain.
LEMMA WriterIsAlone ==
    ASSUME FileInv, Writing, NEW f \in Kept, f # w.file, StartOf(f) \in Cluster
    PROVE  w.cluster \notin Chain(table, StartOf(f))
<1> DEFINE s == StartOf(f)
<1>1. SUFFICES ASSUME w.cluster \in Chain(table, s)
               PROVE  FALSE
  OBVIOUS
<1>2. IInv /\ StartsAreHeads /\ StartsDiffer /\ WriterAtEnd
  BY DEF FileInv
<1>3. w.cluster \in Cluster
  BY <1>1, ChainClosed
<1>4. PICK r \in {w.start} \cup orphans : w.cluster \in Chain(table, r)
  BY <1>2, <1>3 DEF WriterAtEnd, Writing
<1>5. r \in Cluster
  BY <1>4, ChainOfNoCluster
<1>6. s \in Cluster /\ s \in heads /\ s \in Roots
  BY <1>2, ConstantOrder DEF StartsAreHeads, Roots, Cluster
<1>7. w.file \in Kept /\ StartOf(w.file) = w.start
  BY KeptFacts DEF Writing
<1>8. r # s /\ r \in Roots
  <2>1. CASE r = w.start
    <3>1. r # s
      BY <2>1, <1>2, <1>5, <1>7 DEF StartsDiffer
    <3>2. r \in Roots
      BY <2>1, <1>5, <1>7, KeptFacts
    <3> QED
      BY <3>1, <3>2
  <2>2. CASE r \in orphans
    BY <2>2, <1>2, <1>5, <1>6 DEF IInv, HeadsAreNotOrphans, Roots
  <2> QED
    BY <1>4, <2>1, <2>2
<1> HIDE DEF s
<1>9. Chain(table, r) \cap Chain(table, s) = {}
  BY <1>2, <1>5, <1>6, <1>8, UnlinkedChainsDisjoint DEF IInv, RootsAreHeads, NoCrossLink
<1> QED
  BY <1>1, <1>4, <1>9

------------------------------------------------------------------------
(* The sections that write bytes.                                          *)

\* A step that writes the next n bytes of the open file at its position.
WritesAhead(n) ==
    /\ UNCHANGED <<vars, files>>
    /\ pc \in {"head", "fill", "whole"} /\ pc' \in {"open", "fill", "next", "whole"}
    /\ w'.file = w.file /\ w'.start = w.start /\ w'.cluster = w.cluster
    /\ w.at + n <= BytesPerCluster
    /\ Wrote(data, data', w.cluster, w.at, n, w.file, Position)
    /\ Position' = Position + n
    /\ At' = w.at + n

LEMMA WritingAhead ==
    ASSUME FileInv, NEW n \in Nat, WritesAhead(n), FileTypeOK', Sections'
    PROVE  FileInv'
<1>1. /\ IInv /\ FileTypeOK /\ Sections /\ OpenFile /\ StartsAreHeads /\ StartsDiffer
      /\ Contents /\ WriterAtEnd
  BY DEF FileInv
<1>2. /\ table' = table /\ firstFree' = firstFree /\ heads' = heads /\ orphans' = orphans
      /\ files' = files
  BY DEF WritesAhead, vars
<1>3. /\ pc \in {"head", "fill", "whole"} /\ pc' \in {"open", "fill", "next", "whole"}
      /\ w'.file = w.file /\ w'.start = w.start /\ w'.cluster = w.cluster
      /\ w.at + n <= BytesPerCluster
      /\ Wrote(data, data', w.cluster, w.at, n, w.file, Position)
      /\ Position' = Position + n
      /\ At' = w.at + n
  BY DEF WritesAhead
<1>4. IInv'
  BY <1>1, <1>2, NextInvariant DEF vars
<1>5. OpenFile'
  BY <1>1, <1>2, <1>3 DEF OpenFile
<1>6. /\ Kept' = Kept
      /\ \A f \in Kept : /\ StartOf(f)' = StartOf(f)
                         /\ f # w.file => SizeOf(f)' = SizeOf(f)
                         /\ f = w.file => /\ SizeOf(f) = Position
                                          /\ SizeOf(f)' = Position + n
  <2>1. pc # "closed" /\ pc' # "closed"
    BY <1>3
  <2> QED
    BY <2>1, <1>2, <1>3 DEF Kept, Listed, StartOf, SizeOf
<1>7. StartsAreHeads' /\ StartsDiffer'
  <2>1. StartsAreHeads'
    BY <1>1, <1>2, <1>6 DEF StartsAreHeads
  <2>2. StartsDiffer'
    BY <1>1, <1>6 DEF StartsDiffer
  <2> QED
    BY <2>1, <2>2
<1>8. Writing /\ w.file \in Kept /\ StartOf(w.file) = w.start /\ w.cluster \in Entry
  BY <1>1, <1>3, KeptFacts, FieldTypes DEF Writing
<1>9. Ends(table)
  BY <1>1, TableEnds
<1>10. PICK k \in 0 .. MaxSize :
            /\ Position = k * BytesPerCluster + At
            /\ w.start \in Cluster => Linked(k) \/ Lost(k)
  BY <1>1, <1>8 DEF WriterAtEnd, Writing
<1>11. At = w.at /\ w.at \in Nat
  BY <1>1, <1>3, FieldTypes DEF At
<1>12. Contents'
  <2> SUFFICES ASSUME NEW f \in Kept, StartOf(f) \in Cluster
               PROVE  Content(table, data', f, StartOf(f), SizeOf(f)')
    BY <1>2, <1>6 DEF Contents
  <2>1. Content(table, data, f, StartOf(f), SizeOf(f))
    BY <1>1 DEF Contents
  <2>2. CASE f = w.file
    <3> DEFINE s == w.start
    <3>1. s \in Cluster /\ Content(table, data, w.file, s, Position)
      BY <2>1, <2>2, <1>6, <1>8
    <3>2. table[w.cluster] \in {CLUSTER_EOF, CLUSTER_FREE}
      BY <1>1, <1>8 DEF WriterAtEnd, Writing
    <3>3. \/ Path(table, s)[k] = w.cluster
          \/ /\ Path(table, s)[k] = CLUSTER_EOF
             /\ LastCluster \in Chain(table, s)
             /\ w.cluster \notin Chain(table, s)
      BY <1>10, <3>1 DEF Linked, Lost
    <3>4. Position = k * BytesPerCluster + w.at
      BY <1>10, <1>11
    <3> HIDE DEF s
    <3>5. /\ w.at + n <= BytesPerCluster /\ w.at \in Nat /\ w.cluster \in Entry
          /\ Wrote(data, data', w.cluster, w.at, n, w.file, Position)
      BY <1>3, <1>8, <1>11
    <3>6. Content(table, data', w.file, s, Position + n)
      BY <1>9, <1>10, <3>1, <3>2, <3>3, <3>4, <3>5, ContentWritten
    <3> QED
      BY <3>6, <2>2, <1>6, <1>8 DEF s
  <2>3. CASE f # w.file
    <3>1. w.cluster \notin Chain(table, StartOf(f))
      BY <2>3, <1>8, WriterIsAlone
    <3>2. SizeOf(f) \in Nat /\ SizeOf(f) <= MaxSize /\ SizeOf(f)' = SizeOf(f)
      BY <2>3, <1>6, KeptFacts
    <3> QED
      BY <3>1, <3>2, <2>1, <1>3, <1>8, <1>9, ContentOfOthers
  <2> QED
    BY <2>2, <2>3
<1>13. WriterAtEnd'
  <2>1. Position' = k * BytesPerCluster + At'
    <3>1. k * BytesPerCluster \in Nat
      BY SizeFacts
    <3> QED
      BY <3>1, <1>3, <1>10, <1>11
  <2>2. w.start \in Cluster => Linked(k)' \/ Lost(k)'
    BY <1>2, <1>3, <1>10 DEF Linked, Lost
  <2>3. /\ table[w.cluster] \in {CLUSTER_EOF, CLUSTER_FREE}
        /\ w.cluster # 1
        /\ w.cluster \in Cluster => \E r \in {w.start} \cup orphans : w.cluster \in Chain(table, r)
    BY <1>1, <1>8 DEF WriterAtEnd, Writing
  <2> QED
    BY <2>1, <2>2, <2>3, <1>2, <1>3 DEF WriterAtEnd
<1> QED
  BY <1>4, <1>5, <1>7, <1>12, <1>13 DEF FileInv

\* What Put does: the bytes go where they are asked for, and nothing else
\* changes.
LEMMA PutWrites ==
    ASSUME NEW d \in [Areas -> [Offset -> Byte]], NEW c \in Entry,
           NEW o \in Nat, NEW n \in Nat, o + n <= BytesPerCluster,
           NEW f \in Files, NEW p \in Nat, p + n <= MaxSize
    PROVE  /\ Put(d, c, o, n, f, p) \in [Areas -> [Offset -> Byte]]
           /\ \A a \in Areas, i \in Offset :
                Put(d, c, o, n, f, p)[a][i] =
                    IF a = Area(c) /\ o <= i /\ i < o + n THEN <<f, p + i - o>>
                                                          ELSE d[a][i]
<1> DEFINE new(i) == IF i \in o .. o + n - 1 THEN <<f, p + i - o>> ELSE d[Area(c)][i]
           e == Put(d, c, o, n, f, p)
<1>1. Area(c) \in Areas
  BY AreaFacts
<1>2. BytesPerCluster \in Nat /\ MaxSize \in Nat /\ Offset \subseteq Nat
  BY SizeFacts
<1>3. \A i \in Offset : i \in o .. o + n - 1 <=> (o <= i /\ i < o + n)
  BY <1>2
<1>4. ASSUME NEW i \in Offset
      PROVE  new(i) \in Byte
  <2>1. CASE i \in o .. o + n - 1
    <3>1. p + i - o \in 0 .. MaxSize - 1
      BY <2>1, <1>2
    <3> QED
      BY <3>1, <2>1 DEF Byte
  <2>2. CASE i \notin o .. o + n - 1
    BY <2>2, <1>1
  <2> QED
    BY <2>1, <2>2
<1>5. e = [d EXCEPT ![Area(c)] = [i \in Offset |-> new(i)]]
  BY <1>1 DEF Put
<1>6. [i \in Offset |-> new(i)] \in [Offset -> Byte]
  BY <1>4
<1>7. e \in [Areas -> [Offset -> Byte]]
  BY <1>1, <1>5, <1>6
<1>8. ASSUME NEW a \in Areas, NEW i \in Offset
      PROVE  e[a][i] = IF a = Area(c) /\ o <= i /\ i < o + n THEN <<f, p + i - o>>
                                                            ELSE d[a][i]
  <2>1. CASE a = Area(c)
    <3>1. e[a][i] = new(i)
      BY <2>1, <1>1, <1>5
    <3> QED
      BY <3>1, <2>1, <1>3
  <2>2. CASE a # Area(c)
    BY <2>2, <1>5
  <2> QED
    BY <2>1, <2>2
<1> QED
  BY <1>7, <1>8

\* What Erase does to the offsets before a sector's first one: nothing.
LEMMA EraseIsBehind ==
    ASSUME NEW d \in [Areas -> [Offset -> Byte]], NEW c \in Entry,
           NEW o \in Nat, o % BytesPerSector = 0
    PROVE  /\ Erase(d, c, o) \in [Areas -> [Offset -> Byte]]
           /\ \A a \in Areas, i \in Offset :
                (a # Area(c) \/ i < o) => Erase(d, c, o)[a][i] = d[a][i]
<1> DEFINE new(i) == IF i \div BytesPerSector = o \div BytesPerSector THEN Zero
                     ELSE d[Area(c)][i]
           e == Erase(d, c, o)
<1>1. Area(c) \in Areas
  BY AreaFacts
<1>2. BytesPerSector \in Nat /\ BytesPerSector > 0 /\ Offset \subseteq Nat
  BY SizeFacts
<1>3. \A i \in Offset : new(i) \in Byte
  BY <1>1 DEF Byte
<1>4. e = [d EXCEPT ![Area(c)] = [i \in Offset |-> new(i)]]
  BY <1>1 DEF Erase
<1>5. [i \in Offset |-> new(i)] \in [Offset -> Byte]
  BY <1>3
<1>6. e \in [Areas -> [Offset -> Byte]]
  BY <1>1, <1>4, <1>5
<1>7. ASSUME NEW a \in Areas, NEW i \in Offset, a # Area(c) \/ i < o
      PROVE  e[a][i] = d[a][i]
  <2>1. CASE a = Area(c)
    <3>1. i \div BytesPerSector # o \div BytesPerSector
      BY <2>1, <1>2, <1>7, Aligned
    <3>2. new(i) = d[a][i]
      BY <3>1, <2>1
    <3>3. e[a] = [j \in Offset |-> new(j)]
      BY <2>1, <1>1, <1>4
    <3> QED
      BY <3>2, <3>3
  <2>2. CASE a # Area(c)
    BY <2>2, <1>4
  <2> QED
    BY <2>1, <2>2
<1> QED
  BY <1>6, <1>7

\* The values of the open file's record.
Record == [file : Files \cup {"none"}, start : 0 .. PastEnd, size : 0 .. MaxSize,
           cluster : 0 .. PastEnd, at : 0 .. BytesPerCluster,
           len : Lengths \cup {0}, remain : 0 .. MaxSize, append : BOOLEAN]

\* What a step that writes starts from.
LEMMA WriterFacts ==
    ASSUME FileInv, Writing
    PROVE  /\ FileTypeOK /\ Sections
           /\ data \in [Areas -> [Offset -> Byte]] /\ w \in Record
           /\ w.file \in Files /\ w.cluster \in Entry
           /\ w.at \in Nat /\ w.remain \in Nat /\ w.size \in Nat /\ w.len \in Nat
           /\ w.at <= BytesPerCluster /\ w.remain <= w.len
           /\ w.size + w.len <= MaxSize /\ w.remain <= MaxSize
           /\ Position \in Nat /\ Position + w.remain = w.size + w.len
           /\ Position = w.size + w.len - w.remain
<1>1. FileTypeOK /\ Sections /\ OpenFile
  BY DEF FileInv
<1>2. w.file \in Files
  BY <1>1 DEF OpenFile, Writing
<1>3. data \in [Areas -> [Offset -> Byte]] /\ w \in Record
  BY <1>1 DEF FileTypeOK, Record
<1>4. /\ w.cluster \in Entry /\ w.at \in Nat /\ w.remain \in Nat
      /\ w.size \in Nat /\ w.len \in Nat /\ w.at <= BytesPerCluster
  BY <1>1, FieldTypes
<1>5. w.remain <= w.len /\ w.size + w.len <= MaxSize
  BY <1>1 DEF Sections
<1>6. MaxSize \in Nat
  BY SizeFacts
<1> QED
  BY <1>1, <1>2, <1>3, <1>4, <1>5, <1>6 DEF Position

\* The types after a step that leaves table and entries alone.
LEMMA TypesKept ==
    ASSUME FileTypeOK, UNCHANGED <<vars, files>>,
           data' \in [Areas -> [Offset -> Byte]], w' \in Record,
           pc' \in {"open", "fill", "next", "whole"}
    PROVE  FileTypeOK'
<1>1. TypeOK'
  BY DEF FileTypeOK, TypeOK, vars
<1>2. files' \in [Files -> [state : {"unused", "writing", "listed", "deleted"},
                            start : 0 .. PastEnd, size : 0 .. MaxSize]]
  BY DEF FileTypeOK
<1> QED
  BY <1>1, <1>2 DEF FileTypeOK, Record

\* The first bytes, up to the end of the sector the position is in.
LEMMA HeadWrites ==
    ASSUME FileInv, Head
    PROVE  FileInv'
<1> DEFINE B == BytesPerCluster
           S == BytesPerSector
           n == HeadSize
           m == IF n < S THEN n ELSE 0
           gone == w.at % S
<1>1. pc = "head" /\ pc' = "fill" /\ UNCHANGED <<vars, files>>
  BY DEF Head
<1>2. Writing
  BY <1>1 DEF Writing
<1>3. /\ FileTypeOK /\ Sections
      /\ data \in [Areas -> [Offset -> Byte]] /\ w \in Record
      /\ w.file \in Files /\ w.cluster \in Entry
      /\ w.at \in Nat /\ w.remain \in Nat /\ w.size \in Nat /\ w.len \in Nat
      /\ w.at <= B /\ w.remain <= w.len
      /\ w.size + w.len <= MaxSize /\ w.remain <= MaxSize
      /\ Position \in Nat /\ Position + w.remain = w.size + w.len
      /\ Position = w.size + w.len - w.remain
  BY <1>2, WriterFacts
<1>4. /\ S \in Nat /\ S >= 1 /\ B \in Nat /\ SectorsPerCluster \in Nat
      /\ B = S * SectorsPerCluster /\ MaxSize \in Nat
  BY SizeFacts
<1>5. w.at < B
  BY <1>1, <1>3 DEF Sections
<1>6. /\ gone \in Nat /\ gone < S /\ gone <= w.at
      /\ (w.at + S - gone) % S = 0
      /\ w.at + S - gone <= B
      /\ (w.at - gone) % S = 0
  <2>1. S > 0 /\ w.at < S * SectorsPerCluster
    BY <1>4, <1>5
  <2> QED
    BY <2>1, <1>3, <1>4, Aligned
<1>7. n = IF S - gone <= w.remain THEN S - gone ELSE w.remain
  <2> HIDE DEF gone
  <2>1. S - gone \in Int /\ w.remain \in Int
    BY <1>3, <1>4, <1>6
  <2>2. n = Min({S - gone, w.remain})
    BY DEF HeadSize, gone
  <2> QED
    BY <2>1, <2>2, MinOfTwo
<1> HIDE DEF n
<1>8. m \in Nat /\ m <= w.remain /\ w.at + m <= B
  <2>1. w.at + (S - gone) <= B /\ S - gone \in Nat
    <3> HIDE DEF gone
    <3> QED
      BY <1>3, <1>4, <1>6
  <2>2. n \in Nat /\ n <= w.remain /\ w.at + n <= B
    <3> HIDE DEF gone
    <3> QED
      BY <1>3, <1>4, <1>7, <2>1
  <2> QED
    BY <2>2, <1>3
<1>9. w.remain - m = 0 \/ (w.at + m) % S = 0
  <2>1. CASE n < S /\ n = w.remain
    <3>1. m = w.remain
      BY <2>1
    <3> QED
      BY <3>1, <1>3
  <2>2. CASE n < S /\ n = S - gone
    <3>1. w.at + m = w.at + S - gone
      <4> HIDE DEF gone
      <4> QED
        BY <2>2, <1>3, <1>4, <1>6
    <3> QED
      BY <3>1, <1>6
  <2>3. CASE ~(n < S)
    <3>1. gone = 0 /\ m = 0
      <4> HIDE DEF gone
      <4> QED
        BY <2>3, <1>3, <1>4, <1>6, <1>7
    <3>2. w.at + m = w.at - gone
      <4> HIDE DEF gone
      <4> QED
        BY <3>1, <1>3
    <3> QED
      BY <3>2, <1>6
  <2> QED
    BY <2>1, <2>2, <2>3, <1>7
<1>10. /\ w' = [w EXCEPT !.at = w.at + m, !.remain = w.remain - m]
       /\ data' \in [Areas -> [Offset -> Byte]]
       /\ Wrote(data, data', w.cluster, w.at, m, w.file, Position)
  <2>1. CASE n < S
    <3>1. m = n /\ Position + m <= MaxSize
      BY <2>1, <1>3, <1>4, <1>8
    <3>2. /\ data' = Put(data, w.cluster, w.at, m, w.file, Position)
          /\ w' = [w EXCEPT !.at = w.at + m, !.remain = w.remain - m]
      BY <2>1, <3>1 DEF Head, Write, Position, n
    <3> HIDE DEF m
    <3>3. /\ data' \in [Areas -> [Offset -> Byte]]
          /\ \A a \in Areas, i \in Offset :
                data'[a][i] =
                    IF a = Area(w.cluster) /\ w.at <= i /\ i < w.at + m
                    THEN <<w.file, Position + i - w.at>> ELSE data[a][i]
      BY <3>1, <3>2, <1>3, <1>8, PutWrites
    <3>4. Wrote(data, data', w.cluster, w.at, m, w.file, Position)
      <4>1. \A i \in Offset : i < w.at => ~(w.at <= i)
        BY <1>3, SizeFacts
      <4> QED
        BY <3>3, <4>1 DEF Wrote
    <3> QED
      BY <3>2, <3>3, <3>4
  <2>2. CASE ~(n < S)
    <3>1. m = 0 /\ data' = data /\ w' = w
      BY <2>2 DEF Head, n
    <3>2. w' = [w EXCEPT !.at = w.at + m, !.remain = w.remain - m]
      <4>1. w.at + m = w.at /\ w.remain - m = w.remain
        BY <3>1, <1>3
      <4> QED
        BY <3>1, <4>1, <1>3 DEF Record
    <3>3. \A i \in Offset : ~(w.at <= i /\ i < w.at + 0)
      BY <1>3, SizeFacts
    <3> QED
      BY <3>1, <3>2, <3>3, <1>3 DEF Wrote
  <2> QED
    BY <2>1, <2>2
<1> HIDE DEF m, gone
<1>11. /\ w'.file = w.file /\ w'.start = w.start /\ w'.cluster = w.cluster
       /\ w'.size = w.size /\ w'.len = w.len
       /\ w'.at = w.at + m /\ w'.remain = w.remain - m
  BY <1>3, <1>10 DEF Record
<1>12. w' \in Record
  <2>1. w.at + m \in 0 .. B /\ w.remain - m \in 0 .. MaxSize
    BY <1>3, <1>4, <1>8
  <2> QED
    BY <2>1, <1>3, <1>10 DEF Record
<1>13. FileTypeOK'
  BY <1>1, <1>3, <1>10, <1>12, TypesKept
<1>14. Sections'
  <2>1. w'.remain <= w'.len /\ w'.size + w'.len <= MaxSize
    BY <1>3, <1>8, <1>11
  <2> QED
    BY <2>1, <1>1, <1>9, <1>11 DEF Sections
<1>15. WritesAhead(m)
  <2>1. Position' = Position + m
    BY <1>3, <1>8, <1>11 DEF Position
  <2>2. At' = w.at + m
    BY <1>1, <1>11 DEF At
  <2> QED
    BY <2>1, <2>2, <1>1, <1>8, <1>10, <1>11 DEF WritesAhead
<1> QED
  BY <1>8, <1>13, <1>14, <1>15, WritingAhead

\* The sectors up to the end of the present cluster.
LEMMA FillWrites ==
    ASSUME FileInv, Fill
    PROVE  FileInv'
<1> DEFINE B == BytesPerCluster
           S == BytesPerSector
           room == B - w.at
           tail == w.remain % S
           n == IF w.remain > room THEN room ELSE w.remain - tail
<1>1. /\ pc = "fill" /\ UNCHANGED <<vars, files>>
      /\ data' = Put(data, w.cluster, w.at, n, w.file, Position)
      /\ w' = [w EXCEPT !.at = w.at + n, !.remain = w.remain - n]
      /\ pc' = IF w'.at >= B /\ w'.remain > 0 THEN "next" ELSE "whole"
  BY DEF Fill, Write, Position
<1>2. Writing
  BY <1>1 DEF Writing
<1>3. /\ FileTypeOK /\ Sections
      /\ data \in [Areas -> [Offset -> Byte]] /\ w \in Record
      /\ w.file \in Files /\ w.cluster \in Entry
      /\ w.at \in Nat /\ w.remain \in Nat /\ w.size \in Nat /\ w.len \in Nat
      /\ w.at <= B /\ w.remain <= w.len
      /\ w.size + w.len <= MaxSize /\ w.remain <= MaxSize
      /\ Position \in Nat /\ Position + w.remain = w.size + w.len
      /\ Position = w.size + w.len - w.remain
  BY <1>2, WriterFacts
<1>4. S \in Nat /\ S >= 1 /\ B \in Nat /\ B >= 1 /\ MaxSize \in Nat
  BY SizeFacts
<1>5. w.remain = 0 \/ w.at % S = 0
  BY <1>1, <1>3 DEF Sections
<1>6. tail \in Nat /\ tail <= w.remain /\ tail < S /\ (w.remain - tail) % S = 0
  <2>1. S > 0
    BY <1>4
  <2> QED
    BY <2>1, <1>3, <1>4, Aligned
<1>7. n \in Nat /\ n <= w.remain /\ w.at + n <= B
  <2> HIDE DEF tail
  <2> QED
    BY <1>3, <1>4, <1>6
<1>8. w.remain > room => w.at + n = B /\ w.remain - n > 0
  <2> HIDE DEF tail
  <2> QED
    BY <1>3, <1>4, <1>6
<1>9. ~(w.remain > room) =>
        \/ w.remain - n = 0
        \/ w.remain - n < S /\ (w.at + n) % S = 0 /\ w.at + n + (w.remain - n) <= B
  <2> SUFFICES ASSUME ~(w.remain > room), w.remain # 0
               PROVE  w.remain - n < S /\ (w.at + n) % S = 0 /\ w.at + n + (w.remain - n) <= B
    <3>1. w.remain = 0 => w.remain - n = 0
      BY <1>3, <1>7
    <3> QED
      BY <3>1
  <2>1. n = w.remain - tail /\ w.at % S = 0 /\ n % S = 0
    BY <1>5, <1>6
  <2>2. (w.at + n) % S = 0
    <3> HIDE DEF n, tail
    <3>1. S > 0
      BY <1>4
    <3> QED
      BY <2>1, <3>1, <1>3, <1>4, <1>7, AlignedSum
  <2>3. w.remain - n < S /\ w.at + n + (w.remain - n) <= B
    <3> HIDE DEF tail, n
    <3> QED
      BY <2>1, <1>3, <1>4, <1>6, <1>7
  <2> QED
    BY <2>2, <2>3
<1> HIDE DEF n, tail
<1>10. /\ w'.file = w.file /\ w'.start = w.start /\ w'.cluster = w.cluster
       /\ w'.size = w.size /\ w'.len = w.len
       /\ w'.at = w.at + n /\ w'.remain = w.remain - n
  BY <1>1, <1>3 DEF Record
<1>11. w' \in Record
  <2>1. w.at + n \in 0 .. B /\ w.remain - n \in 0 .. MaxSize
    BY <1>3, <1>4, <1>7
  <2> QED
    BY <2>1, <1>1, <1>3 DEF Record
<1>12. /\ data' \in [Areas -> [Offset -> Byte]]
       /\ Wrote(data, data', w.cluster, w.at, n, w.file, Position)
  <2>1. Position + n <= MaxSize
    BY <1>3, <1>4, <1>7
  <2>2. /\ data' \in [Areas -> [Offset -> Byte]]
        /\ \A a \in Areas, i \in Offset :
              data'[a][i] =
                  IF a = Area(w.cluster) /\ w.at <= i /\ i < w.at + n
                  THEN <<w.file, Position + i - w.at>> ELSE data[a][i]
    BY <2>1, <1>1, <1>3, <1>7, PutWrites
  <2>3. \A i \in Offset : i < w.at => ~(w.at <= i)
    BY <1>3, SizeFacts
  <2> QED
    BY <2>2, <2>3 DEF Wrote
<1>13. pc' \in {"next", "whole"}
  BY <1>1
<1>14. FileTypeOK'
  BY <1>1, <1>3, <1>11, <1>12, <1>13, TypesKept
<1>15. Sections'
  <2>1. w'.remain <= w'.len /\ w'.size + w'.len <= MaxSize
    BY <1>3, <1>7, <1>10
  <2>2. pc' = "next" => w'.remain > 0
    BY <1>1
  <2>3. pc' = "whole" =>
          \/ w'.remain = 0
          \/ w'.remain < S /\ w'.at % S = 0 /\ w'.at + w'.remain <= B
    <3>1. CASE w.remain > room
      <4>1. w'.at >= B /\ w'.remain > 0
        BY <3>1, <1>4, <1>8, <1>10
      <4> QED
        BY <4>1, <1>1
    <3>2. CASE ~(w.remain > room)
      BY <3>2, <1>9, <1>10
    <3> QED
      BY <3>1, <3>2
  <2> QED
    BY <2>1, <2>2, <2>3, <1>13 DEF Sections
<1>16. WritesAhead(n)
  <2>1. Position' = Position + n
    BY <1>3, <1>7, <1>10 DEF Position
  <2>2. At' = w.at + n
    <3>1. pc' = "next" => w'.at = B
      BY <1>1, <1>4, <1>7, <1>10, <1>3
    <3> QED
      BY <3>1, <1>10 DEF At
  <2> QED
    BY <2>1, <2>2, <1>1, <1>7, <1>10, <1>12, <1>13 DEF WritesAhead
<1> QED
  BY <1>7, <1>14, <1>15, <1>16, WritingAhead

\* A whole cluster.
LEMMA WholeClusterWrites ==
    ASSUME FileInv, WholeCluster
    PROVE  FileInv'
<1> DEFINE B == BytesPerCluster
           at == IF w.remain > B THEN w.at ELSE B
<1>1. /\ pc = "whole" /\ w.remain >= B /\ UNCHANGED <<vars, files>>
      /\ data' = Put(data, w.cluster, 0, B, w.file, Position)
      /\ w' = [w EXCEPT !.remain = w.remain - B, !.at = at]
      /\ pc' = IF w.remain > B THEN "next" ELSE "whole"
  BY DEF WholeCluster, Write, Position, AfterLast
<1>2. Writing
  BY <1>1 DEF Writing
<1>3. /\ FileTypeOK /\ Sections
      /\ data \in [Areas -> [Offset -> Byte]] /\ w \in Record
      /\ w.file \in Files /\ w.cluster \in Entry
      /\ w.at \in Nat /\ w.remain \in Nat /\ w.size \in Nat /\ w.len \in Nat
      /\ w.at <= B /\ w.remain <= w.len
      /\ w.size + w.len <= MaxSize /\ w.remain <= MaxSize
      /\ Position \in Nat /\ Position + w.remain = w.size + w.len
      /\ Position = w.size + w.len - w.remain
  BY <1>2, WriterFacts
<1>4. /\ BytesPerSector \in Nat /\ BytesPerSector >= 1 /\ B >= BytesPerSector
      /\ B \in Nat /\ B >= 1 /\ MaxSize \in Nat
  BY SizeFacts
<1>5. w.at = 0
  <2>1. w.remain = 0 \/ w.at = 0 \/ w.remain < BytesPerSector
    BY <1>1, <1>3 DEF Sections
  <2> QED
    BY <2>1, <1>1, <1>3, <1>4
<1>6. at \in 0 .. B /\ w.remain - B \in 0 .. MaxSize
  BY <1>1, <1>3, <1>4
<1> HIDE DEF at
<1>7. /\ w'.file = w.file /\ w'.start = w.start /\ w'.cluster = w.cluster
      /\ w'.size = w.size /\ w'.len = w.len
      /\ w'.at = at /\ w'.remain = w.remain - B
  BY <1>1, <1>3 DEF Record
<1>8. w' \in Record
  BY <1>1, <1>3, <1>6 DEF Record
<1>9. /\ data' \in [Areas -> [Offset -> Byte]]
      /\ Wrote(data, data', w.cluster, w.at, B, w.file, Position)
  <2>1. Position + B <= MaxSize /\ 0 + B <= B /\ 0 \in Nat
    BY <1>1, <1>3, <1>4
  <2>2. data' = Put(data, w.cluster, 0, B, w.file, Position)
    BY <1>1
  <2>3. /\ data' \in [Areas -> [Offset -> Byte]]
        /\ \A a \in Areas, i \in Offset :
              data'[a][i] =
                  IF a = Area(w.cluster) /\ 0 <= i /\ i < 0 + B
                  THEN <<w.file, Position + i - 0>> ELSE data[a][i]
    BY <2>1, <2>2, <1>3, <1>4, PutWrites
  <2>4. \A i \in Offset : i < 0 => ~(0 <= i)
    BY SizeFacts
  <2> QED
    BY <2>3, <2>4, <1>5 DEF Wrote
<1>10. pc' \in {"next", "whole"}
  BY <1>1
<1>11. FileTypeOK'
  BY <1>1, <1>3, <1>8, <1>9, <1>10, TypesKept
<1>12. Sections'
  <2>1. w'.remain <= w'.len /\ w'.size + w'.len <= MaxSize
    BY <1>1, <1>3, <1>4, <1>7
  <2>2. pc' = "next" => w'.remain > 0
    BY <1>1, <1>3, <1>4, <1>7
  <2>3. pc' = "whole" => w'.remain = 0
    BY <1>1, <1>3, <1>4, <1>7
  <2> QED
    BY <2>1, <2>2, <2>3, <1>10 DEF Sections
<1>13. WritesAhead(B)
  <2>1. Position' = Position + B
    BY <1>1, <1>3, <1>4, <1>7 DEF Position
  <2>2. At' = w.at + B
    <3>1. pc' # "next" => at = B
      BY <1>1 DEF at
    <3> QED
      BY <3>1, <1>4, <1>5, <1>7 DEF At
  <2>3. w.at + B <= B
    BY <1>4, <1>5
  <2> QED
    BY <2>1, <2>2, <2>3, <1>1, <1>7, <1>9, <1>10 DEF WritesAhead
<1> QED
  BY <1>4, <1>11, <1>12, <1>13, WritingAhead

\* The remaining sectors and the rest of the last one.
LEMMA RestWrites ==
    ASSUME FileInv, Rest
    PROVE  FileInv'
<1> DEFINE B == BytesPerCluster
           S == BytesPerSector
           tail == w.remain % S
           n == w.remain - tail
           at == w.at + n
           sectors == Put(data, w.cluster, 0, n, w.file, Position)
           erased == IF w.append THEN Erase(sectors, w.cluster, at) ELSE sectors
<1>1. /\ pc = "whole" /\ w.remain < B /\ UNCHANGED <<vars, files>>
      /\ data' = IF tail = 0 THEN sectors
                 ELSE Put(erased, w.cluster, at, tail, w.file, w.size + w.len - tail)
      /\ w' = [Counted(w, 0) EXCEPT !.at = at + tail]
      /\ pc' = "open"
  BY DEF Rest, Write, Position
<1>2. Writing
  BY <1>1 DEF Writing
<1>3. /\ FileTypeOK /\ Sections
      /\ data \in [Areas -> [Offset -> Byte]] /\ w \in Record
      /\ w.file \in Files /\ w.cluster \in Entry
      /\ w.at \in Nat /\ w.remain \in Nat /\ w.size \in Nat /\ w.len \in Nat
      /\ w.at <= B /\ w.remain <= w.len
      /\ w.size + w.len <= MaxSize /\ w.remain <= MaxSize
      /\ Position \in Nat /\ Position + w.remain = w.size + w.len
      /\ Position = w.size + w.len - w.remain
  BY <1>2, WriterFacts
<1>4. S \in Nat /\ S >= 1 /\ B \in Nat /\ B >= 1 /\ MaxSize \in Nat
  BY SizeFacts
<1>5. \/ w.remain = 0
      \/ w.at = 0
      \/ w.remain < S /\ w.at % S = 0 /\ w.at + w.remain <= B
  BY <1>1, <1>3 DEF Sections
<1>6. /\ tail \in Nat /\ tail <= w.remain /\ tail < S /\ (w.remain - tail) % S = 0
      /\ w.remain < S => tail = w.remain
  <2>1. tail \in Nat /\ tail <= w.remain /\ tail < S /\ (w.remain - tail) % S = 0
    <3>1. S > 0
      BY <1>4
    <3> QED
      BY <3>1, <1>3, <1>4, Aligned
  <2>2. w.remain < S => tail = w.remain
    <3> SUFFICES ASSUME w.remain < S
                 PROVE  tail = w.remain
      OBVIOUS
    <3>1. S > 0 /\ 0 \in Nat
      BY <1>4
    <3>2. (0 * S + w.remain) % S = w.remain
      BY <3>1, <1>3, <1>4, Multiple
    <3>3. 0 * S + w.remain = w.remain
      BY <1>3, <1>4
    <3> QED
      BY <3>2, <3>3
  <2> QED
    BY <2>1, <2>2
<1>7. /\ n \in Nat /\ n + tail = w.remain /\ at \in Nat /\ n % S = 0
      /\ w.at = 0 \/ n = 0
      /\ at + tail = w.at + w.remain /\ at + tail <= B
  <2>1. n % S = 0
    BY <1>6
  <2>2. w.at = 0 \/ n = 0
    <3> HIDE DEF tail
    <3> QED
      BY <1>3, <1>5, <1>6
  <2>3. n \in Nat /\ n + tail = w.remain
    <3> HIDE DEF tail
    <3> QED
      BY <1>3, <1>6
  <2> HIDE DEF n, tail
  <2>4. at \in Nat /\ at + tail = w.at + w.remain
    BY <1>3, <1>6, <2>3
  <2>5. w.at + w.remain <= B
    BY <1>1, <1>3, <1>4, <1>5
  <2> QED
    BY <2>1, <2>2, <2>3, <2>4, <2>5
<1>8. tail # 0 => at % S = 0
  <2> SUFFICES ASSUME tail # 0
               PROVE  at % S = 0
    OBVIOUS
  <2>1. w.remain # 0
    <3> HIDE DEF tail
    <3> QED
      BY <1>3, <1>6
  <2>2. CASE w.at = 0
    <3>1. at = n
      <4> HIDE DEF n
      <4> QED
        BY <2>2, <1>7
    <3> QED
      BY <3>1, <1>7
  <2>3. CASE w.at % S = 0 /\ n = 0
    <3>1. at = w.at
      <4> HIDE DEF n
      <4> QED
        BY <2>3, <1>3
    <3> QED
      BY <3>1, <2>3
  <2> QED
    BY <2>1, <2>2, <2>3, <1>5, <1>7
<1> HIDE DEF tail, n, at
<1>9. /\ sectors \in [Areas -> [Offset -> Byte]]
      /\ \A a \in Areas, i \in Offset :
            sectors[a][i] =
                IF a = Area(w.cluster) /\ 0 <= i /\ i < 0 + n
                THEN <<w.file, Position + i - 0>> ELSE data[a][i]
  <2>1. n <= w.remain
    BY <1>3, <1>6, <1>7
  <2>2. 0 + n <= B /\ Position + n <= MaxSize /\ 0 \in Nat
    BY <2>1, <1>1, <1>3, <1>4, <1>7
  <2> QED
    BY <2>2, <1>3, <1>7, PutWrites
<1> HIDE DEF sectors
<1>10. tail # 0 =>
        /\ erased \in [Areas -> [Offset -> Byte]]
        /\ \A a \in Areas, i \in Offset :
              (a # Area(w.cluster) \/ i < at) => erased[a][i] = sectors[a][i]
  BY <1>3, <1>7, <1>8, <1>9, EraseIsBehind
<1> HIDE DEF erased
<1>11. tail # 0 =>
        /\ data' \in [Areas -> [Offset -> Byte]]
        /\ \A a \in Areas, i \in Offset :
              data'[a][i] =
                  IF a = Area(w.cluster) /\ at <= i /\ i < at + tail
                  THEN <<w.file, w.size + w.len - tail + i - at>> ELSE erased[a][i]
  <2> SUFFICES ASSUME tail # 0
               PROVE  /\ data' \in [Areas -> [Offset -> Byte]]
                      /\ \A a \in Areas, i \in Offset :
                            data'[a][i] =
                                IF a = Area(w.cluster) /\ at <= i /\ i < at + tail
                                THEN <<w.file, w.size + w.len - tail + i - at>>
                                ELSE erased[a][i]
    OBVIOUS
  <2> DEFINE p == w.size + w.len - tail
  <2>1. p \in Nat /\ p + tail <= MaxSize
    BY <1>3, <1>4, <1>6
  <2>2. data' = Put(erased, w.cluster, at, tail, w.file, p)
    BY <1>1
  <2> HIDE DEF p
  <2>3. /\ erased \in [Areas -> [Offset -> Byte]]
        /\ at \in Nat /\ tail \in Nat /\ at + tail <= B
    BY <1>6, <1>7, <1>10
  <2>4. /\ data' \in [Areas -> [Offset -> Byte]]
        /\ \A a \in Areas, i \in Offset :
              data'[a][i] =
                  IF a = Area(w.cluster) /\ at <= i /\ i < at + tail
                  THEN <<w.file, p + i - at>> ELSE erased[a][i]
    BY <2>1, <2>2, <2>3, <1>3, PutWrites
  <2> QED
    BY <2>4 DEF p
<1>12. tail = 0 => data' = sectors
  BY <1>1
<1>13. data' \in [Areas -> [Offset -> Byte]]
  BY <1>9, <1>11, <1>12
<1>14. Wrote(data, data', w.cluster, w.at, w.remain, w.file, Position)
  <2> SUFFICES ASSUME NEW a \in Areas, NEW i \in Offset
               PROVE  /\ (a # Area(w.cluster) \/ i < w.at) => data'[a][i] = data[a][i]
                      /\ (a = Area(w.cluster) /\ w.at <= i /\ i < w.at + w.remain) =>
                            data'[a][i] = <<w.file, Position + i - w.at>>
    BY DEF Wrote
  <2>1. i \in Nat
    BY SizeFacts
  <2>2. at = w.at + n /\ at + tail = w.at + w.remain
    BY <1>7 DEF at
  <2>3. CASE a # Area(w.cluster)
    BY <2>3, <1>9, <1>10, <1>11, <1>12
  <2>4. CASE a = Area(w.cluster) /\ i < w.at
    <3>1. ~(0 <= i /\ i < 0 + n) /\ i < at /\ ~(at <= i)
      BY <2>1, <2>2, <2>4, <1>3, <1>7
    <3>2. ~(w.at <= i)
      BY <2>1, <2>4, <1>3
    <3> QED
      BY <3>1, <3>2, <2>4, <1>9, <1>10, <1>11, <1>12
  <2>5. CASE a = Area(w.cluster) /\ w.at <= i /\ i < at
    <3>1. w.at = 0 /\ 0 <= i /\ i < 0 + n /\ ~(at <= i)
      BY <2>1, <2>2, <2>5, <1>3, <1>7
    <3>2. sectors[a][i] = <<w.file, Position + i - 0>>
      BY <3>1, <2>5, <1>9
    <3>3. data'[a][i] = sectors[a][i]
      BY <3>1, <2>5, <1>10, <1>11, <1>12
    <3>4. ~(i < w.at)
      BY <3>1, <2>1
    <3> QED
      BY <3>1, <3>2, <3>3, <3>4, <2>5
  <2>6. CASE a = Area(w.cluster) /\ at <= i
    <3>1. ~(i < w.at)
      BY <2>1, <2>2, <2>6, <1>3, <1>7
    <3>2. SUFFICES ASSUME i < w.at + w.remain
                   PROVE  data'[a][i] = <<w.file, Position + i - w.at>>
      BY <3>1, <2>6
    <3>3. i < at + tail /\ tail # 0
      BY <3>2, <2>1, <2>2, <2>6, <1>3, <1>6, <1>7
    <3>4. data'[a][i] = <<w.file, w.size + w.len - tail + i - at>>
      BY <3>3, <2>6, <1>11
    <3>5. w.size + w.len - tail + i - at = Position + i - w.at
      BY <2>1, <2>2, <1>3, <1>6
    <3> QED
      BY <3>4, <3>5
  <2>7. i < at \/ at <= i
    BY <2>1, <1>7
  <2>8. i < w.at \/ w.at <= i
    BY <2>1, <1>3
  <2> QED
    BY <2>3, <2>4, <2>5, <2>6, <2>7, <2>8
<1>15. /\ w'.file = w.file /\ w'.start = w.start /\ w'.cluster = w.cluster
       /\ w'.size = w.size + w.len - 0 /\ w'.len = 0
       /\ w'.at = w.at + w.remain /\ w'.remain = 0
  BY <1>1, <1>3, <1>7 DEF Record, Counted
<1>16. w' \in Record
  <2>1. at + tail \in 0 .. B /\ w.size + w.len - 0 \in 0 .. MaxSize /\ 0 \in 0 .. MaxSize
    BY <1>3, <1>4, <1>6, <1>7
  <2> QED
    BY <2>1, <1>1, <1>3 DEF Record, Counted
<1>17. FileTypeOK'
  BY <1>1, <1>3, <1>13, <1>16, TypesKept
<1>18. Sections'
  <2>1. w'.remain <= w'.len /\ w'.size + w'.len <= MaxSize
    BY <1>3, <1>4, <1>15
  <2> QED
    BY <2>1, <1>1, <1>15 DEF Sections
<1>19. WritesAhead(w.remain)
  <2>1. Position' = Position + w.remain
    BY <1>3, <1>15 DEF Position
  <2>2. At' = w.at + w.remain
    BY <1>1, <1>15 DEF At
  <2>3. w.at + w.remain <= B
    BY <1>7
  <2> QED
    BY <2>1, <2>2, <2>3, <1>1, <1>14, <1>15 DEF WritesAhead
<1> QED
  BY <1>3, <1>17, <1>18, <1>19, WritingAhead

------------------------------------------------------------------------
(* Going on to another cluster.                                            *)

\* The cluster after c has been asked for, and n was free.
Granted(c, n) ==
    /\ c \in Entry /\ c \in Held /\ c <= LastCluster /\ ~HasLink(table, c)
    /\ n \in CLUSTER_FIRST .. PastEnd /\ table[n] = CLUSTER_FREE
    /\ table' = MarkEnd(LinkTo(table, c, n), n)

LEMMA AdvanceCases ==
    ASSUME FileInv, Writing, NEW then, Advance(then)
    PROVE  /\ IInv'
           /\ \/ UNCHANGED <<table, heads, orphans>> /\ NoCluster
              \/ \E n \in CLUSTER_FIRST .. PastEnd :
                    /\ Granted(w.cluster, n)
                    /\ heads' = heads
                    /\ orphans' = orphans \cup {x \in {n} : table'[w.cluster] # x}
                    /\ pc' = then /\ w' = [w EXCEPT !.cluster = n, !.at = 0]
<1> DEFINE c == w.cluster
           r == LinkFreeCluster(table, firstFree, c)
           n == FindFree(table, firstFree)
<1>1. IInv /\ FileTypeOK /\ WriterAtEnd
  BY DEF FileInv
<1>2. table[c] \in {CLUSTER_EOF, CLUSTER_FREE}
  BY <1>1 DEF WriterAtEnd, Writing
<1>3. AtChainEnd /\ ~HasLink(table, c) /\ NextCluster = r.ret
  BY <1>2, ConstantOrder DEF AtChainEnd, HasLink, NextCluster, Cluster
<1>4. Extend(c) /\ IF r.ret = CLUSTER_FREE
                   THEN NoCluster
                   ELSE pc' = then /\ w' = [w EXCEPT !.cluster = r.ret, !.at = 0]
  BY <1>3 DEF Advance
<1>5. c \in Entry
  BY <1>1, FieldTypes
<1>6. IInv'
  BY <1>1, <1>4, <1>5, NextInvariant DEF Next
<1>7. /\ c \in Held /\ table' = r.table /\ heads' = heads
      /\ orphans' = orphans \cup {x \in {r.ret} \ {CLUSTER_FREE} : r.table[c] # x}
  BY <1>4 DEF Extend
<1>8. firstFree \in CLUSTER_FIRST .. PastEnd
  BY <1>1 DEF IInv, TypeOK
<1>9. \/ r.table = table /\ r.ret = CLUSTER_FREE
      \/ /\ c <= LastCluster /\ ~HasLink(table, c)
         /\ n \in CLUSTER_FIRST .. PastEnd /\ table[n] = CLUSTER_FREE
         /\ r.table = MarkEnd(LinkTo(table, c, n), n)
         /\ r.ret = n
  BY <1>3, <1>5, <1>8, LinkFreeClusterResult
<1> HIDE DEF r, n
<1>10. CASE r.table = table /\ r.ret = CLUSTER_FREE
  <2>1. orphans' = orphans
    BY <1>7, <1>10
  <2> QED
    BY <2>1, <1>4, <1>6, <1>7, <1>10
<1>11. CASE /\ c <= LastCluster /\ ~HasLink(table, c)
            /\ n \in CLUSTER_FIRST .. PastEnd /\ table[n] = CLUSTER_FREE
            /\ r.table = MarkEnd(LinkTo(table, c, n), n)
            /\ r.ret = n
  <2>1. n # CLUSTER_FREE
    BY <1>11, ConstantOrder
  <2>2. orphans' = orphans \cup {x \in {n} : table'[c] # x}
    BY <2>1, <1>7, <1>11
  <2>3. Granted(c, n)
    BY <1>3, <1>5, <1>7, <1>11 DEF Granted
  <2>4. pc' = then /\ w' = [w EXCEPT !.cluster = n, !.at = 0]
    BY <2>1, <1>4, <1>11
  <2> QED
    BY <2>2, <2>3, <2>4, <1>6, <1>7, <1>11
<1> QED
  BY <1>9, <1>10, <1>11

\* The entries after a grant, and the chains.
LEMMA GrantedEntries ==
    ASSUME IInv, NEW c, NEW n, Granted(c, n)
    PROVE  /\ n \in Entry /\ c # n /\ n # CLUSTER_FREE /\ n # 1 /\ n # CLUSTER_EOF
           /\ \A e \in Entry : table'[e] =
                IF e = n /\ n \in Cluster THEN CLUSTER_EOF
                ELSE IF e = c /\ c \in CLUSTER_FIRST .. LastCluster - 1 THEN n
                ELSE table[e]
           /\ \A e \in Entry \ Cluster : table'[e] = table[e]
           /\ table'[n] \in {CLUSTER_EOF, CLUSTER_FREE}
           /\ \A s \in Roots \cap Cluster :
                /\ n \notin Chain(table, s)
                /\ Chain(table', s) =
                     IF n \in Cluster /\ c \in CLUSTER_FIRST .. LastCluster - 1
                                      /\ c \in Chain(table, s)
                     THEN Chain(table, s) \cup {n}
                     ELSE Chain(table, s)
<1> USE DEF Granted
<1>1. /\ n \in Entry /\ c # n /\ (n \in Cluster \/ n = PastEnd)
      /\ \A e \in Entry : table'[e] =
            IF e = n /\ n \in Cluster THEN CLUSTER_EOF
            ELSE IF e = c /\ c \in CLUSTER_FIRST .. LastCluster - 1 THEN n
            ELSE table[e]
  BY GrantFacts
<1>2. n # CLUSTER_FREE /\ n # 1 /\ n # CLUSTER_EOF
  BY ConstantOrder
<1>3. \A e \in Entry \ Cluster : table'[e] = table[e]
  BY <1>1, ConstantOrder DEF Cluster
<1>4. table'[n] \in {CLUSTER_EOF, CLUSTER_FREE}
  BY <1>1
<1>5. ASSUME NEW s \in Roots \cap Cluster
      PROVE  /\ n \notin Chain(table, s)
             /\ Chain(table', s) =
                  IF n \in Cluster /\ c \in CLUSTER_FIRST .. LastCluster - 1
                                   /\ c \in Chain(table, s)
                  THEN Chain(table, s) \cup {n}
                  ELSE Chain(table, s)
  BY GrantChains
<1> QED
  BY <1>1, <1>2, <1>3, <1>4, <1>5

\* A grant leaves the contents of a file alone whose chain does not grow.
LEMMA GrantKeepsOthers ==
    ASSUME IInv, NEW c, NEW n, Granted(c, n), NEW s \in Roots \cap Cluster,
           c \notin Chain(table, s), NEW d, NEW f, NEW m \in Nat, m <= MaxSize,
           Content(table, d, f, s, m)
    PROVE  Content(table', d, f, s, m)
<1>1. Ends(table)
  BY TableEnds
<1>2. n \notin Chain(table, s) /\ Chain(table', s) = Chain(table, s)
  BY GrantedEntries
<1>3. \A e \in Entry \ Cluster : table'[e] = table[e]
  BY GrantedEntries
<1>4. \A e \in Chain(table, s) : table'[e] = table[e]
  <2>1. Chain(table, s) \subseteq Entry
    BY ChainClosed, ConstantOrder DEF Cluster, Entry
  <2> QED
    BY <2>1, <1>2, GrantedEntries
<1>5. \A k \in 0 .. MaxSize : Path(table', s)[k] = Path(table, s)[k]
  BY <1>1, <1>3, <1>4, PathKept
<1> DEFINE K == MaxSize
<1>6. K \in 0 .. MaxSize /\ m <= K * BytesPerCluster + BytesPerCluster
  <2>1. K \in Nat /\ BytesPerCluster \in Nat /\ BytesPerCluster >= 1
    BY SizeFacts
  <2>2. K * BytesPerCluster \in Nat /\ K <= K * BytesPerCluster
    BY <2>1
  <2> QED
    BY <2>1, <2>2
<1> HIDE DEF K
<1> QED
  BY <1>1, <1>2, <1>5, <1>6, ContentKept

\* The path of the file that is written goes on to the new cluster, or is left
\* behind at the volume's last one.
LEMMA GrantGoesOn ==
    ASSUME IInv, NEW c, NEW n, Granted(c, n), NEW s \in Roots \cap Cluster,
           NEW k \in 0 .. MaxSize, k + 1 <= MaxSize,
           table[c] \in {CLUSTER_EOF, CLUSTER_FREE}, c # 1,
           \/ Path(table, s)[k] = c
           \/ /\ Path(table, s)[k] = CLUSTER_EOF
              /\ LastCluster \in Chain(table, s)
              /\ c \notin Chain(table, s)
    PROVE  /\ \A j \in 0 .. MaxSize : j <= k => Path(table', s)[j] = Path(table, s)[j]
           /\ \/ Path(table', s)[k + 1] = n
              \/ /\ Path(table', s)[k + 1] = CLUSTER_EOF
                 /\ LastCluster \in Chain(table', s)
                 /\ n \notin Chain(table', s)
<1>1. /\ Ends(table) /\ s \in Entry /\ c \in Entry /\ c <= LastCluster
      /\ k + 1 \in 1 .. MaxSize /\ k + 1 - 1 = k /\ c # CLUSTER_EOF
  BY TableEnds, ConstantOrder, SizeFacts DEF Granted, Cluster, Entry
<1>2. /\ n \in Entry /\ c # n /\ n # CLUSTER_FREE /\ n # CLUSTER_EOF
      /\ n \notin Chain(table, s)
      /\ \A e \in Entry : table'[e] =
            IF e = n /\ n \in Cluster THEN CLUSTER_EOF
            ELSE IF e = c /\ c \in CLUSTER_FIRST .. LastCluster - 1 THEN n
            ELSE table[e]
      /\ Chain(table, s) \subseteq Chain(table', s)
      /\ ~(c \in CLUSTER_FIRST .. LastCluster - 1 /\ c \in Chain(table, s)) =>
            Chain(table', s) = Chain(table, s)
  BY GrantedEntries
<1>3. \A j \in 0 .. MaxSize :
         /\ Path(table, s)[j] \in Value
         /\ Path(table, s)[j] \in Cluster => Path(table, s)[j] \in Chain(table, s)
  BY <1>1, PathValues, PathInChain DEF Ends
<1>4. \A j \in 1 .. MaxSize :
         /\ Path(table, s)[j] = After(table, Path(table, s)[j - 1])
         /\ Path(table', s)[j] = After(table', Path(table', s)[j - 1])
  BY PathFollows
<1>5. \* What the path goes through before place k is no cluster that changes.
      ASSUME NEW j \in 0 .. MaxSize, j < k
      PROVE  \/ Path(table, s)[j] = CLUSTER_EOF
             \/ table'[Path(table, s)[j]] = table[Path(table, s)[j]]
  <2> DEFINE x == Path(table, s)[j]
  <2> SUFFICES ASSUME x # CLUSTER_EOF
               PROVE  table'[x] = table[x]
    OBVIOUS
  <2>1. x \in Entry
    BY <1>3 DEF Value
  <2>2. x = n => n \notin Cluster
    BY <1>2, <1>3
  <2>3. x = c => c \notin CLUSTER_FIRST .. LastCluster - 1
    <3> SUFFICES ASSUME x = c, c \in CLUSTER_FIRST .. LastCluster - 1
                 PROVE  FALSE
      OBVIOUS
    <3>1. c \in Cluster
      BY ConstantOrder DEF Cluster
    <3>2. c \in Chain(table, s)
      BY <3>1, <1>3
    <3>3. Path(table, s)[k] = c
      BY <3>2
    <3>4. j + 1 \in 1 .. MaxSize /\ j + 1 \in 0 .. MaxSize /\ j + 1 <= k /\ j + 1 - 1 = j
      BY <1>5, SizeFacts
    <3>5. Path(table, s)[j + 1] = CLUSTER_EOF
      BY <3>4, <1>4 DEF After
    <3>6. Path(table, s)[k] = CLUSTER_EOF
      BY <3>4, <3>5, PathEnds
    <3> QED
      BY <3>3, <3>6, <1>1
  <2> HIDE DEF x
  <2> QED
    BY <2>1, <2>2, <2>3, <1>2
<1>6. \A j \in 0 .. MaxSize : j <= k => Path(table', s)[j] = Path(table, s)[j]
  BY <1>5, PathAgrees
<1>7. Path(table', s)[k] = Path(table, s)[k]
  BY <1>6, SizeFacts
<1>8. Path(table', s)[k + 1] = After(table', Path(table, s)[k])
  BY <1>1, <1>4, <1>7
<1>9. CASE Path(table, s)[k] = c
  <2>1. c # CLUSTER_FREE
    <3> SUFFICES ASSUME c = CLUSTER_FREE
                 PROVE  FALSE
      OBVIOUS
    <3>1. CASE k = 0
      BY <3>1, <1>9, PathFollows, ConstantOrder DEF Cluster
    <3>2. CASE k # 0
      <4>1. k \in 1 .. MaxSize
        BY <3>2, SizeFacts
      <4> QED
        BY <4>1, <1>4, <1>9, ConstantOrder DEF After
    <3> QED
      BY <3>1, <3>2
  <2>2. c \in Cluster
    BY <2>1, <1>1, ConstantOrder DEF Cluster, Entry
  <2>3. c \in Chain(table, s)
    BY <2>2, <1>3, <1>9
  <2>4. CASE c \in CLUSTER_FIRST .. LastCluster - 1
    <3>1. table'[c] = n
      BY <2>4, <1>1, <1>2
    <3> QED
      BY <3>1, <1>1, <1>2, <1>6, <1>8, <1>9 DEF After
  <2>5. CASE c = LastCluster
    <3>1. c \notin CLUSTER_FIRST .. LastCluster - 1
      BY <2>5, ConstantOrder
    <3>2. table'[c] = table[c] /\ Chain(table', s) = Chain(table, s)
      BY <3>1, <1>1, <1>2
    <3>3. Path(table', s)[k + 1] = CLUSTER_EOF
      BY <3>2, <1>8, <1>9 DEF After
    <3> QED
      BY <3>2, <3>3, <2>3, <2>5, <1>2, <1>6
  <2> QED
    BY <2>2, <2>4, <2>5, ConstantOrder DEF Cluster
<1>10. CASE /\ Path(table, s)[k] = CLUSTER_EOF
            /\ LastCluster \in Chain(table, s)
            /\ c \notin Chain(table, s)
  <2>1. Path(table', s)[k + 1] = CLUSTER_EOF
    BY <1>8, <1>10 DEF After
  <2> QED
    BY <2>1, <1>2, <1>6, <1>10
<1> QED
  BY <1>9, <1>10

\* Asking for the cluster after the present one.
LEMMA Advancing ==
    ASSUME FileInv, NEW then \in {"head", "whole"}, Advance(then),
           (pc = "move" /\ then = "head") \/ (pc = "next" /\ then = "whole")
    PROVE  FileInv'
<1> DEFINE B == BytesPerCluster
           c == w.cluster
<1>1. /\ IInv /\ FileTypeOK /\ Sections /\ OpenFile /\ StartsAreHeads /\ StartsDiffer
      /\ Contents /\ WriterAtEnd
  BY DEF FileInv
<1>2. Writing /\ pc # "closed" /\ files' = files /\ data' = data
  BY DEF Writing, Advance
<1>3. /\ w \in Record /\ w.file \in Files
      /\ w.at \in Nat /\ w.remain \in Nat /\ w.size \in Nat /\ w.len \in Nat
      /\ w.at <= B /\ w.remain <= w.len
      /\ w.size + w.len <= MaxSize /\ w.remain <= MaxSize
      /\ Position \in Nat /\ Position + w.remain = w.size + w.len
      /\ Position = w.size + w.len - w.remain
  BY <1>2, WriterFacts
<1>4. B \in Nat /\ B >= 1 /\ MaxSize \in Nat
  BY SizeFacts
<1>5. /\ IInv'
      /\ \/ UNCHANGED <<table, heads, orphans>> /\ NoCluster
         \/ \E n \in CLUSTER_FIRST .. PastEnd :
               /\ Granted(c, n)
               /\ heads' = heads
               /\ orphans' = orphans \cup {x \in {n} : table'[c] # x}
               /\ pc' = then /\ w' = [w EXCEPT !.cluster = n, !.at = 0]
  BY <1>2, AdvanceCases
<1>6. At = B
  BY <1>1 DEF At, Sections
<1>7. PICK k \in 0 .. MaxSize :
            /\ Position = k * B + At
            /\ w.start \in Cluster => Linked(k) \/ Lost(k)
  BY <1>1, <1>2 DEF WriterAtEnd, Writing
<1>8. k + 1 \in 0 .. MaxSize /\ Position = (k + 1) * B + 0
  <2>1. k \in Nat /\ k * B \in Nat /\ k <= k * B
    BY <1>4
  <2>2. (k + 1) * B = k * B + B
    BY <1>4
  <2>3. Position <= MaxSize
    BY <1>3, <1>4
  <2> QED
    BY <2>1, <2>2, <2>3, <1>4, <1>6, <1>7
<1>9. CASE UNCHANGED <<table, heads, orphans>> /\ NoCluster
  <2>1. /\ table' = table /\ heads' = heads /\ orphans' = orphans
        /\ w' = Counted(w, w.remain)
        /\ pc' = IF w.remain = 0 THEN "open" ELSE "refused"
    BY <1>9 DEF NoCluster
  <2>2. /\ w'.file = w.file /\ w'.start = w.start /\ w'.cluster = w.cluster
        /\ w'.size = w.size + w.len - w.remain /\ w'.len = 0 /\ w'.remain = 0
        /\ w'.at = w.at
    BY <2>1, <1>3 DEF Counted, Record
  <2>3. w' \in Record
    <3>1. w.size + w.len - w.remain \in 0 .. MaxSize /\ 0 \in 0 .. MaxSize
      BY <1>3, <1>4
    <3> QED
      BY <3>1, <2>1, <1>3 DEF Counted, Record
  <2>4. FileTypeOK'
    BY <2>1, <2>3, <1>1, <1>2, <1>5 DEF FileTypeOK, IInv, Record
  <2>5. pc' \in {"open", "refused"}
    BY <2>1
  <2>6. Sections'
    <3>1. w'.remain <= w'.len /\ w'.size + w'.len <= MaxSize
      BY <2>2, <1>3, <1>4
    <3> QED
      BY <3>1, <2>2, <2>5 DEF Sections
  <2>7. OpenFile'
    BY <2>2, <2>5, <1>1, <1>2 DEF OpenFile
  <2>8. Position' = Position
    BY <2>2, <1>3 DEF Position
  <2>9. /\ Kept' = Kept
        /\ \A f \in Kept : StartOf(f)' = StartOf(f) /\ SizeOf(f)' = SizeOf(f)
    BY <2>2, <2>5, <2>8, <1>2 DEF Kept, Listed, StartOf, SizeOf
  <2>10. StartsAreHeads' /\ StartsDiffer' /\ Contents'
    <3>1. StartsAreHeads'
      BY <2>1, <2>9, <1>1 DEF StartsAreHeads
    <3>2. StartsDiffer'
      BY <2>9, <1>1 DEF StartsDiffer
    <3>3. Contents'
      BY <2>1, <2>9, <1>1, <1>2 DEF Contents
    <3> QED
      BY <3>1, <3>2, <3>3
  <2>11. WriterAtEnd'
    <3> SUFFICES ASSUME pc' = "open"
                 PROVE  WriterAtEnd'
      BY <2>5 DEF WriterAtEnd
    <3>1. pc = "move"
      BY <2>1, <1>1, <1>3 DEF Sections
    <3>2. At' = At
      BY <3>1, <2>2 DEF At
    <3>3. w.start \in Cluster => Linked(k)' \/ Lost(k)'
      BY <2>1, <2>2, <1>7 DEF Linked, Lost
    <3>4. /\ table[w.cluster] \in {CLUSTER_EOF, CLUSTER_FREE}
          /\ w.cluster # 1
          /\ w.cluster \in Cluster =>
                \E r \in {w.start} \cup orphans : w.cluster \in Chain(table, r)
      BY <1>1, <1>2 DEF WriterAtEnd, Writing
    <3> QED
      BY <3>2, <3>3, <3>4, <2>1, <2>2, <2>8, <1>7 DEF WriterAtEnd
  <2> QED
    BY <2>4, <2>6, <2>7, <2>10, <2>11, <1>5 DEF FileInv
<1>10. ASSUME NEW n \in CLUSTER_FIRST .. PastEnd,
              Granted(c, n),
              heads' = heads,
              orphans' = orphans \cup {x \in {n} : table'[c] # x},
              pc' = then, w' = [w EXCEPT !.cluster = n, !.at = 0]
       PROVE  FileInv'
  <2>1. /\ w'.file = w.file /\ w'.start = w.start /\ w'.cluster = n
        /\ w'.size = w.size /\ w'.len = w.len /\ w'.remain = w.remain
        /\ w'.at = 0
    BY <1>10, <1>3 DEF Record
  <2>2. n \in 0 .. PastEnd
    BY ConstantOrder
  <2>3. w' \in Record
    <3>1. 0 \in 0 .. B
      BY <1>4
    <3> QED
      BY <3>1, <2>2, <1>10, <1>3 DEF Record
  <2>4. FileTypeOK'
    BY <2>3, <1>1, <1>2, <1>5, <1>10 DEF FileTypeOK, IInv, Record
  <2>5. Sections'
    <3>1. w'.remain <= w'.len /\ w'.size + w'.len <= MaxSize
      BY <2>1, <1>3
    <3>2. w'.at < B
      BY <2>1, <1>4
    <3> QED
      BY <3>1, <3>2, <2>1, <1>10 DEF Sections
  <2>6. OpenFile'
    BY <2>1, <1>1, <1>2, <1>10 DEF OpenFile
  <2>7. Position' = Position /\ At' = 0
    BY <2>1, <1>10 DEF Position, At
  <2>8. /\ Kept' = Kept
        /\ \A f \in Kept : StartOf(f)' = StartOf(f) /\ SizeOf(f)' = SizeOf(f)
    <3>1. pc' # "closed"
      BY <1>10
    <3> QED
      BY <3>1, <2>1, <2>7, <1>2 DEF Kept, Listed, StartOf, SizeOf
  <2>9. StartsAreHeads' /\ StartsDiffer'
    <3>1. StartsAreHeads'
      BY <2>8, <1>1, <1>10 DEF StartsAreHeads
    <3>2. StartsDiffer'
      BY <2>8, <1>1 DEF StartsDiffer
    <3> QED
      BY <3>1, <3>2
  <2>10. w.file \in Kept /\ StartOf(w.file) = w.start
    BY <1>2, KeptFacts
  <2>11. table[c] \in {CLUSTER_EOF, CLUSTER_FREE} /\ c # 1
    BY <1>1, <1>2 DEF WriterAtEnd, Writing
  <2>12. w.start \in Cluster =>
            /\ w.start \in Roots \cap Cluster
            /\ \A j \in 0 .. MaxSize :
                  j <= k => Path(table', w.start)[j] = Path(table, w.start)[j]
            /\ \/ Path(table', w.start)[k + 1] = n
               \/ /\ Path(table', w.start)[k + 1] = CLUSTER_EOF
                  /\ LastCluster \in Chain(table', w.start)
                  /\ n \notin Chain(table', w.start)
    <3> SUFFICES ASSUME w.start \in Cluster
                 PROVE  /\ w.start \in Roots \cap Cluster
                        /\ \A j \in 0 .. MaxSize :
                              j <= k => Path(table', w.start)[j] = Path(table, w.start)[j]
                        /\ \/ Path(table', w.start)[k + 1] = n
                           \/ /\ Path(table', w.start)[k + 1] = CLUSTER_EOF
                              /\ LastCluster \in Chain(table', w.start)
                              /\ n \notin Chain(table', w.start)
      OBVIOUS
    <3>1. w.start \in Roots \cap Cluster
      BY <2>10, KeptFacts
    <3>2. \/ Path(table, w.start)[k] = c
          \/ /\ Path(table, w.start)[k] = CLUSTER_EOF
             /\ LastCluster \in Chain(table, w.start)
             /\ c \notin Chain(table, w.start)
      BY <1>7 DEF Linked, Lost
    <3>3. k \in 0 .. MaxSize /\ k + 1 <= MaxSize
      BY <1>4, <1>7, <1>8
    <3> QED
      BY <3>1, <3>2, <3>3, <2>11, <1>1, <1>10, GrantGoesOn
  <2>13. Contents'
    <3> SUFFICES ASSUME NEW f \in Kept, StartOf(f) \in Cluster
                 PROVE  Content(table', data, f, StartOf(f), SizeOf(f))
      BY <2>8, <1>2 DEF Contents
    <3>1. /\ Content(table, data, f, StartOf(f), SizeOf(f))
          /\ StartOf(f) \in Roots \cap Cluster
          /\ SizeOf(f) \in Nat /\ SizeOf(f) <= MaxSize
      BY <1>1, KeptFacts DEF Contents
    <3>2. CASE f = w.file
      <4> DEFINE s == w.start
      <4>1. /\ s \in Roots \cap Cluster /\ Content(table, data, f, s, Position)
            /\ StartOf(f) = s /\ SizeOf(f) = Position
        BY <3>1, <3>2, <2>10, <1>2 DEF SizeOf
      <4>2. Position \in Nat /\ Position <= k * B + B
        <5>1. k * B \in Nat
          BY <1>4, <1>7
        <5> QED
          BY <5>1, <1>3, <1>4, <1>6, <1>7
      <4>3. Chain(table, s) \subseteq Chain(table', s)
        BY <4>1, <1>1, <1>10, GrantedEntries
      <4>4. \A j \in 0 .. MaxSize : j <= k => Path(table', s)[j] = Path(table, s)[j]
        BY <4>1, <2>12
      <4>5. Ends(table)
        BY <1>1, TableEnds
      <4> HIDE DEF s
      <4>6. Content(table', data, f, s, Position)
        BY <4>1, <4>2, <4>3, <4>4, <4>5, <1>7, ContentKept
      <4> QED
        BY <4>1, <4>6
    <3>3. CASE f # w.file
      <4>1. c \notin Chain(table, StartOf(f))
        BY <3>3, <1>2, WriterIsAlone
      <4> QED
        BY <3>1, <4>1, <1>1, <1>10, GrantKeepsOthers
    <3> QED
      BY <3>2, <3>3
  <2>14. WriterAtEnd'
    <3>1. /\ c # n /\ n # 1 /\ n # CLUSTER_FREE /\ n # CLUSTER_EOF /\ c \in Entry
          /\ table'[n] \in {CLUSTER_EOF, CLUSTER_FREE}
          /\ \A e \in Entry : table'[e] =
                IF e = n /\ n \in Cluster THEN CLUSTER_EOF
                ELSE IF e = c /\ c \in CLUSTER_FIRST .. LastCluster - 1 THEN n
                ELSE table[e]
      BY <1>1, <1>10, GrantedEntries DEF Granted
    <3>2. ASSUME n \in Cluster
          PROVE  \E r \in {w.start} \cup orphans' : n \in Chain(table', r)
      <4>1. CASE c \in CLUSTER_FIRST .. LastCluster - 1
        <5>1. c \in Cluster
          BY <4>1, ConstantOrder DEF Cluster
        <5>2. PICK r \in {w.start} \cup orphans : c \in Chain(table, r)
          BY <5>1, <1>1, <1>2 DEF WriterAtEnd, Writing
        <5>3. r \in Cluster
          BY <5>2, ChainOfNoCluster
        <5>4. r \in Roots
          BY <5>2, <5>3, <2>10, KeptFacts DEF Roots
        <5>5. n \in Chain(table', r)
          BY <3>2, <4>1, <5>2, <5>3, <5>4, <1>1, <1>10, GrantedEntries
        <5> QED
          BY <5>2, <5>5, <1>10
      <4>2. CASE c \notin CLUSTER_FIRST .. LastCluster - 1
        <5>1. table'[c] = table[c]
          BY <3>1, <4>2
        <5>2. n \in orphans'
          BY <5>1, <3>1, <2>11, <1>10
        <5>3. n \in Chain(table', n)
          BY <3>2, ChainClosed
        <5> QED
          BY <5>2, <5>3
      <4> QED
        BY <4>1, <4>2
    <3>3. w.start \in Cluster => Linked(k + 1)' \/ Lost(k + 1)'
      BY <2>1, <2>12 DEF Linked, Lost
    <3>4. Position' = (k + 1) * B + At'
      BY <2>7, <1>8
    <3> QED
      BY <3>1, <3>2, <3>3, <3>4, <2>1, <1>8 DEF WriterAtEnd
  <2> QED
    BY <2>4, <2>5, <2>6, <2>9, <2>13, <2>14, <1>5 DEF FileInv
<1> QED
  BY <1>5, <1>9, <1>10

------------------------------------------------------------------------
(* Opening and closing.                                                    *)

\* The values of the directory entries.
Entries == [Files -> [state : {"unused", "writing", "listed", "deleted"},
                      start : 0 .. PastEnd, size : 0 .. MaxSize]]

\* What a new file is given: a cluster that was free, or none.
LEMMA CreateCases ==
    ASSUME IInv, AllocHead
    PROVE  LET start == LinkFreeCluster(table, firstFree, CLUSTER_FREE).ret
           IN  /\ IInv'
               /\ \/ /\ UNCHANGED <<table, heads, orphans>>
                     /\ start = CLUSTER_FREE
                  \/ /\ start \in CLUSTER_FIRST .. PastEnd
                     /\ Granted(CLUSTER_FREE, start)
                     /\ heads' = heads \cup {start} /\ orphans' = orphans
<1> DEFINE r == LinkFreeCluster(table, firstFree, CLUSTER_FREE)
           n == FindFree(table, firstFree)
<1>1. /\ firstFree \in CLUSTER_FIRST .. PastEnd /\ CLUSTER_FREE \in Entry
      /\ ~HasLink(table, CLUSTER_FREE) /\ CLUSTER_FREE \in Held
      /\ CLUSTER_FREE <= LastCluster
  BY ConstantOrder DEF IInv, TypeOK, Entry, HasLink, FixedEntries, Held
<1>2. /\ table' = r.table /\ orphans' = orphans
      /\ heads' = heads \cup ({r.ret} \ {CLUSTER_FREE})
  BY DEF AllocHead
<1>3. IInv'
  BY NextInvariant DEF Next
<1>4. \/ r.table = table /\ r.ret = CLUSTER_FREE
      \/ /\ n \in CLUSTER_FIRST .. PastEnd /\ table[n] = CLUSTER_FREE
         /\ r.table = MarkEnd(LinkTo(table, CLUSTER_FREE, n), n)
         /\ r.ret = n
  BY <1>1, LinkFreeClusterResult
<1> HIDE DEF r, n
<1>5. CASE r.table = table /\ r.ret = CLUSTER_FREE
  BY <1>2, <1>3, <1>5 DEF r
<1>6. CASE /\ n \in CLUSTER_FIRST .. PastEnd /\ table[n] = CLUSTER_FREE
           /\ r.table = MarkEnd(LinkTo(table, CLUSTER_FREE, n), n)
           /\ r.ret = n
  <2>1. n # CLUSTER_FREE
    BY <1>6, ConstantOrder
  <2>2. Granted(CLUSTER_FREE, n)
    BY <1>1, <1>2, <1>6 DEF Granted
  <2>3. heads' = heads \cup {n}
    BY <2>1, <1>2, <1>6
  <2> QED
    BY <2>2, <2>3, <1>2, <1>3, <1>6 DEF r
<1> QED
  BY <1>4, <1>5, <1>6

\* Creating a file.
LEMMA Creating ==
    ASSUME FileInv, NEW f \in Files, FileCreate(f)
    PROVE  FileInv'
<1> DEFINE start == LinkFreeCluster(table, firstFree, CLUSTER_FREE).ret
           B == BytesPerCluster
<1>1. /\ IInv /\ FileTypeOK /\ StartsAreHeads /\ StartsDiffer /\ Contents
  BY DEF FileInv
<1>2. /\ pc = "closed" /\ files[f].state = "unused" /\ AllocHead
      /\ w' = [NoFile EXCEPT !.file = f, !.start = start, !.cluster = start]
      /\ files' = [files EXCEPT ![f].state = "writing"]
      /\ pc' = "open" /\ data' = data
  BY DEF FileCreate
<1>3. /\ IInv'
      /\ \/ /\ UNCHANGED <<table, heads, orphans>>
            /\ start = CLUSTER_FREE
         \/ /\ start \in CLUSTER_FIRST .. PastEnd
            /\ Granted(CLUSTER_FREE, start)
            /\ heads' = heads \cup {start} /\ orphans' = orphans
  BY <1>1, <1>2, CreateCases
<1> HIDE DEF start
<1>4. start \in Entry /\ start # 1
  BY <1>3, ConstantOrder DEF Entry
<1>5. B \in Nat /\ B >= 1 /\ MaxSize \in Nat
  BY SizeFacts
<1>6. /\ w'.file = f /\ w'.start = start /\ w'.cluster = start
      /\ w'.size = 0 /\ w'.at = 0 /\ w'.len = 0 /\ w'.remain = 0
  BY <1>2 DEF NoFile
<1>7. w' \in Record
  <2>1. 0 \in 0 .. MaxSize /\ 0 \in 0 .. B /\ start \in 0 .. PastEnd
    BY <1>4, <1>5 DEF Entry
  <2> QED
    BY <2>1, <1>2 DEF NoFile, Record
<1>8. /\ files \in Entries /\ files' \in Entries
      /\ \A g \in Files : files'[g].start = files[g].start /\ files'[g].size = files[g].size
      /\ files'[f].state = "writing"
      /\ \A g \in Files : g # f => files'[g] = files[g]
  <2>1. files \in Entries
    BY <1>1 DEF FileTypeOK, Entries
  <2> QED
    BY <2>1, <1>2 DEF Entries
<1>9. FileTypeOK'
  BY <1>1, <1>2, <1>3, <1>7, <1>8 DEF FileTypeOK, IInv, Record, Entries
<1>10. Sections'
  BY <1>2, <1>5, <1>6 DEF Sections
<1>11. OpenFile'
  BY <1>2, <1>6, <1>8 DEF OpenFile
<1>12. /\ Listed' = Listed /\ f \notin Listed
       /\ Kept = Listed /\ Kept' = Listed \cup {f} /\ Listed \subseteq Files
  <2>1. \A g \in Files : files'[g].state = "listed" <=> files[g].state = "listed"
    BY <1>2, <1>8
  <2>2. Listed' = Listed /\ f \notin Listed /\ Listed \subseteq Files
    BY <2>1, <1>2 DEF Listed
  <2> QED
    BY <2>2, <1>2, <1>6 DEF Kept
<1>13. Position' = 0 /\ At' = 0
  BY <1>2, <1>6 DEF Position, At
<1>14. \A g \in Listed :
          /\ StartOf(g) = files[g].start /\ SizeOf(g) = files[g].size
          /\ StartOf(g)' = StartOf(g) /\ SizeOf(g)' = SizeOf(g)
  BY <1>2, <1>6, <1>8, <1>12 DEF StartOf, SizeOf
<1>15. StartOf(f)' = start /\ SizeOf(f)' = 0
  BY <1>2, <1>6, <1>13 DEF StartOf, SizeOf
<1>16. StartsAreHeads'
  <2>1. heads' = heads \cup ({start} \ {CLUSTER_FREE})
    BY <1>3, ConstantOrder
  <2>2. heads = {StartOf(g) : g \in Listed} \ {CLUSTER_FREE}
    BY <1>1, <1>12 DEF StartsAreHeads
  <2>3. {StartOf(g)' : g \in Listed \cup {f}} = {StartOf(g) : g \in Listed} \cup {start}
    BY <1>14, <1>15
  <2> QED
    BY <2>1, <2>2, <2>3, <1>12 DEF StartsAreHeads
<1>17. \A g \in Listed : StartOf(g) \in Cluster =>
          StartOf(g) \in Roots \cap Cluster /\ StartOf(g) # start
  <2> SUFFICES ASSUME NEW g \in Listed, StartOf(g) \in Cluster
               PROVE  StartOf(g) \in Roots \cap Cluster /\ StartOf(g) # start
    OBVIOUS
  <2>1. StartOf(g) \in Roots \cap Cluster
    BY <1>12, KeptFacts
  <2>2. table[StartOf(g)] # CLUSTER_FREE /\ CLUSTER_FREE \notin Cluster
    BY <2>1, <1>1, ConstantOrder DEF IInv, RootsAreHeads, Cluster
  <2>3. start \in Cluster => table[start] = CLUSTER_FREE
    BY <2>2, <1>3 DEF Granted
  <2> QED
    BY <2>1, <2>2, <2>3
<1>18. StartsDiffer'
  <2>1. \A g, h \in Listed : (StartOf(g) \in Cluster /\ StartOf(g) = StartOf(h)) => g = h
    BY <1>1, <1>12 DEF StartsDiffer
  <2>2. \A g \in Listed : StartOf(g) \in Cluster => StartOf(g) # start
    BY <1>17
  <2> SUFFICES ASSUME NEW g \in Listed \cup {f}, NEW h \in Listed \cup {f},
                      StartOf(g)' \in Cluster, StartOf(g)' = StartOf(h)'
               PROVE  g = h
    BY <1>12 DEF StartsDiffer
  <2>3. CASE g \in Listed /\ h \in Listed
    BY <2>1, <2>3, <1>14
  <2>4. CASE g = f /\ h \in Listed
    BY <2>2, <2>4, <1>14, <1>15
  <2>5. CASE g \in Listed /\ h = f
    BY <2>2, <2>5, <1>14, <1>15
  <2> QED
    BY <2>3, <2>4, <2>5
<1>19. Contents'
  <2> SUFFICES ASSUME NEW g \in Listed \cup {f}, StartOf(g)' \in Cluster
               PROVE  Content(table', data, g, StartOf(g)', SizeOf(g)')
    BY <1>2, <1>12 DEF Contents
  <2>1. CASE g = f
    <3>1. \A k \in 0 .. MaxSize, o \in Offset : ~(k * B + o < 0)
      <4> SUFFICES ASSUME NEW k \in 0 .. MaxSize, NEW o \in Offset
                   PROVE  ~(k * B + o < 0)
        OBVIOUS
      <4>1. k \in Nat /\ o \in Nat
        BY SizeFacts
      <4>2. k * B \in Nat
        BY <4>1, <1>5
      <4> QED
        BY <4>1, <4>2
    <3>2. SizeOf(g)' = 0
      BY <2>1, <1>15
    <3> QED
      BY <3>1, <3>2 DEF Content
  <2>2. CASE g \in Listed
    <3> DEFINE s == StartOf(g)
               m == SizeOf(g)
    <3>1. s \in Cluster /\ StartOf(g)' = s /\ SizeOf(g)' = m
      BY <2>2, <1>14
    <3>2. /\ Content(table, data, g, s, m) /\ s \in Roots \cap Cluster
          /\ m \in Nat /\ m <= MaxSize
      BY <2>2, <3>1, <1>1, <1>12, KeptFacts DEF Contents
    <3> HIDE DEF s, m
    <3>3. CASE UNCHANGED table
      BY <3>1, <3>2, <3>3
    <3>4. CASE Granted(CLUSTER_FREE, start)
      <4>1. CLUSTER_FREE \notin Chain(table, s)
        BY ChainClosed, ConstantOrder DEF Cluster
      <4>2. Content(table', data, g, s, m)
        BY <4>1, <3>2, <3>4, <1>1, GrantKeepsOthers
      <4> QED
        BY <4>2, <3>1
    <3> QED
      BY <3>3, <3>4, <1>3
  <2> QED
    BY <2>1, <2>2
<1>20. WriterAtEnd'
  <2>1. table'[start] \in {CLUSTER_EOF, CLUSTER_FREE}
    <3>1. CASE start = CLUSTER_FREE
      BY <3>1, <1>3, ConstantOrder DEF IInv, FixedEntries
    <3>2. CASE Granted(CLUSTER_FREE, start)
      BY <3>2, <1>1, GrantedEntries
    <3> QED
      BY <3>1, <3>2, <1>3
  <2>2. start \in Cluster => start \in Chain(table', start)
    BY ChainClosed
  <2>3. 0 \in 0 .. MaxSize /\ 0 = 0 * B + 0
    BY <1>5
  <2>4. Linked(0)'
    BY <1>6, PathFollows DEF Linked
  <2> QED
    BY <2>1, <2>2, <2>3, <2>4, <1>4, <1>6, <1>13 DEF WriterAtEnd
<1> QED
  BY <1>3, <1>9, <1>10, <1>11, <1>16, <1>18, <1>19, <1>20 DEF FileInv

\* Steps that change neither the disc nor what is known of the files.
LEMMA Noting ==
    ASSUME FileInv, UNCHANGED <<vars, data>>,
           FileTypeOK', Sections', OpenFile', WriterAtEnd',
           Kept' = Kept, \A f \in Kept : StartOf(f)' = StartOf(f) /\ SizeOf(f)' = SizeOf(f)
    PROVE  FileInv'
<1>1. /\ table' = table /\ firstFree' = firstFree /\ heads' = heads /\ orphans' = orphans
      /\ data' = data
  BY DEF vars
<1>2. IInv /\ StartsAreHeads /\ StartsDiffer /\ Contents
  BY DEF FileInv
<1>3. IInv'
  BY <1>2, NextInvariant
<1>4. StartsAreHeads'
  BY <1>1, <1>2 DEF StartsAreHeads
<1>5. StartsDiffer'
  BY <1>2 DEF StartsDiffer
<1>6. Contents'
  BY <1>1, <1>2 DEF Contents
<1> QED
  BY <1>3, <1>4, <1>5, <1>6 DEF FileInv

LEMMA Beginning ==
    ASSUME FileInv, NEW n \in Lengths, BeginWrite(n)
    PROVE  FileInv'
<1> DEFINE B == BytesPerCluster
<1>1. /\ pc = "open" /\ w.size + n <= MaxSize
      /\ w' = [w EXCEPT !.len = n, !.remain = n, !.append = n > w.size]
      /\ pc' = IF w.at >= B THEN "move" ELSE "head"
      /\ table' = table /\ firstFree' = firstFree /\ heads' = heads /\ orphans' = orphans
      /\ data' = data /\ files' = files
  BY DEF BeginWrite, vars
<1>2. FileTypeOK /\ Sections /\ OpenFile /\ WriterAtEnd
  BY DEF FileInv
<1>3. Writing
  BY <1>1 DEF Writing
<1>4. /\ w \in Record /\ w.at \in Nat /\ w.size \in Nat /\ w.at <= B
      /\ Position = w.size + w.len - w.remain
  BY <1>3, WriterFacts
<1>5. B \in Nat /\ MaxSize \in Nat /\ n \in Nat
  BY SizeFacts
<1>6. w.len = 0 /\ w.remain = 0 /\ Position = w.size
  BY <1>1, <1>2, <1>4 DEF Sections
<1>7. /\ w'.file = w.file /\ w'.start = w.start /\ w'.cluster = w.cluster
      /\ w'.size = w.size /\ w'.at = w.at /\ w'.len = n /\ w'.remain = n
  BY <1>1, <1>4 DEF Record
<1>8. pc' \in {"move", "head"}
  BY <1>1
<1>9. w' \in Record
  <2>1. n \in 0 .. MaxSize /\ n \in Lengths \cup {0} /\ (n > w.size) \in BOOLEAN
    BY <1>1, <1>4, <1>5
  <2> QED
    BY <2>1, <1>1, <1>4 DEF Record
<1>10. FileTypeOK'
  <2>1. TypeOK'
    BY <1>1, <1>2 DEF FileTypeOK, TypeOK
  <2> QED
    BY <2>1, <1>1, <1>2, <1>8, <1>9 DEF FileTypeOK, Record
<1>11. Sections'
  <2>1. pc' = "move" => w'.at = B
    BY <1>1, <1>4, <1>5, <1>7
  <2>2. pc' = "head" => w'.at < B
    BY <1>1, <1>4, <1>5, <1>7
  <2>3. w'.remain <= w'.len /\ w'.size + w'.len <= MaxSize
    BY <1>1, <1>5, <1>7
  <2> QED
    BY <2>1, <2>2, <2>3, <1>8 DEF Sections
<1>12. OpenFile'
  BY <1>1, <1>2, <1>7, <1>8 DEF OpenFile
<1>13. Position' = Position /\ At' = At
  <2>1. Position' = Position
    BY <1>4, <1>5, <1>6, <1>7 DEF Position
  <2>2. At' = At
    BY <1>1, <1>7, <1>8 DEF At
  <2> QED
    BY <2>1, <2>2
<1>14. /\ Kept' = Kept
       /\ \A f \in Kept : StartOf(f)' = StartOf(f) /\ SizeOf(f)' = SizeOf(f)
  BY <1>1, <1>7, <1>8, <1>13 DEF Kept, Listed, StartOf, SizeOf
<1>15. WriterAtEnd'
  <2>1. PICK k \in 0 .. MaxSize :
            /\ Position = k * B + At
            /\ w.start \in Cluster => Linked(k) \/ Lost(k)
    BY <1>2, <1>3 DEF WriterAtEnd, Writing
  <2>2. w.start \in Cluster => Linked(k)' \/ Lost(k)'
    BY <2>1, <1>1, <1>7 DEF Linked, Lost
  <2>3. /\ table[w.cluster] \in {CLUSTER_EOF, CLUSTER_FREE}
        /\ w.cluster # 1
        /\ w.cluster \in Cluster => \E r \in {w.start} \cup orphans : w.cluster \in Chain(table, r)
    BY <1>2, <1>3 DEF WriterAtEnd, Writing
  <2> QED
    BY <2>1, <2>2, <2>3, <1>1, <1>7, <1>13 DEF WriterAtEnd
<1> QED
  BY <1>1, <1>10, <1>11, <1>12, <1>14, <1>15, Noting DEF vars

\* Closing the file, after a call that has returned or one that was refused.
LEMMA Closing ==
    ASSUME FileInv, FileClose \/ CloseRefused
    PROVE  FileInv'
<1> DEFINE entry == [state |-> "listed", start |-> w.start, size |-> w.size]
<1>1. FileTypeOK /\ Sections /\ OpenFile
  BY DEF FileInv
<1>2. /\ table' = table /\ firstFree' = firstFree /\ heads' = heads /\ orphans' = orphans
      /\ data' = data /\ files' = [files EXCEPT ![w.file] = entry]
      /\ \/ pc = "open" /\ pc' = "closed" /\ w' = NoFile
         \/ pc = "refused" /\ pc' = "undo" /\ w' = w
  BY DEF FileClose, CloseRefused, Entered, vars
<1>3. /\ w.file \in Files /\ files[w.file].state = "writing"
      /\ w.len = 0 /\ w.remain = 0
  BY <1>1, <1>2 DEF OpenFile, Sections
<1>4. /\ w.start \in 0 .. PastEnd /\ w.size \in 0 .. MaxSize /\ w.size \in Nat
      /\ w \in Record /\ files \in Entries
  BY <1>1, FieldTypes DEF FileTypeOK, Record, Entries, Entry
<1>5. Position = w.size
  BY <1>3, <1>4 DEF Position
<1>6. /\ files'[w.file] = entry
      /\ \A g \in Files : g # w.file => files'[g] = files[g]
      /\ files' \in Entries
  BY <1>2, <1>3, <1>4 DEF Entries
<1>7. FileTypeOK'
  <2>1. TypeOK'
    BY <1>1, <1>2 DEF FileTypeOK, TypeOK
  <2>2. NoFile \in Record
    <3>1. /\ 0 \in 0 .. MaxSize /\ 0 \in 0 .. PastEnd /\ 0 \in 0 .. BytesPerCluster
      BY SizeFacts, ConstantOrder
    <3> QED
      BY <3>1 DEF NoFile, Record
  <2>3. w' \in Record /\ pc' \in {"closed", "undo"}
    BY <2>2, <1>2, <1>4
  <2> QED
    BY <2>1, <2>3, <1>1, <1>2, <1>6 DEF FileTypeOK, Record, Entries
<1>8. Sections'
  <2>1. w'.len = 0 /\ w'.remain = 0 /\ w'.size \in Nat /\ w'.size <= MaxSize
    <3>1. CASE w' = NoFile
      BY <3>1, SizeFacts DEF NoFile
    <3>2. CASE w' = w
      BY <3>2, <1>3, <1>4, SizeFacts
    <3> QED
      BY <3>1, <3>2, <1>2
  <2>2. w'.remain <= w'.len /\ w'.size + w'.len <= MaxSize
    BY <2>1, SizeFacts
  <2> QED
    BY <2>1, <2>2, <1>2 DEF Sections
<1>9. OpenFile'
  BY <1>2, <1>3, <1>6 DEF OpenFile
<1>10. /\ Kept' = Kept /\ Kept \subseteq Files
  <2>1. Listed' = Listed \cup {w.file}
    BY <1>3, <1>6 DEF Listed
  <2>2. Kept' = Listed \cup {w.file} /\ Kept = Listed \cup {w.file}
    BY <2>1, <1>2 DEF Kept
  <2> QED
    BY <2>2, <1>3 DEF Listed
<1>11. ASSUME NEW f \in Kept
       PROVE  StartOf(f)' = StartOf(f) /\ SizeOf(f)' = SizeOf(f)
  <2>1. CASE f = w.file
    <3>1. StartOf(f) = w.start /\ SizeOf(f) = w.size
      BY <2>1, <1>2, <1>5 DEF StartOf, SizeOf
    <3>2. files'[f].start = w.start /\ files'[f].size = w.size
      BY <2>1, <1>6
    <3>3. CASE pc' = "closed"
      BY <3>1, <3>2, <3>3 DEF StartOf, SizeOf
    <3>4. CASE pc' = "undo" /\ w' = w
      <4>1. Position' = w.size
        BY <3>4, <1>5 DEF Position
      <4> QED
        BY <3>1, <3>4, <4>1, <2>1 DEF StartOf, SizeOf
    <3> QED
      BY <3>3, <3>4, <1>2
  <2>2. CASE f # w.file
    <3>1. files'[f] = files[f]
      BY <2>2, <1>6, <1>10
    <3>2. ~(pc' # "closed" /\ f = w'.file)
      BY <2>2, <1>2
    <3> QED
      BY <2>2, <3>1, <3>2 DEF StartOf, SizeOf
  <2> QED
    BY <2>1, <2>2
<1>12. WriterAtEnd'
  BY <1>2 DEF WriterAtEnd
<1> QED
  BY <1>2, <1>7, <1>8, <1>9, <1>10, <1>11, <1>12, Noting DEF vars

\* What is known of the listed files when no call of FileWrite is under way.
LEMMA ListedFacts ==
    ASSUME FileInv, pc \in {"closed", "undo"}
    PROVE  /\ Kept = Listed /\ Listed \subseteq Files
           /\ \A g \in Listed : StartOf(g) = files[g].start /\ SizeOf(g) = files[g].size
           /\ heads = StartClusters(Listed)
<1>1. FileTypeOK /\ Sections /\ OpenFile /\ StartsAreHeads
  BY DEF FileInv
<1>2. Kept = Listed /\ Listed \subseteq Files
  BY <1>1 DEF Kept, Listed, OpenFile
<1>3. w.len = 0 /\ w.remain = 0 /\ w.size \in Nat
  BY <1>1, FieldTypes DEF Sections
<1>4. Position = w.size
  BY <1>3 DEF Position
<1>5. \A g \in Listed : StartOf(g) = files[g].start /\ SizeOf(g) = files[g].size
  BY <1>1, <1>4 DEF OpenFile, StartOf, SizeOf
<1>6. {StartOf(g) : g \in Listed} = {files[g].start : g \in Listed}
  BY <1>5
<1> QED
  BY <1>1, <1>2, <1>5, <1>6 DEF StartsAreHeads, StartClusters

\* Freeing the chain of a start cluster, or nothing, leaves the contents of a
\* file with another start cluster alone.
LEMMA FreeingKeepsContent ==
    ASSUME IInv, NEW h \in heads, table' = ClearLinks(table, h),
           NEW s \in Roots \cap Cluster, s # h, NEW d, NEW f, NEW m \in Nat, m <= MaxSize,
           Content(table, d, f, s, m)
    PROVE  Content(table', d, f, s, m)
<1>1. Ends(table)
  BY TableEnds
<1>2. /\ Chain(table', s) = Chain(table, s)
      /\ Chain(table, s) \cap Chain(table, h) = {}
  BY ReleaseKeepsOthers
<1>3. \A e \in Entry : e \notin Chain(table, h) => table'[e] = table[e]
  BY DEF ClearLinks
<1>4. /\ \A e \in Entry \ Cluster : table'[e] = table[e]
      /\ \A e \in Chain(table, s) : table'[e] = table[e]
  <2>1. /\ Chain(table, h) \subseteq Cluster
        /\ Chain(table, s) \subseteq Entry
    BY ChainClosed, ConstantOrder DEF Cluster, Entry
  <2> QED
    BY <2>1, <1>2, <1>3
<1>5. \A k \in 0 .. MaxSize : Path(table', s)[k] = Path(table, s)[k]
  BY <1>1, <1>4, PathKept
<1> DEFINE K == MaxSize
<1>6. K \in 0 .. MaxSize /\ m <= K * BytesPerCluster + BytesPerCluster
  <2>1. K \in Nat /\ BytesPerCluster \in Nat /\ BytesPerCluster >= 1
    BY SizeFacts
  <2>2. K * BytesPerCluster \in Nat /\ K <= K * BytesPerCluster
    BY <2>1
  <2> QED
    BY <2>1, <2>2
<1> HIDE DEF K
<1> QED
  BY <1>1, <1>2, <1>5, <1>6, ContentKept

\* Deleting an entry with its chain.
LEMMA Deleting ==
    ASSUME FileInv, UndoWrite \/ \E f \in Files : FileDelete(f)
    PROVE  FileInv'
<1>1. PICK f \in Listed :
        /\ DeleteEntry(f)
        /\ pc \in {"closed", "undo"} /\ pc' = "closed"
        /\ w' = NoFile \/ w' = w
  <2>1. CASE \E f \in Files : FileDelete(f)
    BY <2>1 DEF FileDelete
  <2>2. CASE UndoWrite
    <3>1. w.file \in Listed
      BY <2>2 DEF UndoWrite, FileInv, OpenFile, Listed
    <3> QED
      BY <2>2, <3>1 DEF UndoWrite
  <2> QED
    BY <2>1, <2>2
<1> DEFINE h == files[f].start
           gone == [state |-> "deleted", start |-> 0, size |-> 0]
<1>2. IInv /\ FileTypeOK /\ Sections /\ StartsAreHeads /\ StartsDiffer /\ Contents
  BY DEF FileInv
<1>3. /\ table' = ClearLinks(table, h) /\ firstFree' = LoweredHint(firstFree, h)
      /\ heads' = StartClusters(Listed \ {f}) /\ orphans' = orphans /\ data' = data
      /\ files' = [files EXCEPT ![f] = gone]
  BY <1>1 DEF DeleteEntry, FreeChain
<1>4. /\ Kept = Listed /\ Listed \subseteq Files
      /\ \A g \in Listed : StartOf(g) = files[g].start /\ SizeOf(g) = files[g].size
      /\ heads = StartClusters(Listed)
  BY <1>1, ListedFacts
<1>5. files \in Entries /\ w \in Record
  BY <1>2 DEF FileTypeOK, Entries, Record
<1>6. /\ files' \in Entries /\ files'[f] = gone
      /\ \A g \in Files : g # f => files'[g] = files[g]
  <2>1. 0 \in 0 .. PastEnd /\ 0 \in 0 .. MaxSize
    BY SizeFacts, ConstantOrder
  <2> QED
    BY <2>1, <1>3, <1>4, <1>5 DEF Entries
<1>7. /\ Listed' = Listed \ {f} /\ Kept' = Listed \ {f}
      /\ \A g \in Listed \ {f} : /\ StartOf(g)' = StartOf(g)
                                 /\ SizeOf(g)' = SizeOf(g)
  <2>1. Listed' = Listed \ {f}
    BY <1>4, <1>6 DEF Listed
  <2>2. Kept' = Listed \ {f}
    BY <2>1, <1>1 DEF Kept
  <2>3. \A g \in Listed \ {f} : StartOf(g)' = files'[g].start /\ SizeOf(g)' = files'[g].size
    BY <1>1 DEF StartOf, SizeOf
  <2> QED
    BY <2>1, <2>2, <2>3, <1>4, <1>6
<1>8. IInv'
  <2>1. CASE h = CLUSTER_FREE
    <3>1. h \notin Cluster
      BY <2>1, ConstantOrder DEF Cluster
    <3>2. table' = table
      <4>1. Chain(table, h) = {}
        BY <3>1, ChainOfNoCluster
      <4> QED
        BY <4>1, <1>2, <1>3 DEF ClearLinks, IInv, TypeOK
    <3>3. firstFree' = firstFree
      BY <3>1, <1>3 DEF LoweredHint
    <3>4. heads' = heads
      BY <2>1, <1>3, <1>4 DEF StartClusters
    <3> QED
      BY <3>2, <3>3, <3>4, <1>2, <1>3, NextInvariant DEF vars
  <2>2. CASE h # CLUSTER_FREE
    <3>1. h \in heads
      BY <2>2, <1>4 DEF StartClusters
    <3>2. heads' \subseteq heads /\ heads \subseteq CLUSTER_FIRST .. PastEnd
      BY <1>2, <1>3, <1>4 DEF StartClusters, IInv, TypeOK
    <3>3. heads' \cap Cluster = (heads \cap Cluster) \ {h}
      <4>1. ASSUME NEW x \in Cluster
            PROVE  x \in heads' <=> (x \in heads /\ x # h)
        <5>1. x \in heads' => x # h
          <6> SUFFICES ASSUME x \in heads', x = h
                       PROVE  FALSE
            OBVIOUS
          <6>1. PICK g \in Listed \ {f} : files[g].start = x
            BY <1>3 DEF StartClusters
          <6>2. StartOf(g) = StartOf(f) /\ StartOf(g) \in Cluster
            BY <6>1, <1>4
          <6> QED
            BY <6>1, <6>2, <1>2, <1>4 DEF StartsDiffer
        <5>2. (x \in heads /\ x # h) => x \in heads'
          BY <1>3, <1>4 DEF StartClusters
        <5> QED
          BY <5>1, <5>2, <3>2
      <4> QED
        BY <4>1
    <3>4. heads' \subseteq CLUSTER_FIRST .. PastEnd
      BY <3>2
    <3> HIDE DEF h
    <3> QED
      BY <3>1, <3>3, <3>4, <1>2, <1>3, FreeingKeepsInvariant
  <2> QED
    BY <2>1, <2>2
<1>9. w' \in Record /\ w'.len = 0 /\ w'.remain = 0
  <2>1. CASE w' = NoFile
    <3>1. 0 \in 0 .. MaxSize /\ 0 \in 0 .. PastEnd /\ 0 \in 0 .. BytesPerCluster
      BY SizeFacts, ConstantOrder
    <3> QED
      BY <2>1, <3>1 DEF NoFile, Record
  <2>2. CASE w' = w
    BY <2>2, <1>1, <1>2, <1>5 DEF Sections
  <2> QED
    BY <2>1, <2>2, <1>1
<1>10. FileTypeOK'
  BY <1>1, <1>2, <1>3, <1>6, <1>8, <1>9 DEF FileTypeOK, IInv, Record, Entries
<1>11. Sections'
  <2>1. w'.size \in Nat /\ w'.size <= MaxSize
    BY <1>9, SizeFacts DEF Record
  <2>2. w'.remain <= w'.len /\ w'.size + w'.len <= MaxSize
    BY <2>1, <1>9, SizeFacts
  <2> QED
    BY <2>2, <1>1, <1>9 DEF Sections
<1>12. OpenFile' /\ WriterAtEnd'
  BY <1>1 DEF OpenFile, WriterAtEnd
<1>13. StartsAreHeads'
  <2>1. {StartOf(g)' : g \in Listed \ {f}} = {files[g].start : g \in Listed \ {f}}
    BY <1>4, <1>7
  <2> QED
    BY <2>1, <1>3, <1>7 DEF StartsAreHeads, StartClusters
<1>14. StartsDiffer'
  BY <1>2, <1>4, <1>7 DEF StartsDiffer
<1>15. Contents'
  <2> SUFFICES ASSUME NEW g \in Listed \ {f}, StartOf(g) \in Cluster
               PROVE  Content(table', data, g, StartOf(g), SizeOf(g))
    BY <1>3, <1>7 DEF Contents
  <2>1. /\ Content(table, data, g, StartOf(g), SizeOf(g))
        /\ StartOf(g) \in Roots \cap Cluster
        /\ SizeOf(g) \in Nat /\ SizeOf(g) <= MaxSize
    BY <1>2, <1>4, KeptFacts DEF Contents
  <2>2. CASE h = CLUSTER_FREE
    <3>1. Chain(table, h) = {}
      BY <2>2, ChainOfNoCluster, ConstantOrder DEF Cluster
    <3>2. table' = table
      BY <3>1, <1>2, <1>3 DEF ClearLinks, IInv, TypeOK
    <3> QED
      BY <2>1, <3>2
  <2>3. CASE h # CLUSTER_FREE
    <3>1. h \in heads
      BY <2>3, <1>4 DEF StartClusters
    <3>2. StartOf(g) # h
      BY <1>2, <1>4 DEF StartsDiffer
    <3> HIDE DEF h
    <3> QED
      BY <2>1, <3>1, <3>2, <1>2, <1>3, FreeingKeepsContent
  <2> QED
    BY <2>2, <2>3
<1> QED
  BY <1>8, <1>10, <1>11, <1>12, <1>13, <1>14, <1>15 DEF FileInv

------------------------------------------------------------------------
(* The invariant.                                                          *)

LEMMA FileInitInvariant == FileInit => FileInv
<1> SUFFICES ASSUME FileInit
             PROVE  FileInv
  OBVIOUS
<1>1. /\ Init /\ pc = "closed" /\ w = NoFile
      /\ data = [a \in Areas |-> [i \in Offset |-> IF a = 0 THEN Root ELSE Blank]]
      /\ files = [f \in Files |-> [state |-> "unused", start |-> 0, size |-> 0]]
  BY DEF FileInit
<1>2. IInv /\ heads = {}
  BY <1>1, InitInvariant DEF Init
<1>3. /\ 0 \in 0 .. MaxSize /\ 0 \in 0 .. PastEnd /\ 0 \in 0 .. BytesPerCluster
      /\ MaxSize \in Nat
  BY SizeFacts, ConstantOrder
<1>4. FileTypeOK
  <2>1. data \in [Areas -> [Offset -> Byte]]
    BY <1>1 DEF Byte
  <2>2. files \in Entries
    BY <1>1, <1>3 DEF Entries
  <2>3. w \in Record
    BY <1>1, <1>3 DEF NoFile, Record
  <2> QED
    BY <2>1, <2>2, <2>3, <1>1, <1>2 DEF FileTypeOK, IInv, Entries, Record
<1>5. Sections
  BY <1>1, <1>3 DEF Sections, NoFile
<1>6. Kept = {}
  BY <1>1 DEF Kept, Listed
<1>7. OpenFile /\ StartsAreHeads /\ StartsDiffer /\ Contents /\ WriterAtEnd
  BY <1>1, <1>2, <1>6 DEF OpenFile, StartsAreHeads, StartsDiffer, Contents, WriterAtEnd
<1> QED
  BY <1>2, <1>4, <1>5, <1>7 DEF FileInv

\* Every step keeps the invariant: one case for each call and each section.
LEMMA FileNextInvariant == FileInv /\ [FileNext]_fileVars => FileInv'
<1> SUFFICES ASSUME FileInv, [FileNext]_fileVars
             PROVE  FileInv'
  OBVIOUS
<1>1. CASE \E f \in Files : FileCreate(f)
  BY <1>1, Creating
<1>2. CASE \E f \in Files : FileDelete(f)
  BY <1>2, Deleting
<1>3. CASE \E n \in Lengths : BeginWrite(n)
  BY <1>3, Beginning
<1>4. CASE FileClose \/ CloseRefused
  BY <1>4, Closing
<1>5. CASE MoveOn
  BY <1>5, Advancing DEF MoveOn
<1>6. CASE NextWritten
  BY <1>6, Advancing DEF NextWritten
<1>7. CASE Head
  BY <1>7, HeadWrites
<1>8. CASE Fill
  BY <1>8, FillWrites
<1>9. CASE WholeCluster
  BY <1>9, WholeClusterWrites
<1>10. CASE Rest
  BY <1>10, RestWrites
<1>11. CASE UndoWrite
  BY <1>11, Deleting
<1>12. CASE UNCHANGED fileVars
  <2>1. /\ table' = table /\ firstFree' = firstFree /\ heads' = heads /\ orphans' = orphans
        /\ data' = data /\ files' = files /\ pc' = pc /\ w' = w
    BY <1>12 DEF fileVars, vars
  <2>2. FileTypeOK' /\ Sections' /\ OpenFile'
    BY <2>1 DEF FileInv, FileTypeOK, TypeOK, Sections, OpenFile
  <2>3. WriterAtEnd'
    BY <2>1 DEF FileInv, WriterAtEnd, Position, At, Linked, Lost
  <2>4. Kept' = Kept /\ \A f \in Kept : StartOf(f)' = StartOf(f) /\ SizeOf(f)' = SizeOf(f)
    BY <2>1 DEF Kept, Listed, StartOf, SizeOf, Position
  <2> QED
    BY <2>1, <2>2, <2>3, <2>4, Noting DEF vars
<1> QED
  BY <1>1, <1>2, <1>3, <1>4, <1>5, <1>6, <1>7, <1>8, <1>9, <1>10, <1>11, <1>12
     DEF FileNext, Call, WriteStep

\* What the proofs below rest on holds in every state.
THEOREM FileInvariant == FileSpec => []FileInv
BY FileInitInvariant, FileNextInvariant, PTL DEF FileSpec

\* The disc, the directory entries and the open file keep to their ranges:
\* FileWrite never writes behind a cluster, nor counts bytes it was not given.
THEOREM FilesAreTyped == FileSpec => []FileTypeOK
<1>1. FileInv => FileTypeOK
  BY DEF FileInv
<1> QED
  BY <1>1, FileInvariant, PTL

\* When no file is open, what is marked used belongs to a listed file or to an
\* abandoned extension: a refused write gives back what it has taken.
THEOREM RefusedWritesReturnSpace == FileSpec => []SpaceIsReturned
<1>1. FileInv => SpaceIsReturned
  <2> SUFFICES ASSUME FileInv, pc = "closed", NEW c \in Cluster, table[c] # CLUSTER_FREE
               PROVE  \E r \in StartClusters(Listed) \cup orphans : c \in Chain(table, r)
    BY DEF SpaceIsReturned
  <2>1. heads = StartClusters(Listed)
    BY ListedFacts
  <2>2. \E r \in Roots : c \in Chain(table, r)
    BY DEF FileInv, IInv, NothingLeaks
  <2> QED
    BY <2>1, <2>2 DEF Roots
<1> QED
  BY <1>1, FileInvariant, PTL

\* Between two calls of FileWrite the position is the size of what has been
\* written, in the cluster reading comes to after that many bytes.
THEOREM WritesFollowOneAnother == FileSpec => []PositionFollowsSize
<1>1. FileInv => PositionFollowsSize
  <2> SUFFICES ASSUME FileInv, pc = "open", w.start \in Cluster
               PROVE  \E k \in 0 .. MaxSize :
                        /\ w.size = k * BytesPerCluster + w.at
                        /\ \/ Path(table, w.start)[k] = w.cluster
                           \/ LastCluster \in Chain(table, w.start)
    BY DEF PositionFollowsSize
  <2>1. FileTypeOK /\ Sections /\ WriterAtEnd
    BY DEF FileInv
  <2>2. PICK k \in 0 .. MaxSize : /\ Position = k * BytesPerCluster + At
                                  /\ Linked(k) \/ Lost(k)
    BY <2>1 DEF WriterAtEnd
  <2>3. Position = w.size /\ At = w.at
    BY <2>1, FieldTypes DEF Sections, Position, At
  <2> QED
    BY <2>2, <2>3 DEF Linked, Lost
<1> QED
  BY <1>1, FileInvariant, PTL

\* Reading a listed file returns its own bytes, all of them and in order, or an
\* error, and the error only when the file has outgrown the last cluster.
THEOREM FilesReadBack == FileSpec => []ReadsBack
<1>1. FileInv => ReadsBack
  <2> SUFFICES ASSUME FileInv, NEW f \in Listed, StaysInVolume(f)
               PROVE  IF FileRead(f).ok THEN FileRead(f).bytes = Written(f)
                      ELSE LastCluster \in Chain(table, files[f].start)
    BY DEF ReadsBack
  <2> DEFINE s == files[f].start
             n == files[f].size
             B == BytesPerCluster
  <2>1. FileTypeOK /\ Sections /\ OpenFile /\ Contents
    BY DEF FileInv
  <2>2. f \in Files /\ f \in Kept
    BY DEF Listed, Kept
  <2>3. StartOf(f) = s /\ SizeOf(f) = n
    <3>1. CASE pc # "closed" /\ f = w.file
      <4>1. pc = "undo"
        BY <3>1, <2>1 DEF OpenFile, Listed
      <4> QED
        BY <4>1, ListedFacts
    <3>2. CASE ~(pc # "closed" /\ f = w.file)
      BY <3>2 DEF StartOf, SizeOf
    <3> QED
      BY <3>1, <3>2
  <2>4. s \in Entry /\ n \in Nat /\ n <= MaxSize
    BY <2>1, <2>2, FieldTypes
  <2>5. B \in Nat /\ B > 0 /\ MaxSize \in Nat /\ 0 \in 0 .. MaxSize
    BY SizeFacts
  <2>6. \A k \in 0 .. MaxSize : Path(table, s)[k] \in Cluster \cup {CLUSTER_EOF}
    BY DEF StaysInVolume
  <2>7. s \in Cluster
    BY <2>4, <2>5, <2>6, PathFollows, ConstantOrder DEF Entry
  <2>8. Content(table, data, f, s, n)
    BY <2>1, <2>2, <2>3, <2>7 DEF Contents
  <2> HIDE DEF s, n
  <2>9. ASSUME NEW i \in 0 .. n - 1
        PROVE  /\ ClusterOf(s, i) \in Cluster => data[ClusterOf(s, i)][i % B] = <<f, i>>
               /\ ClusterOf(s, i) = CLUSTER_EOF => LastCluster \in Chain(table, s)
               /\ ClusterOf(s, i) \in Cluster \cup {CLUSTER_EOF}
    <3> DEFINE k == i \div B
               o == i % B
    <3>1. i \in Nat /\ i < n
      BY <2>4
    <3>2. k \in Nat /\ o \in Nat /\ o < B /\ i = k * B + o
      BY <3>1, <2>5, Division
    <3> HIDE DEF k, o
    <3>3. k <= i
      <4>1. k <= k * B /\ k * B \in Nat
        BY <3>2, <2>5
      <4> QED
        BY <4>1, <3>2
    <3>4. k \in 0 .. MaxSize /\ o \in Offset /\ k * B + o < n
      BY <3>1, <3>2, <3>3, <2>4, <2>5, SizeFacts
    <3>5. /\ Path(table, s)[k] \in Cluster => data[Path(table, s)[k]][o] = <<f, k * B + o>>
          /\ Path(table, s)[k] = CLUSTER_EOF => LastCluster \in Chain(table, s)
      BY <3>4, <2>8 DEF Content
    <3>6. ClusterOf(s, i) = Path(table, s)[k]
      BY DEF ClusterOf, k
    <3> QED
      BY <3>2, <3>4, <3>5, <3>6, <2>6 DEF o
  <2>10. FileRead(f).ok = \A i \in 0 .. n - 1 : ClusterOf(s, i) # CLUSTER_EOF
    BY DEF FileRead, s, n
  <2>11. CASE \A i \in 0 .. n - 1 : ClusterOf(s, i) # CLUSTER_EOF
    <3>1. FileRead(f).bytes = [i \in 0 .. n - 1 |-> data[Area(ClusterOf(s, i))][i % B]]
      BY <2>11 DEF FileRead, s, n
    <3>2. ASSUME NEW i \in 0 .. n - 1
          PROVE  data[Area(ClusterOf(s, i))][i % B] = <<f, i>>
      <4>1. ClusterOf(s, i) \in Cluster
        BY <2>9, <2>11
      <4>2. Area(ClusterOf(s, i)) = ClusterOf(s, i)
        <5>1. ClusterOf(s, i) \in Entry
          BY <4>1, ConstantOrder DEF Cluster, Entry
        <5> QED
          BY <4>1, <5>1, AreaFacts
      <4> QED
        BY <4>1, <4>2, <2>9
    <3>3. FileRead(f).bytes = [i \in 0 .. n - 1 |-> <<f, i>>]
      BY <3>1, <3>2
    <3>4. Written(f) = [i \in 0 .. n - 1 |-> <<f, i>>]
      BY DEF Written, n
    <3> QED
      BY <3>3, <3>4, <2>10, <2>11
  <2>12. CASE ~(\A i \in 0 .. n - 1 : ClusterOf(s, i) # CLUSTER_EOF)
    <3>1. LastCluster \in Chain(table, s)
      BY <2>9, <2>12
    <3> QED
      BY <3>1, <2>10, <2>12 DEF s
  <2> QED
    BY <2>11, <2>12
<1> QED
  BY <1>1, FileInvariant, PTL

============================================================================
