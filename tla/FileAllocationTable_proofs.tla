------------------ MODULE FileAllocationTable_proofs ------------------
(***************************************************************************)
(* Proofs about FileAllocationTable for a volume of any size.  First the   *)
(* chains: what a change of the table does to the clusters reached from a  *)
(* start cluster.  Then the search and linkFreeCluster as relations        *)
(* between arguments and results.  Then IInv, inductive because in it the  *)
(* links are injective, no link dangles, and nothing links to a start      *)
(* cluster; the properties follow from it, and so does the refinement of   *)
(* ClusterOwnership.                                                       *)
(***************************************************************************)
EXTENDS FileAllocationTable, WellFoundedInduction, TLAPS

\* What the proofs need of the constants: their order.
LEMMA ConstantOrder ==
    /\ LastCluster \in Nat /\ LastCluster >= 2
    /\ CLUSTER_FREE = 0 /\ CLUSTER_FIRST = 2
    /\ PastEnd = LastCluster + 1 /\ PastEnd \in Nat
    /\ CLUSTER_EOF \in Nat /\ CLUSTER_EOF > PastEnd
    /\ CLUSTER_EOF \notin Cluster
<1> USE LastClusterAssumption DEF CLUSTER_FREE, CLUSTER_FIRST, PastEnd
<1>1. LastCluster \in Int /\ 2 <= LastCluster /\ LastCluster <= MaxLastCluster
  BY SMT DEF MaxLastCluster
<1>2. MaxLastCluster \in Int /\ CLUSTER_EOF = MaxLastCluster + 10
  BY SMT DEF MaxLastCluster, CLUSTER_EOF
<1> QED
  BY <1>1, <1>2, SMT DEF Cluster

\* A non-empty set of natural numbers has a least element.
LEMMA MinIsMember ==
    ASSUME NEW S \in SUBSET Nat, S # {}
    PROVE  Min(S) \in S
<1> DEFINE R == OpToRel(<, Nat)
<1>1. IsWellFoundedOn(R, Nat)
  BY NatLessThanWellFounded
<1>2. PICK n \in S : \A m \in S : <<m, n>> \notin R
  <2> HIDE DEF R
  <2> QED BY <1>1, WFMin
<1>3. ASSUME NEW m \in S, m < n
      PROVE  FALSE
  <2>1. <<m, n>> \in Nat \X Nat /\ <<m, n>>[1] < <<m, n>>[2]
    BY <1>3
  <2>2. <<m, n>> \in R
    BY <2>1 DEF OpToRel
  <2> QED
    BY <2>2, <1>2
<1>4. \A m \in S : n <= m
  BY <1>3
<1> QED
  BY <1>4 DEF Min

\* A chain is a set of clusters that has its first cluster and the links of
\* its members, and it is the least such set.
LEMMA ChainClosed ==
    ASSUME NEW t, NEW c
    PROVE  /\ Chain(t, c) \subseteq Cluster
           /\ c \in Cluster => c \in Chain(t, c)
           /\ ClosedUnder(t, Chain(t, c))
<1>1. Chain(t, c) \subseteq Cluster
  BY DEF Chain
<1>2. c \in Cluster => c \in Chain(t, c)
  BY DEF Chain
<1>3. ClosedUnder(t, Chain(t, c))
  BY DEF Chain, ClosedUnder
<1> QED
  BY <1>1, <1>2, <1>3

\* A set of clusters that has c and the links of its members has the chain of c.
LEMMA ChainLeast ==
    ASSUME NEW t, NEW c, NEW S \in SUBSET Cluster,
           c \in Cluster => c \in S, ClosedUnder(t, S)
    PROVE  Chain(t, c) \subseteq S
BY DEF Chain

\* What is no cluster of the volume has no chain.
LEMMA ChainOfNoCluster ==
    ASSUME NEW t, NEW c, c \notin Cluster
    PROVE  Chain(t, c) = {}
<1>1. ClosedUnder(t, {}) /\ {} \in SUBSET Cluster
  BY DEF ClosedUnder
<1> QED
  BY <1>1, ChainLeast

\* No chain that starts at an allocated cluster runs into a free one.
LEMMA ChainAllocated ==
    ASSUME NEW t, NEW c, c \in Cluster => t[c] # CLUSTER_FREE,
           \A d \in Cluster : t[d] \in Cluster => t[t[d]] # CLUSTER_FREE
    PROVE  \A d \in Chain(t, c) : t[d] # CLUSTER_FREE
<1> DEFINE S == {d \in Cluster : t[d] # CLUSTER_FREE}
<1>1. ClosedUnder(t, S)
  BY DEF ClosedUnder
<1> QED
  BY <1>1, ChainLeast

\* Every member of a chain but the first is the link of another member.
LEMMA ChainPredecessor ==
    ASSUME NEW t, NEW c, NEW d \in Chain(t, c), d # c
    PROVE  \E e \in Chain(t, c) : t[e] = d
<1>1. SUFFICES ASSUME \A e \in Chain(t, c) : t[e] # d
               PROVE  FALSE
  OBVIOUS
<1> DEFINE S == Chain(t, c) \ {d}
<1>2. S \subseteq Cluster /\ (c \in Cluster => c \in S)
  BY ChainClosed
<1>3. ClosedUnder(t, S)
  BY <1>1, ChainClosed DEF ClosedUnder
<1>4. Chain(t, c) \subseteq S
  BY <1>2, <1>3, ChainLeast
<1> QED
  BY <1>4

\* A cluster nothing links to is in no chain but its own.
LEMMA UnlinkedIsNotReached ==
    ASSUME NEW t, NEW c, NEW r, r # c, \A d \in Cluster : t[d] # r
    PROVE  r \notin Chain(t, c)
BY ChainPredecessor, ChainClosed

\* Where links are injective, the chains of two clusters nothing links to are
\* disjoint: a first common member would have two predecessors.
LEMMA UnlinkedChainsDisjoint ==
    ASSUME NEW t, NEW r, NEW q, r \in Cluster, q \in Cluster, r # q,
           \A d \in Cluster : t[d] # r /\ t[d] # q,
           \A c, d \in Cluster : (t[c] \in Cluster /\ t[c] = t[d]) => c = d
    PROVE  Chain(t, r) \cap Chain(t, q) = {}
<1> DEFINE S == Chain(t, r) \ Chain(t, q)
<1>1. S \subseteq Cluster /\ r \in S
  BY ChainClosed, UnlinkedIsNotReached
<1>2. ASSUME NEW d \in S, t[d] \in Cluster
      PROVE  t[d] \in S
  <2>1. t[d] \in Chain(t, r) /\ d \in Cluster
    BY <1>2, ChainClosed DEF ClosedUnder
  <2>2. ASSUME t[d] \in Chain(t, q)
        PROVE  FALSE
    <3>1. PICK e \in Chain(t, q) : t[e] = t[d]
      BY <2>1, <2>2, ChainPredecessor
    <3>2. e = d
      BY <1>2, <2>1, <3>1, ChainClosed
    <3> QED
      BY <3>2
  <2> QED
    BY <2>1, <2>2
<1>3. ClosedUnder(t, S)
  BY <1>2 DEF ClosedUnder
<1>4. Chain(t, r) \subseteq S
  BY <1>1, <1>3, ChainLeast
<1> QED
  BY <1>4

\* A chain is determined by the links of its own members.
LEMMA ChainAgree ==
    ASSUME NEW t, NEW u, NEW c,
           \A d \in Chain(t, c) : t[d] \in Cluster \/ u[d] \in Cluster => u[d] = t[d]
    PROVE  Chain(u, c) = Chain(t, c)
<1>1. ClosedUnder(u, Chain(t, c))
  BY ChainClosed DEF ClosedUnder
<1>2. Chain(u, c) \subseteq Chain(t, c)
  BY <1>1, ChainClosed, ChainLeast
<1>3. ClosedUnder(t, Chain(u, c))
  BY <1>2, ChainClosed DEF ClosedUnder
<1>4. Chain(t, c) \subseteq Chain(u, c)
  BY <1>3, ChainClosed, ChainLeast
<1> QED
  BY <1>2, <1>4

\* Where no link of a chain changes, the chain can only grow.
LEMMA ChainGrows ==
    ASSUME NEW t, NEW u, NEW c,
           \A d \in Chain(t, c) : t[d] \in Cluster => u[d] = t[d]
    PROVE  Chain(t, c) \subseteq Chain(u, c)
<1> DEFINE S == Chain(t, c) \cap Chain(u, c)
<1>1. S \subseteq Cluster /\ (c \in Cluster => c \in S)
  BY ChainClosed
<1>2. ClosedUnder(t, S)
  BY ChainClosed DEF ClosedUnder
<1> QED
  BY <1>1, <1>2, ChainLeast

\* Where links are injective, a cluster reached from one nothing links to is
\* not on a cycle.
LEMMA ReachedIsNotOnCycle ==
    ASSUME NEW t, NEW r, NEW d, r \in Cluster, d \in Chain(t, r), t[d] \in Cluster,
           \A c \in Cluster : t[c] # r,
           \A c, e \in Cluster : (t[c] \in Cluster /\ t[c] = t[e]) => c = e
    PROVE  d \notin Chain(t, t[d])
<1>1. SUFFICES ASSUME d \in Chain(t, t[d])
               PROVE  FALSE
  OBVIOUS
<1> DEFINE Cycle == Chain(t, t[d])
           S == Chain(t, r) \ Cycle
<1>2. \A e \in Cycle : e \in Cluster /\ \E f \in Cycle : t[f] = e
  BY <1>1, ChainClosed, ChainPredecessor
<1>3. S \subseteq Cluster /\ r \in S
  BY <1>2, ChainClosed
<1>4. ASSUME NEW e \in S, t[e] \in Cluster
      PROVE  t[e] \in S
  <2>1. t[e] \in Chain(t, r) /\ e \in Cluster
    BY <1>4, ChainClosed DEF ClosedUnder
  <2>2. t[e] \notin Cycle
    BY <1>2, <1>4, <2>1
  <2> QED
    BY <2>1, <2>2
<1>5. ClosedUnder(t, S)
  BY <1>4 DEF ClosedUnder
<1>6. Chain(t, r) \subseteq S
  BY <1>3, <1>5, ChainLeast
<1> QED
  BY <1>1, <1>6

------------------------------------------------------------------------
(* The search.                                                             *)

\* The search returns a free entry, past the table only from a hint past the
\* table, and gives up only when every cluster is used.
LEMMA FindFreeResult ==
    ASSUME NEW t, NEW hint \in CLUSTER_FIRST .. PastEnd
    PROVE  \/ /\ FindFree(t, hint) = CLUSTER_FREE
              /\ \A c \in Cluster : t[c] # CLUSTER_FREE
           \/ /\ FindFree(t, hint) \in CLUSTER_FIRST .. PastEnd
              /\ t[FindFree(t, hint)] = CLUSTER_FREE
              /\ FindFree(t, hint) = PastEnd => hint = PastEnd
<1> DEFINE ahead == FreeFrom(t, hint)
           behind == FreeFrom(t, CLUSTER_FIRST)
<1>1. SearchStart(hint) = hint
  BY ConstantOrder DEF SearchStart
<1>2. LastCluster \in Nat /\ LastCluster >= 2
  BY ConstantOrder
<1>3. ahead \in SUBSET Nat /\ behind \in SUBSET Nat
  BY <1>2 DEF FreeFrom, CLUSTER_FIRST, PastEnd
<1>4. CASE ahead # {}
  <2>1. FindFree(t, hint) = Min(ahead)
    BY <1>1, <1>4 DEF FindFree
  <2>2. Min(ahead) \in ahead
    BY <1>3, <1>4, MinIsMember
  <2> QED
    BY <2>1, <2>2, <1>2 DEF FreeFrom, CLUSTER_FIRST, PastEnd
<1>5. CASE ahead = {} /\ behind # {}
  <2>1. FindFree(t, hint) = Min(behind)
    BY <1>1, <1>5 DEF FindFree
  <2>2. Min(behind) \in behind
    BY <1>3, <1>5, MinIsMember
  <2> QED
    BY <2>1, <2>2, <1>2 DEF FreeFrom, CLUSTER_FIRST, PastEnd
<1>6. CASE ahead = {} /\ behind = {}
  <2>1. FindFree(t, hint) = CLUSTER_FREE
    BY <1>1, <1>6 DEF FindFree
  <2>2. \A c \in Cluster : t[c] # CLUSTER_FREE
    BY <1>6, <1>2 DEF FreeFrom, Cluster, CLUSTER_FIRST
  <2> QED
    BY <2>1, <2>2
<1> QED
  BY <1>4, <1>5, <1>6

\* What linkFreeCluster does: it changes nothing, it finds the volume full, or
\* it grants a free entry.
LEMMA LinkFreeClusterResult ==
    ASSUME NEW t, NEW hint \in CLUSTER_FIRST .. PastEnd, NEW c \in Entry
    PROVE  LET r == LinkFreeCluster(t, hint, c)
               n == FindFree(t, hint)
           IN  \/ /\ r.table = t /\ r.firstFree = hint
                  /\ r.ret = CLUSTER_FREE \/ (HasLink(t, c) /\ r.ret = t[c])
               \/ /\ r.table = t /\ r.firstFree = PastEnd /\ r.ret = CLUSTER_FREE
                  /\ \A d \in Cluster : t[d] # CLUSTER_FREE
               \/ /\ c <= LastCluster /\ ~HasLink(t, c)
                  /\ n \in CLUSTER_FIRST .. PastEnd /\ t[n] = CLUSTER_FREE
                  /\ n = PastEnd => hint = PastEnd
                  /\ r.table = MarkEnd(LinkTo(t, c, n), n)
                  /\ r.firstFree = n /\ r.ret = n
<1> DEFINE n == FindFree(t, hint)
           r == LinkFreeCluster(t, hint, c)
<1>1. CASE c > LastCluster
  BY <1>1 DEF LinkFreeCluster
<1>2. CASE ~(c > LastCluster) /\ HasLink(t, c)
  BY <1>2 DEF LinkFreeCluster
<1>3. CASE ~(c > LastCluster) /\ ~HasLink(t, c) /\ n = CLUSTER_FREE
  <2>1. \A d \in Cluster : t[d] # CLUSTER_FREE
    BY <1>3, FindFreeResult, ConstantOrder
  <2> QED
    BY <1>3, <2>1 DEF LinkFreeCluster
<1>4. CASE ~(c > LastCluster) /\ ~HasLink(t, c) /\ n # CLUSTER_FREE
  <2>1. n \in CLUSTER_FIRST .. PastEnd /\ t[n] = CLUSTER_FREE
        /\ (n = PastEnd => hint = PastEnd)
    BY <1>4, FindFreeResult
  <2>2. c <= LastCluster
    BY <1>4, ConstantOrder DEF Entry
  <2>3. /\ r.table = MarkEnd(LinkTo(t, c, n), n)
        /\ r.firstFree = n /\ r.ret = n
    BY <1>4 DEF LinkFreeCluster
  <2> QED
    BY <1>4, <2>1, <2>2, <2>3
<1> QED
  BY <1>1, <1>2, <1>3, <1>4

------------------------------------------------------------------------
(* The inductive invariant.                                                *)

\* The invariant holds of the table that format writes.
LEMMA InitInvariant == Init => IInv
<1> SUFFICES ASSUME Init PROVE IInv
  OBVIOUS
<1> USE ConstantOrder DEF Init, InitialTable, Entry, Roots, Cluster
<1>1. TypeOK
  BY DEF TypeOK, Value
<1>2. FixedEntries
  BY DEF FixedEntries
<1>3. \A c \in Cluster : table[c] = CLUSTER_FREE
  OBVIOUS
<1>4. NoCrossLink /\ NoDanglingLink /\ NothingLeaks
  BY <1>3 DEF NoCrossLink, NoDanglingLink, NothingLeaks
<1>5. RootsAreHeads /\ HeadsAreNotOrphans /\ PastEndOnlyWhenFull
  BY DEF RootsAreHeads, HeadsAreNotOrphans, PastEndOnlyWhenFull
<1> QED
  BY <1>1, <1>2, <1>4, <1>5 DEF IInv

\* A cluster some chain holds is marked used.
LEMMA HeldIsAllocated ==
    ASSUME IInv, NEW c \in Held \cap Cluster
    PROVE  /\ table[c] # CLUSTER_FREE
           /\ \E r \in Roots \cap Cluster : c \in Chain(table, r)
<1>1. PICK r \in Roots : c \in Chain(table, r)
  BY ConstantOrder DEF Held, Cluster
<1>2. r \in Cluster
  BY <1>1, ChainOfNoCluster
<1>3. table[c] # CLUSTER_FREE
  BY <1>1, <1>2, ChainAllocated DEF IInv, RootsAreHeads, NoDanglingLink
<1> QED
  BY <1>1, <1>2, <1>3

\* The table after a cluster has been granted, entry by entry.
LEMMA GrantedTable ==
    ASSUME NEW t \in [Entry -> Value], NEW c \in Entry,
           NEW n \in CLUSTER_FIRST .. PastEnd, c # n
    PROVE  LET u == MarkEnd(LinkTo(t, c, n), n)
           IN  /\ u \in [Entry -> Value]
               /\ \A e \in Entry : u[e] =
                    IF e = n /\ n \in Cluster THEN CLUSTER_EOF
                    ELSE IF e = c /\ c \in CLUSTER_FIRST .. LastCluster - 1 THEN n
                    ELSE t[e]
<1> DEFINE l == LinkTo(t, c, n)
<1>1. /\ l \in [Entry -> Value]
      /\ \A e \in Entry : l[e] =
            IF e = c /\ c \in CLUSTER_FIRST .. LastCluster - 1 THEN n ELSE t[e]
  BY ConstantOrder DEF LinkTo, WriteFatEntry, Cluster, Entry, Value
<1> HIDE DEF l
<1>2. /\ MarkEnd(l, n) \in [Entry -> Value]
      /\ \A e \in Entry : MarkEnd(l, n)[e] =
            IF e = n /\ n \in Cluster THEN CLUSTER_EOF ELSE l[e]
  BY <1>1, ConstantOrder DEF MarkEnd, WriteFatEntry, Cluster, Entry, Value
<1> QED
  BY <1>1, <1>2 DEF l

\* What granting a free entry n to the holder of c does to the table: entry by
\* entry, and in that nothing marked used becomes free and no link changes.
LEMMA GrantFacts ==
    ASSUME IInv, NEW c \in Held, c <= LastCluster, c \in Entry, ~HasLink(table, c),
           NEW n \in CLUSTER_FIRST .. PastEnd, table[n] = CLUSTER_FREE,
           table' = MarkEnd(LinkTo(table, c, n), n)
    PROVE  /\ n \in Entry /\ c # n /\ (n \in Cluster \/ n = PastEnd)
           /\ c \in CLUSTER_FIRST .. LastCluster - 1 =>
                c \in Cluster /\ table[c] # CLUSTER_FREE /\ table[c] \notin Cluster
           /\ \A d \in Cluster : table[d] # n \/ n \notin Cluster
           /\ table' \in [Entry -> Value]
           /\ \A e \in Entry : table'[e] =
                IF e = n /\ n \in Cluster THEN CLUSTER_EOF
                ELSE IF e = c /\ c \in CLUSTER_FIRST .. LastCluster - 1 THEN n
                ELSE table[e]
           /\ \A e \in Entry : table[e] # CLUSTER_FREE => table'[e] # CLUSTER_FREE
           /\ \A d \in Cluster : table[d] \in Cluster => table'[d] = table[d]
<1> DEFINE linkable == c \in CLUSTER_FIRST .. LastCluster - 1
<1> USE ConstantOrder
<1>1. TypeOK /\ table \in [Entry -> Value]
  BY DEF IInv, TypeOK
<1>2. n \in Entry /\ c # n /\ (c \in Cluster => table[c] # CLUSTER_FREE)
  BY HeldIsAllocated DEF Entry, Cluster
<1>3. /\ table' \in [Entry -> Value]
      /\ \A e \in Entry : table'[e] =
            IF e = n /\ n \in Cluster THEN CLUSTER_EOF
            ELSE IF e = c /\ linkable THEN n
            ELSE table[e]
  BY <1>1, <1>2, GrantedTable
<1> Cluster \subseteq Entry
  BY DEF Cluster, Entry
<1>4. linkable => c \in Cluster /\ table[c] \notin Cluster
  BY DEF Cluster, HasLink
<1>5. n \in Cluster \/ n = PastEnd
  BY DEF Cluster
<1>6. \A d \in Cluster : table[d] # n \/ n \notin Cluster
  BY <1>1 DEF IInv, NoDanglingLink
<1>7. \A e \in Entry : table[e] # CLUSTER_FREE => table'[e] # CLUSTER_FREE
  BY <1>3
<1>8. \A d \in Cluster : table[d] \in Cluster => table'[d] = table[d]
  <2> SUFFICES ASSUME NEW d \in Cluster, table[d] \in Cluster
               PROVE  table'[d] = table[d]
    OBVIOUS
  <2>1. d # n
    BY DEF Cluster
  <2>2. d # c \/ ~linkable
    BY <1>4
  <2> QED
    BY <2>1, <2>2, <1>3
<1> QED
  BY <1>2, <1>3, <1>4, <1>5, <1>6, <1>7, <1>8

\* Granting a free entry n to the holder of c keeps the invariant, whether n
\* is recorded as a start cluster, linked to c, or left unlinked.
LEMMA GrantKeepsInvariant ==
    ASSUME IInv, NEW c \in Held, c <= LastCluster, c \in Entry, ~HasLink(table, c),
           NEW n \in CLUSTER_FIRST .. PastEnd, table[n] = CLUSTER_FREE,
           n = PastEnd => firstFree = PastEnd,
           table' = MarkEnd(LinkTo(table, c, n), n),
           firstFree' = n,
           \/ c = CLUSTER_FREE /\ heads' = heads \cup {n} /\ orphans' = orphans
           \/ /\ heads' = heads
              /\ orphans' = orphans \cup {x \in {n} \ {CLUSTER_FREE} : table'[c] # x}
    PROVE  IInv'
<1> DEFINE linkable == c \in CLUSTER_FIRST .. LastCluster - 1
<1> USE ConstantOrder
<1> Cluster \subseteq Entry /\ PastEnd \in Entry /\ 0 \in Entry /\ 1 \in Entry
  BY DEF Cluster, Entry
<1>1. TypeOK /\ FixedEntries
  BY DEF IInv
<1>2. n \in Entry /\ c # n /\ (n \in Cluster \/ n = PastEnd)
  BY GrantFacts
<1>3. /\ table' \in [Entry -> Value]
      /\ \A e \in Entry : table'[e] =
            IF e = n /\ n \in Cluster THEN CLUSTER_EOF
            ELSE IF e = c /\ linkable THEN n
            ELSE table[e]
  BY GrantFacts
<1>4. linkable => c \in Cluster /\ table[c] # CLUSTER_FREE /\ table[c] \notin Cluster
  BY GrantFacts
<1>5. \A d \in Cluster : table[d] # n \/ n \notin Cluster
  BY GrantFacts
<1>6. /\ \A e \in Entry : table[e] # CLUSTER_FREE => table'[e] # CLUSTER_FREE
      /\ \A d \in Cluster : table[d] \in Cluster => table'[d] = table[d]
  BY GrantFacts
\* The start clusters and abandoned extensions after the step.
<1>7. Roots' \cap Cluster = (Roots \cap Cluster)
                              \cup {x \in {n} \cap Cluster : ~linkable}
  <2>1. CASE c = CLUSTER_FREE /\ heads' = heads \cup {n} /\ orphans' = orphans
    BY <2>1 DEF Roots
  <2>2. CASE /\ heads' = heads
             /\ orphans' = orphans \cup {x \in {n} \ {CLUSTER_FREE} : table'[c] # x}
    <3>1. CASE n \in Cluster
      <4>1. linkable => table'[c] = n
        BY <1>2, <1>3, <1>4
      <4>2. ~linkable => table'[c] # n
        BY <1>1, <1>2, <1>3, <1>4, <3>1 DEF HasLink, Cluster
      <4> QED
        BY <4>1, <4>2, <2>2, <3>1 DEF Roots, Cluster
    <3>2. CASE n \notin Cluster
      BY <2>2, <3>2 DEF Roots
    <3> QED
      BY <3>1, <3>2
  <2> QED
    BY <2>1, <2>2
<1>8. TypeOK'
  BY <1>1, <1>3 DEF TypeOK
<1>9. FixedEntries'
  BY <1>1, <1>3, <1>4 DEF FixedEntries, Cluster
<1>10. NoCrossLink'
  <2> SUFFICES ASSUME NEW a \in Cluster, NEW b \in Cluster,
                      table'[a] \in Cluster, table'[a] = table'[b]
               PROVE  a = b
    BY DEF NoCrossLink
  <2>1. a # n /\ b # n
    BY <1>3
  <2>2. CASE table'[a] = n
    BY <2>1, <2>2, <1>3, <1>5
  <2>3. CASE table'[a] # n
    BY <2>1, <2>3, <1>3 DEF IInv, NoCrossLink
  <2> QED
    BY <2>2, <2>3
<1>11. NoDanglingLink'
  <2> SUFFICES ASSUME NEW a \in Cluster, table'[a] \in Cluster
               PROVE  table'[table'[a]] # CLUSTER_FREE
    BY DEF NoDanglingLink
  <2>1. CASE table'[a] = n
    BY <2>1, <1>3
  <2>2. CASE table'[a] # n
    <3>1. table'[a] = table[a]
      BY <2>2, <1>3
    <3>2. table[table[a]] # CLUSTER_FREE
      BY <3>1 DEF IInv, NoDanglingLink
    <3> QED
      BY <3>1, <3>2, <1>6
  <2> QED
    BY <2>1, <2>2
<1>12. RootsAreHeads'
  <2> SUFFICES ASSUME NEW r \in Roots' \cap Cluster
               PROVE  /\ table'[r] # CLUSTER_FREE
                      /\ \A d \in Cluster : table'[d] # r
    BY DEF RootsAreHeads
  <2>1. CASE r \in Roots
    <3>1. table[r] # CLUSTER_FREE /\ \A d \in Cluster : table[d] # r
      BY <2>1 DEF IInv, RootsAreHeads
    <3>2. r # n
      BY <3>1
    <3>3. \A d \in Cluster : table'[d] # r
      BY <3>1, <3>2, <1>3
    <3>4. table'[r] # CLUSTER_FREE
      BY <3>1, <1>6
    <3> QED
      BY <3>3, <3>4
  <2>2. CASE r = n /\ ~linkable
    BY <2>2, <1>3, <1>5
  <2> QED
    BY <1>7, <2>1, <2>2
<1>13. HeadsAreNotOrphans'
  <2>1. n \in Cluster => n \notin Roots
    BY DEF IInv, RootsAreHeads
  <2> QED
    BY <2>1, <1>2 DEF IInv, HeadsAreNotOrphans, Roots
<1>14. NothingLeaks'
  <2>1. \A r : Chain(table, r) \subseteq Chain(table', r)
    BY <1>6, ChainGrows, ChainClosed
  <2> SUFFICES ASSUME NEW d \in Cluster, table'[d] # CLUSTER_FREE
               PROVE  \E r \in Roots' : d \in Chain(table', r)
    BY DEF NothingLeaks
  <2>2. Roots \subseteq Roots'
    BY DEF Roots
  <2>3. CASE table[d] # CLUSTER_FREE
    BY <2>1, <2>2, <2>3 DEF IInv, NothingLeaks
  <2>4. CASE table[d] = CLUSTER_FREE
    <3>1. d = n
      BY <2>4, <1>2, <1>3, <1>4
    <3>2. CASE linkable
      <4>1. PICK r \in Roots : c \in Chain(table, r)
        BY <3>2, <1>4, HeldIsAllocated
      <4>2. c \in Chain(table', r) /\ table'[c] = n
        BY <4>1, <2>1, <3>2, <1>2, <1>3, <1>4
      <4> QED
        BY <4>2, <3>1, <2>2, ChainClosed DEF ClosedUnder
    <3>3. CASE ~linkable
      BY <3>1, <3>3, <1>7, ChainClosed
    <3> QED
      BY <3>2, <3>3
  <2> QED
    BY <2>3, <2>4
<1>15. PastEndOnlyWhenFull'
  <2> SUFFICES ASSUME firstFree' = PastEnd, NEW d \in Cluster
               PROVE  table'[d] # CLUSTER_FREE
    BY DEF PastEndOnlyWhenFull
  <2>1. table[d] # CLUSTER_FREE
    BY DEF IInv, PastEndOnlyWhenFull
  <2> QED
    BY <2>1, <1>3
<1> QED
  BY <1>8, <1>9, <1>10, <1>11, <1>12, <1>13, <1>14, <1>15 DEF IInv

\* Erasing the chain of one start cluster leaves the chain of every other as
\* it was.
LEMMA ReleaseKeepsOthers ==
    ASSUME IInv, NEW h \in heads, NEW r \in Roots, r # h \/ r \notin Cluster
    PROVE  /\ Chain(ClearLinks(table, h), r) = Chain(table, r)
           /\ Chain(table, r) \cap Chain(table, h) = {}
<1>1. Chain(table, r) \cap Chain(table, h) = {}
  <2>1. CASE r \in Cluster /\ h \in Cluster
    BY <2>1, UnlinkedChainsDisjoint DEF IInv, RootsAreHeads, NoCrossLink, Roots
  <2>2. CASE r \notin Cluster \/ h \notin Cluster
    BY <2>2, ChainOfNoCluster
  <2> QED
    BY <2>1, <2>2
<1>2. \A d \in Chain(table, r) : ClearLinks(table, h)[d] = table[d]
  BY <1>1, ChainClosed, ConstantOrder DEF ClearLinks, Cluster, Entry
<1> QED
  BY <1>1, <1>2, ChainAgree

\* Freeing the chain of a start cluster keeps the invariant when no entry with
\* that cluster stays behind.
LEMMA FreeingKeepsInvariant ==
    ASSUME IInv, NEW h \in heads,
           table' = ClearLinks(table, h), firstFree' = LoweredHint(firstFree, h),
           heads' \subseteq CLUSTER_FIRST .. PastEnd,
           heads' \cap Cluster = (heads \cap Cluster) \ {h},
           orphans' = orphans
    PROVE  IInv'
<1> USE ConstantOrder
<1>1. /\ TypeOK /\ FixedEntries /\ NoCrossLink /\ NoDanglingLink /\ RootsAreHeads
      /\ HeadsAreNotOrphans /\ NothingLeaks /\ PastEndOnlyWhenFull
  BY DEF IInv
<1>2. h \in Entry
  BY <1>1 DEF TypeOK, Entry
<1> Cluster \subseteq Entry /\ PastEnd \in Entry /\ 0 \in Entry /\ 1 \in Entry
  BY DEF Cluster, Entry
<1> Chain(table, h) \subseteq Cluster /\ (h \in Cluster => h \in Chain(table, h))
  BY ChainClosed
<1>3. /\ table' = ClearLinks(table, h)
      /\ \A e \in Entry :
            table'[e] = IF e \in Chain(table, h) THEN CLUSTER_FREE ELSE table[e]
  BY DEF ClearLinks
<1>4. Roots' \cap Cluster = (Roots \cap Cluster) \ {h}
  BY <1>1 DEF Roots, HeadsAreNotOrphans
<1>5. \A r \in Roots' \cap Cluster :
          /\ r \in Roots /\ r \notin Chain(table, h)
          /\ Chain(table', r) = Chain(table, r)
  <2> SUFFICES ASSUME NEW r \in Roots' \cap Cluster
               PROVE  /\ r \in Roots /\ r \notin Chain(table, h)
                      /\ Chain(table', r) = Chain(table, r)
    OBVIOUS
  <2>1. r \in Roots /\ r # h
    BY <1>4
  <2> QED
    BY <2>1, <1>3, ReleaseKeepsOthers, ChainClosed
<1>6. TypeOK'
  <2>1. table' \in [Entry -> Value]
    BY <1>1 DEF ClearLinks, TypeOK, Value, Entry
  <2>2. firstFree' \in CLUSTER_FIRST .. PastEnd
    BY <1>1 DEF LoweredHint, TypeOK, Cluster
  <2> QED
    BY <2>1, <2>2, <1>1 DEF TypeOK
<1>7. FixedEntries'
  BY <1>1, <1>3 DEF FixedEntries, Cluster
<1>8. NoCrossLink'
  BY <1>1, <1>3 DEF NoCrossLink, Cluster
<1>9. NoDanglingLink'
  <2> SUFFICES ASSUME NEW c \in Cluster, table'[c] \in Cluster
               PROVE  table'[table'[c]] # CLUSTER_FREE
    BY DEF NoDanglingLink
  <2>1. c \notin Chain(table, h) /\ table'[c] = table[c] /\ table[c] \in Cluster
    BY <1>3 DEF Cluster
  <2>2. table[table[c]] # CLUSTER_FREE
    BY <1>1, <2>1 DEF NoDanglingLink
  <2>3. table[c] \notin Chain(table, h)
    <3> SUFFICES ASSUME table[c] \in Chain(table, h) PROVE FALSE
      OBVIOUS
    <3>1. h \in Cluster => table[c] # h
      BY <1>1 DEF RootsAreHeads, Roots
    <3>2. table[c] # h
      BY <3>1, <2>1
    <3>3. PICK e \in Chain(table, h) : table[e] = table[c]
      BY <3>2, ChainPredecessor
    <3> QED
      BY <3>3, <2>1, <1>1 DEF NoCrossLink
  <2> QED
    BY <2>1, <2>2, <2>3, <1>3
<1>10. RootsAreHeads'
  <2> SUFFICES ASSUME NEW r \in Roots' \cap Cluster
               PROVE  /\ table'[r] # CLUSTER_FREE
                      /\ \A d \in Cluster : table'[d] # r
    BY DEF RootsAreHeads
  <2>1. table[r] # CLUSTER_FREE /\ \A d \in Cluster : table[d] # r
    BY <1>1, <1>5 DEF RootsAreHeads
  <2> QED
    BY <2>1, <1>3, <1>5 DEF Cluster
<1>11. HeadsAreNotOrphans'
  BY <1>1 DEF HeadsAreNotOrphans
<1>12. NothingLeaks'
  <2> SUFFICES ASSUME NEW d \in Cluster, table'[d] # CLUSTER_FREE
               PROVE  \E r \in Roots' : d \in Chain(table', r)
    BY DEF NothingLeaks
  <2>1. d \notin Chain(table, h) /\ table[d] # CLUSTER_FREE
    BY <1>3
  <2>2. PICK r \in Roots : d \in Chain(table, r)
    BY <2>1, <1>1 DEF NothingLeaks
  <2>3. r # h /\ r \in Cluster
    BY <2>1, <2>2, ChainOfNoCluster
  <2>4. r \in Roots'
    BY <2>2, <2>3, <1>4
  <2> QED
    BY <2>2, <2>3, <2>4, <1>3, ReleaseKeepsOthers
<1>13. PastEndOnlyWhenFull'
  <2> SUFFICES ASSUME firstFree' = PastEnd, NEW d \in Cluster
               PROVE  table'[d] # CLUSTER_FREE
    BY DEF PastEndOnlyWhenFull
  <2>1. firstFree = PastEnd /\ h \notin Cluster
    BY <1>1 DEF LoweredHint, TypeOK, Cluster
  <2>2. d \notin Chain(table, h)
    BY <2>1, ChainOfNoCluster
  <2> QED
    BY <2>1, <2>2, <1>1, <1>3 DEF PastEndOnlyWhenFull
<1> QED
  BY <1>6, <1>7, <1>8, <1>9, <1>10, <1>11, <1>12, <1>13 DEF IInv

\* Deleting a file keeps the invariant.
LEMMA ReleaseKeepsInvariant ==
    ASSUME IInv, NEW h \in Entry, Release(h)
    PROVE  IInv'
<1>1. h \in heads /\ heads' = heads \ {h} /\ heads' \subseteq CLUSTER_FIRST .. PastEnd
  BY DEF Release, IInv, TypeOK
<1> QED
  BY <1>1, FreeingKeepsInvariant DEF Release

\* A call that grants nothing changes at most the hint, and moves it past the
\* table only when the volume is full.
LEMMA HintKeepsInvariant ==
    ASSUME IInv, UNCHANGED <<table, heads, orphans>>,
           firstFree' \in CLUSTER_FIRST .. PastEnd,
           firstFree' = PastEnd => PastEndOnlyWhenFull'
    PROVE  IInv'
<1>1. TypeOK'
  BY DEF IInv, TypeOK
<1>2. PastEndOnlyWhenFull'
  BY DEF PastEndOnlyWhenFull
<1>3. (FixedEntries /\ NoCrossLink /\ NoDanglingLink /\ HeadsAreNotOrphans)'
  BY DEF IInv, FixedEntries, NoCrossLink, NoDanglingLink, HeadsAreNotOrphans
<1>4. (RootsAreHeads /\ NothingLeaks)'
  BY DEF IInv, RootsAreHeads, NothingLeaks, Roots
<1> QED
  BY <1>1, <1>2, <1>3, <1>4 DEF IInv

\* What a call that asks for a cluster does to the four variables.
LEMMA AllocHeadCases ==
    ASSUME IInv, AllocHead
    PROVE  \/ /\ UNCHANGED <<table, heads, orphans>>
              /\ firstFree' = firstFree \/ PastEndOnlyWhenFull'
              /\ firstFree' \in CLUSTER_FIRST .. PastEnd
           \/ \E n \in CLUSTER_FIRST .. PastEnd :
                /\ table[n] = CLUSTER_FREE
                /\ n = PastEnd => firstFree = PastEnd
                /\ table' = MarkEnd(LinkTo(table, CLUSTER_FREE, n), n)
                /\ firstFree' = n
                /\ heads' = heads \cup {n} /\ orphans' = orphans
<1> DEFINE r == LinkFreeCluster(table, firstFree, CLUSTER_FREE)
           n == FindFree(table, firstFree)
<1>1. firstFree \in CLUSTER_FIRST .. PastEnd /\ CLUSTER_FREE \in Entry
      /\ ~HasLink(table, CLUSTER_FREE) /\ PastEnd \in CLUSTER_FIRST .. PastEnd
  BY ConstantOrder DEF IInv, TypeOK, Entry, HasLink, FixedEntries
<1>2. /\ table' = r.table /\ firstFree' = r.firstFree /\ orphans' = orphans
      /\ heads' = heads \cup ({r.ret} \ {CLUSTER_FREE})
  BY DEF AllocHead
<1>3. \/ /\ r.table = table /\ r.firstFree = firstFree
         /\ r.ret = CLUSTER_FREE
      \/ /\ r.table = table /\ r.firstFree = PastEnd /\ r.ret = CLUSTER_FREE
         /\ \A d \in Cluster : table[d] # CLUSTER_FREE
      \/ /\ n \in CLUSTER_FIRST .. PastEnd /\ table[n] = CLUSTER_FREE
         /\ n = PastEnd => firstFree = PastEnd
         /\ r.table = MarkEnd(LinkTo(table, CLUSTER_FREE, n), n)
         /\ r.firstFree = n /\ r.ret = n
  BY <1>1, LinkFreeClusterResult
<1> HIDE DEF r, n
<1>4. CASE r.table = table /\ r.firstFree = firstFree /\ r.ret = CLUSTER_FREE
  BY <1>1, <1>2, <1>4
<1>5. CASE /\ r.table = table /\ r.firstFree = PastEnd /\ r.ret = CLUSTER_FREE
           /\ \A d \in Cluster : table[d] # CLUSTER_FREE
  BY <1>1, <1>2, <1>5 DEF PastEndOnlyWhenFull
<1>6. CASE /\ n \in CLUSTER_FIRST .. PastEnd /\ table[n] = CLUSTER_FREE
           /\ n = PastEnd => firstFree = PastEnd
           /\ r.table = MarkEnd(LinkTo(table, CLUSTER_FREE, n), n)
           /\ r.firstFree = n /\ r.ret = n
  <2>1. n # CLUSTER_FREE
    BY <1>6, ConstantOrder
  <2> QED
    BY <2>1, <1>2, <1>6
<1> QED
  BY <1>3, <1>4, <1>5, <1>6

\* The same for the call that asks for the cluster after c: what is granted is
\* linked to c, or is recorded as an orphan.
LEMMA ExtendCases ==
    ASSUME IInv, NEW c \in Entry, Extend(c)
    PROVE  \/ /\ UNCHANGED <<table, heads, orphans>>
              /\ firstFree' = firstFree \/ PastEndOnlyWhenFull'
              /\ firstFree' \in CLUSTER_FIRST .. PastEnd
           \/ \E n \in CLUSTER_FIRST .. PastEnd :
                /\ c <= LastCluster /\ ~HasLink(table, c)
                /\ table[n] = CLUSTER_FREE
                /\ n = PastEnd => firstFree = PastEnd
                /\ table' = MarkEnd(LinkTo(table, c, n), n)
                /\ firstFree' = n
                /\ heads' = heads
                /\ orphans' = orphans \cup
                                {x \in {n} \ {CLUSTER_FREE} : table'[c] # x}
<1> DEFINE r == LinkFreeCluster(table, firstFree, c)
           n == FindFree(table, firstFree)
<1>1. firstFree \in CLUSTER_FIRST .. PastEnd /\ PastEnd \in CLUSTER_FIRST .. PastEnd
  BY ConstantOrder DEF IInv, TypeOK
<1>2. /\ table' = r.table /\ firstFree' = r.firstFree /\ heads' = heads
      /\ orphans' = orphans \cup
                      {x \in {r.ret} \ {CLUSTER_FREE} : r.table[c] # x}
  BY DEF Extend
<1>3. \/ /\ r.table = table /\ r.firstFree = firstFree
         /\ r.ret = CLUSTER_FREE \/ (HasLink(table, c) /\ r.ret = table[c])
      \/ /\ r.table = table /\ r.firstFree = PastEnd /\ r.ret = CLUSTER_FREE
         /\ \A d \in Cluster : table[d] # CLUSTER_FREE
      \/ /\ c <= LastCluster /\ ~HasLink(table, c)
         /\ n \in CLUSTER_FIRST .. PastEnd /\ table[n] = CLUSTER_FREE
         /\ n = PastEnd => firstFree = PastEnd
         /\ r.table = MarkEnd(LinkTo(table, c, n), n)
         /\ r.firstFree = n /\ r.ret = n
  BY <1>1, LinkFreeClusterResult
<1> HIDE DEF r, n
<1>4. CASE /\ r.table = table /\ r.firstFree = firstFree
           /\ r.ret = CLUSTER_FREE \/ (HasLink(table, c) /\ r.ret = table[c])
  BY <1>1, <1>2, <1>4
<1>5. CASE /\ r.table = table /\ r.firstFree = PastEnd /\ r.ret = CLUSTER_FREE
           /\ \A d \in Cluster : table[d] # CLUSTER_FREE
  BY <1>1, <1>2, <1>5 DEF PastEndOnlyWhenFull
<1>6. CASE /\ c <= LastCluster /\ ~HasLink(table, c)
           /\ n \in CLUSTER_FIRST .. PastEnd /\ table[n] = CLUSTER_FREE
           /\ n = PastEnd => firstFree = PastEnd
           /\ r.table = MarkEnd(LinkTo(table, c, n), n)
           /\ r.firstFree = n /\ r.ret = n
  BY <1>2, <1>6
<1> QED
  BY <1>3, <1>4, <1>5, <1>6

\* Every step keeps the invariant: one case for each call.
LEMMA NextInvariant == IInv /\ [Next]_vars => IInv'
<1> SUFFICES ASSUME IInv, [Next]_vars
             PROVE  IInv'
  OBVIOUS
<1>1. ASSUME UNCHANGED <<table, heads, orphans>>,
             firstFree' = firstFree \/ PastEndOnlyWhenFull',
             firstFree' \in CLUSTER_FIRST .. PastEnd
      PROVE  IInv'
  <2>1. firstFree' = firstFree => PastEndOnlyWhenFull'
    BY <1>1 DEF IInv, PastEndOnlyWhenFull
  <2> QED
    BY <1>1, <2>1, HintKeepsInvariant
<1>2. CASE AllocHead
  <2>1. CLUSTER_FREE \in Held /\ CLUSTER_FREE \in Entry
        /\ CLUSTER_FREE <= LastCluster /\ ~HasLink(table, CLUSTER_FREE)
    BY ConstantOrder DEF Held, Entry, IInv, FixedEntries, HasLink
  <2>2. CASE \E n \in CLUSTER_FIRST .. PastEnd :
                /\ table[n] = CLUSTER_FREE
                /\ n = PastEnd => firstFree = PastEnd
                /\ table' = MarkEnd(LinkTo(table, CLUSTER_FREE, n), n)
                /\ firstFree' = n
                /\ heads' = heads \cup {n} /\ orphans' = orphans
    BY <2>1, <2>2, GrantKeepsInvariant
  <2> QED
    BY <1>1, <1>2, <2>2, AllocHeadCases
<1>3. ASSUME NEW c \in Entry, Extend(c)
      PROVE  IInv'
  <2>1. c \in Held
    BY <1>3 DEF Extend
  <2>2. CASE \E n \in CLUSTER_FIRST .. PastEnd :
                /\ c <= LastCluster /\ ~HasLink(table, c)
                /\ table[n] = CLUSTER_FREE
                /\ n = PastEnd => firstFree = PastEnd
                /\ table' = MarkEnd(LinkTo(table, c, n), n)
                /\ firstFree' = n
                /\ heads' = heads
                /\ orphans' = orphans \cup
                                {x \in {n} \ {CLUSTER_FREE} : table'[c] # x}
    BY <2>1, <2>2, GrantKeepsInvariant
  <2> QED
    BY <1>1, <1>3, <2>2, ExtendCases
<1>4. ASSUME NEW h \in Entry, Release(h)
      PROVE  IInv'
  BY <1>4, ReleaseKeepsInvariant
<1>5. CASE Remount
  <2>1. firstFree' = CLUSTER_FIRST /\ UNCHANGED <<table, heads, orphans>>
    BY <1>5 DEF Remount
  <2>2. CLUSTER_FIRST \in CLUSTER_FIRST .. PastEnd /\ CLUSTER_FIRST # PastEnd
    BY ConstantOrder
  <2> QED
    BY <2>1, <2>2, HintKeepsInvariant
<1>6. CASE UNCHANGED vars
  BY <1>1, <1>6 DEF vars, IInv, TypeOK
<1> QED
  BY <1>2, <1>3, <1>4, <1>5, <1>6 DEF Next

\* No step takes a cluster out of the chain of a start cluster that remains.
LEMMA NextKeepsChains ==
    ASSUME IInv, [Next]_vars, NEW r \in Roots \cap Roots'
    PROVE  Chain(table, r) \subseteq Chain(table', r)
<1>1. CASE AllocHead
  <2>1. CLUSTER_FREE \in Held /\ CLUSTER_FREE \in Entry
        /\ CLUSTER_FREE <= LastCluster /\ ~HasLink(table, CLUSTER_FREE)
    BY ConstantOrder DEF Held, Entry, IInv, FixedEntries, HasLink
  <2>2. CASE \E n \in CLUSTER_FIRST .. PastEnd :
                /\ table[n] = CLUSTER_FREE
                /\ table' = MarkEnd(LinkTo(table, CLUSTER_FREE, n), n)
    <3>1. \A d \in Cluster : table[d] \in Cluster => table'[d] = table[d]
      BY <2>1, <2>2, GrantFacts
    <3> QED
      BY <3>1, ChainGrows, ChainClosed
  <2> QED
    BY <1>1, <2>2, AllocHeadCases
<1>2. ASSUME NEW c \in Entry, Extend(c)
      PROVE  Chain(table, r) \subseteq Chain(table', r)
  <2>1. c \in Held
    BY <1>2 DEF Extend
  <2>2. CASE \E n \in CLUSTER_FIRST .. PastEnd :
                /\ c <= LastCluster /\ ~HasLink(table, c)
                /\ table[n] = CLUSTER_FREE
                /\ table' = MarkEnd(LinkTo(table, c, n), n)
    <3>1. \A d \in Cluster : table[d] \in Cluster => table'[d] = table[d]
      BY <2>1, <2>2, GrantFacts
    <3> QED
      BY <3>1, ChainGrows, ChainClosed
  <2> QED
    BY <1>2, <2>2, ExtendCases
<1>3. ASSUME NEW h \in Entry, Release(h)
      PROVE  Chain(table, r) \subseteq Chain(table', r)
  <2>1. h \in heads /\ heads' = heads \ {h} /\ orphans' = orphans
        /\ table' = ClearLinks(table, h)
    BY <1>3 DEF Release
  <2>2. r # h \/ r \notin Cluster
    BY <2>1 DEF Roots, IInv, HeadsAreNotOrphans
  <2> QED
    BY <2>1, <2>2, ReleaseKeepsOthers
<1>4. CASE Remount \/ UNCHANGED vars
  BY <1>4 DEF Remount, vars
<1> QED
  BY <1>1, <1>2, <1>3, <1>4 DEF Next

------------------------------------------------------------------------
(* The theorems.                                                           *)

\* The inductive invariant holds in every reachable state, whatever the size
\* of the volume.
THEOREM Invariant == Spec => []IInv
BY InitInvariant, NextInvariant, PTL DEF Spec

\* The table, the hint and the recorded clusters keep to their ranges; the
\* hint is never more than one past the table.
THEOREM TypeCorrect == Spec => []TypeOK
<1>1. IInv => TypeOK
  BY DEF IInv
<1> QED
  BY <1>1, Invariant, PTL

\* No cluster is ever in two chains.
THEOREM ChainsAreApart == Spec => []ChainsDisjoint
<1>1. ASSUME IInv PROVE ChainsDisjoint
  <2> SUFFICES ASSUME NEW r1 \in Roots \cap Cluster, NEW r2 \in Roots \cap Cluster,
                      r1 # r2
               PROVE  Chain(table, r1) \cap Chain(table, r2) = {}
    BY DEF ChainsDisjoint
  <2> QED
    BY <1>1, UnlinkedChainsDisjoint DEF IInv, RootsAreHeads, NoCrossLink
<1> QED
  BY <1>1, Invariant, PTL

\* No chain has a cycle: the loops that follow links end.
THEOREM ChainsEnd == Spec => []NoCycle
<1>1. ASSUME IInv PROVE NoCycle
  <2> SUFFICES ASSUME NEW c \in Cluster, table[c] \in Cluster
               PROVE  c \notin Chain(table, table[c])
    BY DEF NoCycle
  <2>1. table[c] # CLUSTER_FREE
    BY ConstantOrder DEF Cluster
  <2>2. PICK r \in Roots : c \in Chain(table, r)
    BY <1>1, <2>1 DEF IInv, NothingLeaks
  <2>3. r \in Cluster
    <3> SUFFICES ASSUME r \notin Cluster PROVE FALSE
      OBVIOUS
    <3>1. ClosedUnder(table, {}) /\ {} \in SUBSET Cluster
      BY DEF ClosedUnder
    <3> QED
      BY <2>2, <3>1, ChainLeast
  <2> QED
    BY <1>1, <2>2, <2>3, ReachedIsNotOnCycle DEF IInv, RootsAreHeads, NoCrossLink
<1> QED
  BY <1>1, Invariant, PTL

\* Every cluster of a chain is marked used: the search never hands it out.
THEOREM ChainsAreUsed == Spec => []ChainsAllocated
<1>1. ASSUME IInv PROVE ChainsAllocated
  <2> SUFFICES ASSUME NEW r \in Roots \cap Cluster
               PROVE  \A c \in Chain(table, r) : table[c] # CLUSTER_FREE
    BY DEF ChainsAllocated
  <2> QED
    BY <1>1, ChainAllocated DEF IInv, RootsAreHeads, NoDanglingLink
<1> QED
  BY <1>1, Invariant, PTL

\* Deleting files leaves nothing marked used that no file and no abandoned
\* extension holds.
THEOREM SpaceIsAccountedFor == Spec => []NothingLeaks
<1>1. IInv => NothingLeaks
  BY DEF IInv
<1> QED
  BY <1>1, Invariant, PTL

\* The hint runs past the table only when the volume is full.
THEOREM HintStaysInside == Spec => []PastEndOnlyWhenFull
<1>1. IInv => PastEndOnlyWhenFull
  BY DEF IInv
<1> QED
  BY <1>1, Invariant, PTL

\* No call takes a cluster away from a file that is still there.
THEOREM NothingIsTakenAway == Spec => ChainsKept
<1>1. ASSUME IInv, [Next]_vars
      PROVE  [\A r \in Roots \cap Roots' :
                Chain(table, r) \subseteq Chain(table', r)]_vars
  BY <1>1, NextKeepsChains
<1> QED
  BY <1>1, Invariant, PTL DEF Spec, ChainsKept

------------------------------------------------------------------------
(* The table implements the ownership of clusters.                         *)

\* How a grant changes the chains: the chain of the holder grows by the new
\* cluster when it has been linked, and no other chain changes.
LEMMA GrantChains ==
    ASSUME IInv, NEW c \in Held, c <= LastCluster, c \in Entry, ~HasLink(table, c),
           NEW n \in CLUSTER_FIRST .. PastEnd, table[n] = CLUSTER_FREE,
           table' = MarkEnd(LinkTo(table, c, n), n),
           NEW r \in Roots \cap Cluster
    PROVE  /\ n \notin Chain(table, r)
           /\ Chain(table', r) =
                IF n \in Cluster /\ c \in CLUSTER_FIRST .. LastCluster - 1
                                 /\ c \in Chain(table, r)
                THEN Chain(table, r) \cup {n}
                ELSE Chain(table, r)
<1> DEFINE linkable == c \in CLUSTER_FIRST .. LastCluster - 1
           granted == n \in Cluster /\ linkable /\ c \in Chain(table, r)
<1> USE ConstantOrder
<1> Cluster \subseteq Entry /\ Chain(table, r) \subseteq Cluster
  BY ChainClosed DEF Cluster, Entry
<1>1. n \notin Chain(table, r)
  BY ChainAllocated DEF IInv, RootsAreHeads, NoDanglingLink
<1>2. \A e \in Entry : table'[e] =
          IF e = n /\ n \in Cluster THEN CLUSTER_EOF
          ELSE IF e = c /\ linkable THEN n
          ELSE table[e]
  BY GrantFacts
<1>3. /\ n \in Entry /\ (n \in Cluster \/ n = PastEnd) /\ PastEnd \notin Cluster
      /\ linkable => c \in Cluster /\ table[c] \notin Cluster
  BY GrantFacts DEF Cluster
<1>4. CASE granted
  <2> DEFINE S == Chain(table, r) \cup {n}
  <2>1. ASSUME NEW d \in S, table'[d] \in Cluster
        PROVE  table'[d] \in S
    <3>1. d # n
      BY <2>1, <1>2, <1>3, <1>4
    <3>2. CASE d = c
      BY <3>1, <3>2, <1>2, <1>3, <1>4
    <3>3. CASE d # c
      BY <3>1, <3>3, <2>1, <1>2, ChainClosed DEF ClosedUnder
    <3> QED
      BY <3>2, <3>3
  <2>2. ClosedUnder(table', S)
    BY <2>1 DEF ClosedUnder
  <2>3. S \subseteq Cluster /\ r \in S
    BY <1>4, ChainClosed
  <2>4. Chain(table', r) \subseteq S
    BY <2>2, <2>3, ChainLeast
  <2>5. \A d \in Cluster : table[d] \in Cluster => table'[d] = table[d]
    BY GrantFacts
  <2>6. Chain(table, r) \subseteq Chain(table', r)
    BY <2>5, ChainGrows
  <2>7. c \in Chain(table', r) /\ table'[c] = n
    BY <2>6, <1>2, <1>3, <1>4, <1>1
  <2>8. n \in Chain(table', r)
    BY <2>7, <1>4, ChainClosed DEF ClosedUnder
  <2> QED
    BY <2>4, <2>6, <2>8, <1>1, <1>4
<1>5. CASE ~granted
  <2>1. ASSUME NEW d \in Chain(table, r), table[d] \in Cluster \/ table'[d] \in Cluster
        PROVE  table'[d] = table[d]
    BY <2>1, <1>1, <1>2, <1>3, <1>5
  <2>2. Chain(table', r) = Chain(table, r)
    BY <2>1, ChainAgree
  <2> QED
    BY <2>2, <1>1, <1>5
<1> QED
  BY <1>4, <1>5

\* The ownership the table stands for.
Owns == [r \in Roots \cap Cluster |-> Chain(table, r)]

\* A grant is, in terms of ownership, a new owner, an owner grown by a cluster
\* nobody owned, or no change.
LEMMA GrantIsOwnershipStep ==
    ASSUME IInv, NEW c \in Held, c <= LastCluster, c \in Entry, ~HasLink(table, c),
           NEW n \in CLUSTER_FIRST .. PastEnd, table[n] = CLUSTER_FREE,
           table' = MarkEnd(LinkTo(table, c, n), n),
           Roots' \cap Cluster = (Roots \cap Cluster)
                \cup {x \in {n} \cap Cluster : c \notin CLUSTER_FIRST .. LastCluster - 1}
    PROVE  \/ Owns' = Owns
           \/ Ownership!Open(n) /\ n \in Cluster
           \/ \E o \in DOMAIN Owns : n \in Cluster /\ Ownership!Grow(o, n)
<1> DEFINE linkable == c \in CLUSTER_FIRST .. LastCluster - 1
<1> USE ConstantOrder
<1>1. \A r \in Roots \cap Cluster :
          /\ n \notin Chain(table, r)
          /\ Chain(table', r) = IF n \in Cluster /\ linkable /\ c \in Chain(table, r)
                                THEN Chain(table, r) \cup {n}
                                ELSE Chain(table, r)
  BY GrantChains
<1>2. n \notin UNION {Owns[o] : o \in DOMAIN Owns}
  BY <1>1 DEF Owns
<1>3. CASE n \notin Cluster
  <2>1. Roots' \cap Cluster = Roots \cap Cluster
    BY <1>3
  <2> QED
    BY <2>1, <1>1, <1>3 DEF Owns
<1>4. CASE n \in Cluster /\ ~linkable
  <2>1. table'[n] = CLUSTER_EOF
    BY <1>4, GrantFacts
  <2>2. Chain(table', n) = {n}
    <3>1. ClosedUnder(table', {n})
      BY <2>1 DEF ClosedUnder
    <3> QED
      BY <3>1, <1>4, ChainLeast, ChainClosed
  <2>3. Roots' \cap Cluster = (Roots \cap Cluster) \cup {n}
    BY <1>4
  <2>4. n \notin Roots
    BY <1>4 DEF IInv, RootsAreHeads
  <2>5. Owns' = [o \in (Roots \cap Cluster) \cup {n} |->
                    IF o = n THEN {n} ELSE Owns[o]]
    BY <2>2, <2>3, <2>4, <1>1, <1>4 DEF Owns
  <2> QED
    BY <2>5, <1>2, <1>4 DEF Owns, Ownership!Open, Ownership!Owned, Ownership!Owners
<1>5. CASE n \in Cluster /\ linkable
  <2>1. PICK o \in Roots \cap Cluster : c \in Chain(table, o)
    <3>1. c \in Cluster
      BY <1>5 DEF Cluster
    <3> QED
      BY <3>1, HeldIsAllocated
  <2>2. \A r \in Roots \cap Cluster : r # o => c \notin Chain(table, r)
    BY <2>1, UnlinkedChainsDisjoint DEF IInv, RootsAreHeads, NoCrossLink
  <2>3. Roots' \cap Cluster = Roots \cap Cluster
    BY <1>5
  <2>4. Owns' = [Owns EXCEPT ![o] = Owns[o] \cup {n}]
    BY <2>1, <2>2, <2>3, <1>1, <1>5 DEF Owns
  <2> QED
    BY <2>1, <2>4, <1>2, <1>5 DEF Owns, Ownership!Grow, Ownership!Owned, Ownership!Owners
<1> QED
  BY <1>3, <1>4, <1>5

\* Every step of the table is a step of the ownership or changes nothing in it.
LEMMA NextIsOwnershipStep ==
    ASSUME IInv, [Next]_vars
    PROVE  [Ownership!Next]_Owns
<1> USE ConstantOrder
<1>1. CASE AllocHead
  <2>1. /\ CLUSTER_FREE \in Held /\ CLUSTER_FREE \in Entry
        /\ CLUSTER_FREE <= LastCluster /\ ~HasLink(table, CLUSTER_FREE)
    BY DEF Held, Entry, IInv, FixedEntries, HasLink
  <2>2. CASE UNCHANGED <<table, heads, orphans>>
    BY <2>2 DEF Owns, Roots
  <2>3. ASSUME NEW n \in CLUSTER_FIRST .. PastEnd,
               table[n] = CLUSTER_FREE,
               table' = MarkEnd(LinkTo(table, CLUSTER_FREE, n), n),
               heads' = heads \cup {n}, orphans' = orphans
        PROVE  [Ownership!Next]_Owns
    <3>1. Roots' \cap Cluster = (Roots \cap Cluster)
            \cup {x \in {n} \cap Cluster :
                    CLUSTER_FREE \notin CLUSTER_FIRST .. LastCluster - 1}
      BY <2>3 DEF Roots
    <3> QED
      BY <2>1, <2>3, <3>1, GrantIsOwnershipStep
         DEF Ownership!Next, Ownership!Owners, Owns
  <2> QED
    BY <1>1, <2>2, <2>3, AllocHeadCases
<1>2. ASSUME NEW c \in Entry, Extend(c)
      PROVE  [Ownership!Next]_Owns
  <2>1. c \in Held
    BY <1>2 DEF Extend
  <2>2. CASE UNCHANGED <<table, heads, orphans>>
    BY <2>2 DEF Owns, Roots
  <2>3. ASSUME NEW n \in CLUSTER_FIRST .. PastEnd,
               c <= LastCluster, ~HasLink(table, c),
               table[n] = CLUSTER_FREE,
               table' = MarkEnd(LinkTo(table, c, n), n),
               heads' = heads,
               orphans' = orphans \cup {x \in {n} \ {CLUSTER_FREE} : table'[c] # x}
        PROVE  [Ownership!Next]_Owns
    <3>1. c # n /\ n \in Entry
          /\ \A e \in Entry : table'[e] =
                IF e = n /\ n \in Cluster THEN CLUSTER_EOF
                ELSE IF e = c /\ c \in CLUSTER_FIRST .. LastCluster - 1 THEN n
                ELSE table[e]
      BY <2>1, <2>3, GrantFacts
    <3>2. n \in Cluster =>
            (table'[c] # n <=> c \notin CLUSTER_FIRST .. LastCluster - 1)
      BY <2>3, <3>1 DEF HasLink
    <3>3. Roots' \cap Cluster = (Roots \cap Cluster)
            \cup {x \in {n} \cap Cluster :
                    c \notin CLUSTER_FIRST .. LastCluster - 1}
      BY <2>3, <3>2 DEF Roots, Cluster
    <3> QED
      BY <2>1, <2>3, <3>3, GrantIsOwnershipStep
         DEF Ownership!Next, Ownership!Owners, Owns
  <2> QED
    BY <1>2, <2>2, <2>3, ExtendCases
<1>3. ASSUME NEW h \in Entry, Release(h)
      PROVE  [Ownership!Next]_Owns
  <2>1. h \in heads /\ heads' = heads \ {h} /\ orphans' = orphans
        /\ table' = ClearLinks(table, h)
    BY <1>3 DEF Release
  <2>2. Roots' \cap Cluster = (Roots \cap Cluster) \ {h}
    BY <2>1 DEF Roots, IInv, HeadsAreNotOrphans
  <2>3. \A r \in Roots' \cap Cluster : Chain(table', r) = Chain(table, r)
    BY <2>1, <2>2, ReleaseKeepsOthers
  <2>4. CASE h \in Cluster
    <3>1. h \in DOMAIN Owns
      BY <2>1, <2>4 DEF Owns, Roots
    <3>2. Owns' = [p \in (DOMAIN Owns) \ {h} |-> Owns[p]]
      BY <2>2, <2>3 DEF Owns
    <3> QED
      BY <3>1, <3>2 DEF Ownership!Next, Ownership!Close, Ownership!Owners, Owns
  <2>5. CASE h \notin Cluster
    BY <2>2, <2>3, <2>5 DEF Owns
  <2> QED
    BY <2>4, <2>5
<1>4. CASE Remount \/ UNCHANGED vars
  BY <1>4 DEF Remount, vars, Owns, Roots
<1> QED
  BY <1>1, <1>2, <1>3, <1>4 DEF Next

\* For a volume of any size the table gives its callers the ownership of
\* clusters they rely on.
THEOREM TableImplementsOwnership == Spec => ImplementsOwnership
<1>1. Init => Ownership!Init
  BY DEF Init, Ownership!Init, Roots
<1>2. ASSUME IInv, [Next]_vars
      PROVE  [Ownership!Next]_Owns
  BY <1>2, NextIsOwnershipStep
<1> QED
  BY <1>1, <1>2, Invariant, PTL
     DEF Spec, ImplementsOwnership, Ownership!Spec, Owns
=============================================================================
