---------------------- MODULE FileAllocationTable ----------------------
(***************************************************************************)
(* The file allocation table of a mounted volume: src/src/fat/             *)
(* file_allocation_table.c as its callers use it.  An entry of the table   *)
(* is free, ends a chain, or names the next cluster of the chain.          *)
(*                                                                         *)
(* A call of the library runs to completion on its only thread, so one     *)
(* call is one step here; FatLoops takes the same calls loop iteration by  *)
(* loop iteration and refines this module.                                 *)
(***************************************************************************)
EXTENDS Integers, FiniteSetsExt

CONSTANT LastCluster    \* partition->fat.lastCluster

CLUSTER_FREE  == 0
CLUSTER_FIRST == 2
CLUSTER_EOF   == 268435455      \* 0x0FFFFFFF

\* The largest value nextCluster does not read back as CLUSTER_EOF is
\* 0x0FFFFFF6; the entry after the last one must not be above that.
MaxLastCluster == 268435445     \* 0x0FFFFFF5

ASSUME LastClusterAssumption ==
    LastCluster \in Nat /\ CLUSTER_FIRST <= LastCluster /\ LastCluster <= MaxLastCluster

Cluster == CLUSTER_FIRST .. LastCluster

\* mount rounds lastCluster down, so the entry after it exists in the table
\* that format writes (VolumeGeometry: with blocks of less than 3584 bytes);
\* writeFatEntry refuses it, nextCluster reads it.
PastEnd == LastCluster + 1
Entry   == 0 .. PastEnd
Value   == Entry \cup {CLUSTER_EOF}

VARIABLES
    table,      \* the table on the disc, as nextCluster reads it
    firstFree,  \* partition->fat.firstFree, where the next search starts
    heads,      \* start clusters recorded in directory entries
    orphans     \* clusters handed out that no chain and no entry leads to

vars == <<table, firstFree, heads, orphans>>

Roots == heads \cup orphans

------------------------------------------------------------------------
(* The table's operations, as functions of the table and the hint.         *)

\* The clusters of the chain that starts at c: the least set of clusters that
\* has c and the link of each of its members.
ClosedUnder(t, S) == \A d \in S : t[d] \in Cluster => t[d] \in S

Chain(t, c) ==
    {d \in Cluster : \A S \in SUBSET Cluster :
        (({c} \cap Cluster) \subseteq S /\ ClosedUnder(t, S)) => d \in S}

\* Entries 0 and 1 hold the media byte and an end mark, both read as end of
\* chain; every other entry is free.
InitialTable ==
    [e \in Entry |-> IF e < CLUSTER_FIRST THEN CLUSTER_EOF ELSE CLUSTER_FREE]

WriteFatEntry(t, c, v) ==
    IF c \in Cluster THEN [t EXCEPT ![c] = v] ELSE t

\* Mutant: the scan runs one entry too far.
FreeFromMut(t, first) == {e \in first .. PastEnd : t[e] = CLUSTER_FREE}

\* The search tests the entry it starts at, whatever it is, and then the ones
\* up to the last cluster; if none is free it starts again at the first.

FreeFrom(t, first) ==
    {e \in {first} \cup (first .. LastCluster) : t[e] = CLUSTER_FREE}

SearchStart(hint) == IF hint < CLUSTER_FIRST THEN CLUSTER_FIRST ELSE hint

FindFree(t, hint) ==
    LET ahead == FreeFrom(t, SearchStart(hint))
        behind == FreeFrom(t, CLUSTER_FIRST)
    IN  IF ahead # {} THEN Min(ahead)
        ELSE IF behind # {} THEN Min(behind)
        ELSE CLUSTER_FREE

\* Mutant: a link to the first cluster is taken for none.
HasLinkMut(t, c) == t[c] \in CLUSTER_FIRST + 1 .. LastCluster

HasLink(t, c) == t[c] \in Cluster

\* The link to the new cluster is not written for the last cluster, nor for
\* the numbers below the first one.
LinkTo(t, c, new) ==
    IF c >= CLUSTER_FIRST /\ c < LastCluster THEN WriteFatEntry(t, c, new) ELSE t

\* Mutant: the new cluster is never marked as the end of the chain.
MarkEndMut(t, new) == t

MarkEnd(t, new) == WriteFatEntry(t, new, CLUSTER_EOF)

LinkFreeCluster(t, hint, c) ==
    LET new == FindFree(t, hint)
    IN  IF c > LastCluster
        THEN [table |-> t, firstFree |-> hint, ret |-> CLUSTER_FREE]
        ELSE IF HasLink(t, c)
        THEN [table |-> t, firstFree |-> hint, ret |-> t[c]]
        ELSE IF new = CLUSTER_FREE
        THEN [table |-> t, firstFree |-> PastEnd, ret |-> CLUSTER_FREE]
        ELSE [table |-> MarkEnd(LinkTo(t, c, new), new),
              firstFree |-> new, ret |-> new]

\* Mutant: only the first entry of the chain is erased.
ClearLinksMut(t, c) == WriteFatEntry(t, c, CLUSTER_FREE)

\* Erases every entry of the chain; a number that is no cluster is refused.
ClearLinks(t, c) ==
    [e \in Entry |-> IF e \in Chain(t, c) THEN CLUSTER_FREE ELSE t[e]]

\* Mutants: the hint stays where it was; it is moved one too far.
HintStaysMut(hint, c) == hint
HintTooFarMut(hint, c) == IF c \in Cluster /\ c < hint THEN c - 1 ELSE hint

\* Freeing a chain that starts below the hint moves the hint back, but only
\* to the chain's head.
LoweredHint(hint, c) == IF c \in Cluster /\ c < hint THEN c ELSE hint

------------------------------------------------------------------------
(* The calls.                                                              *)

Init ==
    /\ table = InitialTable
    /\ firstFree = CLUSTER_FIRST
    /\ heads = {}
    /\ orphans = {}

\* FileCreate and FileMakeDir ask for a first cluster by passing CLUSTER_FREE
\* and record what they get as the entry's start cluster.
AllocHead ==
    LET r == LinkFreeCluster(table, firstFree, CLUSTER_FREE)
    IN  /\ table' = r.table
        /\ firstFree' = r.firstFree
        /\ heads' = heads \cup ({r.ret} \ {CLUSTER_FREE})
        /\ UNCHANGED orphans

\* A cluster some file or directory stands in: one of a chain, the entry past
\* the end when it has been handed out or linked to, 0 for a file created when
\* no cluster was left, 1 for the root directory of a volume formatted as FAT32.
Held ==
    LET own == UNION {Chain(table, r) : r \in Roots}
    IN  own \cup {n \in {PastEnd} : n \in Roots \/ \E c \in own : table[c] = n}
            \cup {0, 1}

\* FileWrite and the directory extension ask for the cluster after c; they
\* carry on in the cluster returned whether or not it has been linked.  With
\* CLUSTER_FREE for c this is also FileMakeDir when no entry can be added: its
\* cluster is left behind.
Extend(c) ==
    LET r == LinkFreeCluster(table, firstFree, c)
    IN  /\ c \in Held
        /\ table' = r.table
        /\ firstFree' = r.firstFree
        /\ orphans' = orphans \cup
                        {n \in {r.ret} \ {CLUSTER_FREE} : r.table[c] # n}
        /\ UNCHANGED heads

\* Mutant: the directory entry stays when its chain has been freed.
ReleaseMut(h) ==
    /\ h \in heads
    /\ table' = ClearLinks(table, h)
    /\ firstFree' = LoweredHint(firstFree, h)
    /\ UNCHANGED <<heads, orphans>>

\* file_delete_direntry frees the chain and drops the entry, even when
\* clearLinks refuses the start cluster.
Release(h) ==
    /\ h \in heads
    /\ table' = ClearLinks(table, h)
    /\ firstFree' = LoweredHint(firstFree, h)
    /\ heads' = heads \ {h}
    /\ UNCHANGED orphans

\* Mounting the volume again forgets the hint.
Remount ==
    /\ firstFree' = CLUSTER_FIRST
    /\ UNCHANGED <<table, heads, orphans>>

Next ==
    \/ AllocHead
    \/ \E c \in Entry : Extend(c)
    \/ \E h \in Entry : Release(h)
    \/ Remount

Spec == Init /\ [][Next]_vars

------------------------------------------------------------------------
(* Properties.                                                             *)

\* The values the variables range over.
TypeOK ==
    /\ table \in [Entry -> Value]
    /\ firstFree \in CLUSTER_FIRST .. PastEnd
    /\ heads \subseteq CLUSTER_FIRST .. PastEnd
    /\ orphans \subseteq CLUSTER_FIRST .. PastEnd

\* No data cluster belongs to two files: the chains of two different start
\* clusters (or abandoned extensions) have no cluster of the volume in common.
ChainsDisjoint ==
    \A r1, r2 \in Roots \cap Cluster :
        r1 # r2 => Chain(table, r1) \cap Chain(table, r2) = {}

\* Following links ends: no cluster is reachable from its own successor, so
\* the loops that follow links (clearLinks, lastCluster, FileReadClusterchain,
\* the directory scans) terminate.
NoCycle ==
    \A c \in Cluster :
        table[c] \in Cluster => c \notin Chain(table, table[c])

\* No chain runs into a free entry: every cluster of a file's chain is marked
\* used, so the search for a free cluster never hands it out again.
ChainsAllocated ==
    \A r \in Roots \cap Cluster :
        \A c \in Chain(table, r) : table[c] # CLUSTER_FREE

\* A cluster marked used belongs to a file or directory, or to an extension
\* that was abandoned: deleting a file leaves nothing else behind.
NothingLeaks ==
    \A c \in Cluster :
        table[c] # CLUSTER_FREE => \E r \in Roots : c \in Chain(table, r)

\* The hint runs past the table only while the volume is full: otherwise the
\* search would hand out the entry past the end with clusters still free.
PastEndOnlyWhenFull ==
    firstFree = PastEnd => \A c \in Cluster : table[c] # CLUSTER_FREE

\* No call, not even deleting another file, takes a cluster away from a file
\* that is still there.
ChainsKept ==
    [][\A r \in Roots \cap Roots' : Chain(table, r) \subseteq Chain(table', r)]_vars

\* Seen through the chains of the start clusters, the table is the ownership
\* its callers rely on: each call opens an owner, grows one by one cluster
\* nobody owned, closes one, or changes nothing.
Ownership == INSTANCE ClusterOwnership
    WITH owns <- [r \in Roots \cap Cluster |-> Chain(table, r)]

ImplementsOwnership == Ownership!Spec

------------------------------------------------------------------------
(* The inductive invariant.                                                *)

FixedEntries ==
    table[0] = CLUSTER_EOF /\ table[1] = CLUSTER_EOF /\ table[PastEnd] = CLUSTER_FREE

NoCrossLink ==
    \A c, d \in Cluster : (table[c] \in Cluster /\ table[c] = table[d]) => c = d

NoDanglingLink ==
    \A c \in Cluster : table[c] \in Cluster => table[table[c]] # CLUSTER_FREE

RootsAreHeads ==
    \A r \in Roots \cap Cluster :
        /\ table[r] # CLUSTER_FREE
        /\ \A c \in Cluster : table[c] # r

HeadsAreNotOrphans == heads \cap orphans \cap Cluster = {}

IInv ==
    /\ TypeOK
    /\ FixedEntries
    /\ NoCrossLink
    /\ NoDanglingLink
    /\ RootsAreHeads
    /\ HeadsAreNotOrphans
    /\ NothingLeaks
    /\ PastEndOnlyWhenFull

------------------------------------------------------------------------
(* What the comment on linkFreeCluster says of it.                         *)

\* "gets the first available free cluster, sets it to end of file": a start
\* cluster a file was given is marked used.
StartClusterIsAllocated == \A h \in heads : table[h] # CLUSTER_FREE

\* "links the input cluster to it": the call that asks for the cluster after c
\* leaves no new cluster outside the chain of c.
ExtensionIsLinked ==
    [][\A c \in Cluster : Extend(c) => orphans' \cap Cluster \subseteq orphans]_vars
=============================================================================
