---------------------------- MODULE FatLoops ----------------------------
(***************************************************************************)
(* The calls of FileAllocationTable, one loop iteration or one table write *)
(* at a time: the search for a free cluster with its wrap around, the two  *)
(* writes that link and mark the new cluster, the loop that erases a chain *)
(* behind itself, and the loop that walks a chain.  The library has one    *)
(* thread: a call starts when no other is under way.                       *)
(***************************************************************************)
EXTENDS FileAllocationTable

VARIABLES
    loc,        \* the loop or statement the running call is at, or "idle"
    arg,        \* the call's cluster argument
    keep,       \* whether the caller records the cluster as a start cluster
    cur,        \* the loop's cluster
    looped      \* loopedAroundFAT

call     == <<loc, arg, keep, cur, looped>>
loopVars == <<vars, call>>

Return ==
    /\ loc' = "idle"
    /\ arg' = CLUSTER_FREE
    /\ keep' = FALSE
    /\ cur' = CLUSTER_FREE
    /\ looped' = FALSE

LoopInit ==
    /\ Init
    /\ loc = "idle"
    /\ arg = CLUSTER_FREE
    /\ keep = FALSE
    /\ cur = CLUSTER_FREE
    /\ looped = FALSE

------------------------------------------------------------------------
(* linkFreeCluster.                                                        *)

BeginLink(c, k) ==
    /\ loc = "idle"
    /\ IF k THEN c = CLUSTER_FREE ELSE c \in Held
    /\ c <= LastCluster /\ ~HasLink(table, c)
    /\ loc' = "scan"
    /\ arg' = c
    /\ keep' = k
    /\ cur' = SearchStart(firstFree)
    /\ looped' = FALSE
    /\ UNCHANGED vars

\* A number past the table and a cluster that has a link are answered at once.
AnswerAtOnce(c) ==
    /\ loc = "idle"
    /\ c \in Held
    /\ c > LastCluster \/ HasLink(table, c)
    /\ UNCHANGED loopVars

ScanUsed ==
    /\ loc = "scan"
    /\ table[cur] # CLUSTER_FREE
    /\ cur + 1 <= LastCluster
    /\ cur' = cur + 1
    /\ UNCHANGED <<vars, loc, arg, keep, looped>>

\* Mutant: the flag that remembers the wrap around is not set.
ScanWrapMut ==
    /\ loc = "scan"
    /\ table[cur] # CLUSTER_FREE
    /\ cur + 1 > LastCluster
    /\ ~looped
    /\ cur' = CLUSTER_FIRST
    /\ UNCHANGED <<vars, loc, arg, keep, looped>>

ScanWrap ==
    /\ loc = "scan"
    /\ table[cur] # CLUSTER_FREE
    /\ cur + 1 > LastCluster
    /\ ~looped
    /\ cur' = CLUSTER_FIRST
    /\ looped' = TRUE
    /\ UNCHANGED <<vars, loc, arg, keep>>

ScanFull ==
    /\ loc = "scan"
    /\ table[cur] # CLUSTER_FREE
    /\ cur + 1 > LastCluster
    /\ looped
    /\ firstFree' = cur + 1
    /\ Return
    /\ UNCHANGED <<table, heads, orphans>>

ScanFree ==
    /\ loc = "scan"
    /\ table[cur] = CLUSTER_FREE
    /\ firstFree' = cur
    /\ loc' = "link"
    /\ UNCHANGED <<table, heads, orphans, arg, keep, cur, looped>>

LinkStep ==
    /\ loc = "link"
    /\ table' = LinkTo(table, arg, cur)
    /\ loc' = "mark"
    /\ UNCHANGED <<firstFree, heads, orphans, arg, keep, cur, looped>>

\* Whether the cluster found has been left outside every chain.
Unlinked == ~keep /\ (arg < CLUSTER_FIRST \/ arg = LastCluster)

MarkStep ==
    /\ loc = "mark"
    /\ table' = MarkEnd(table, cur)
    /\ heads' = IF keep THEN heads \cup {cur} ELSE heads
    /\ orphans' = IF Unlinked THEN orphans \cup {cur} ELSE orphans
    /\ Return
    /\ UNCHANGED firstFree

------------------------------------------------------------------------
(* clearLinks, and the loop of FileReadClusterchain.                       *)

BeginClear(h) ==
    /\ loc = "idle"
    /\ h \in heads \cap Cluster
    /\ firstFree' = LoweredHint(firstFree, h)
    /\ loc' = "clear"
    /\ arg' = h
    /\ cur' = h
    /\ UNCHANGED <<table, heads, orphans, keep, looped>>

\* clearLinks refuses the start cluster; the entry is removed all the same.
RefuseClear(h) ==
    /\ loc = "idle"
    /\ h \in heads \ Cluster
    /\ heads' = heads \ {h}
    /\ UNCHANGED <<table, firstFree, orphans, call>>

\* Mutant: the link is read after the entry has been erased.
ClearStepMut ==
    /\ loc = "clear"
    /\ table' = WriteFatEntry(table, cur, CLUSTER_FREE)
    /\ heads' = heads \ {arg}
    /\ Return
    /\ UNCHANGED <<firstFree, orphans>>

\* The link is read before the entry that holds it is erased.
ClearStep ==
    /\ loc = "clear"
    /\ table' = WriteFatEntry(table, cur, CLUSTER_FREE)
    /\ IF table[cur] \in {CLUSTER_EOF, CLUSTER_FREE}
       THEN heads' = heads \ {arg} /\ Return
       ELSE cur' = table[cur] /\ UNCHANGED <<heads, loc, arg, keep, looped>>
    /\ UNCHANGED <<firstFree, orphans>>

\* A file created on a full volume has start cluster CLUSTER_FREE.
BeginWalk(c) ==
    /\ loc = "idle"
    /\ c \in heads \cup {CLUSTER_FREE}
    /\ loc' = "walk"
    /\ cur' = c
    /\ UNCHANGED <<vars, arg, keep, looped>>

WalkStep ==
    /\ loc = "walk"
    /\ IF table[cur] = CLUSTER_EOF
       THEN Return
       ELSE cur' = table[cur] /\ UNCHANGED <<loc, arg, keep, looped>>
    /\ UNCHANGED vars

------------------------------------------------------------------------

Begin ==
    \/ \E c \in Entry, k \in BOOLEAN : BeginLink(c, k)
    \/ \E c \in Entry : AnswerAtOnce(c)
    \/ \E h \in Entry : BeginClear(h)
    \/ \E h \in Entry : RefuseClear(h)
    \/ \E c \in Entry : BeginWalk(c)
    \/ loc = "idle" /\ Remount /\ UNCHANGED call

Step ==
    \/ ScanUsed \/ ScanWrap \/ ScanFull \/ ScanFree
    \/ LinkStep \/ MarkStep
    \/ ClearStep
    \/ WalkStep

LoopNext == Begin \/ Step

\* A call that has begun runs on until it returns: nothing else holds the
\* thread.  No call has to begin.
LoopSpec == LoopInit /\ [][LoopNext]_loopVars /\ WF_loopVars(Step)

------------------------------------------------------------------------
(* Properties.                                                             *)

\* Once the search has found a cluster the call has in effect happened, and
\* so has clearLinks once it has begun.
AbsTable ==
    CASE loc = "link"  -> MarkEnd(LinkTo(table, arg, cur), cur)
      [] loc = "mark"  -> MarkEnd(table, cur)
      [] loc = "clear" -> ClearLinks(table, cur)
      [] OTHER        -> table

AbsHeads ==
    CASE loc \in {"link", "mark"} /\ keep -> heads \cup {cur}
      [] loc = "clear" -> heads \ {arg}
      [] OTHER -> heads

AbsOrphans ==
    IF loc \in {"link", "mark"} /\ Unlinked THEN orphans \cup {cur} ELSE orphans

Calls == INSTANCE FileAllocationTable
    WITH table <- AbsTable, heads <- AbsHeads, orphans <- AbsOrphans

\* The search, the two writes and the erasing loop compute what the calls of
\* FileAllocationTable do in one step: the search finds the first free entry
\* from the hint on, wrapping once, and erasing follows the chain to its end.
ImplementsCalls == Calls!Spec

\* Every call returns: the search gives up after one wrap around, and no loop
\* that follows links runs in a circle.
EveryCallReturns == loc # "idle" ~> loc = "idle"
=============================================================================
