-------------------------- MODULE WriteBackCache --------------------------
(***************************************************************************)
(* The cache of src/src/fat/cache.c: a few pages, each holding a sector,   *)
(* written back to the disc when another sector needs the page and when    *)
(* the cache is flushed.  The build uses cache_dummy.c in its place.       *)
(*                                                                         *)
(* The disc may refuse any read or write.  One that fails changes nothing, *)
(* as the ram disc's, which copies only after its bounds check.            *)
(***************************************************************************)
EXTENDS Integers, FiniteSetsExt

CONSTANTS
    NumberOfPages,  \* cache->numberOfPages
    Sectors, Offsets, Values,
    Zero,           \* the value eraseWritePartialSector fills with
    CACHE_FREE,     \* the sector of a page that holds none
    MaxCount        \* bound on a page's usage count

ASSUME CacheAssumption ==
    /\ NumberOfPages \in Nat \ {0} /\ MaxCount \in Nat \ {0}
    /\ CACHE_FREE \notin Sectors /\ Zero \in Values

VARIABLES
    pages,  \* cacheEntries and the bytes of the pages
    disc,
    answer  \* what the last call returned

vars == <<pages, disc, answer>>

Page    == 1 .. NumberOfPages
Content == [Offsets -> Values]

------------------------------------------------------------------------
(* Finding a page.                                                         *)

Holds(s) == {i \in Page : pages[i].sector = s}

\* Mutant: the search stops one page early.
HitMut(s) == Holds(s) \ {NumberOfPages}

Hit(s) == Holds(s)

\* The last free page, else the first of those used least.  A free page's count
\* is 0, so none behind it is used less.
LeastUsed ==
    IF Holds(CACHE_FREE) # {} THEN Max(Holds(CACHE_FREE))
    ELSE Min({i \in Page : \A j \in Page : pages[i].count <= pages[j].count})

\* Mutant: a page is reused without being written back.
MustWriteMut(i) == FALSE

MustWrite(i) == pages[i].sector # CACHE_FREE /\ pages[i].dirty

\* The page as it is when it has been written back.
Cleaned(i) == [pages EXCEPT ![i].dirty = FALSE]

WrittenTo(d, i) == [d EXCEPT ![pages[i].sector] = pages[i].data]

\* _FAT_cache_getSector: what becomes of pages and disc, and the page, 0 for an
\* error.  The usage count belongs to the page and outlives the sector.
Found(i) ==
    [page |-> i, pages |-> [pages EXCEPT ![i].count = @ + 1], disc |-> disc]

Refused(p, d) == [page |-> 0, pages |-> p, disc |-> d]

Loaded(i, s, d) ==
    [page |-> i, disc |-> d,
     pages |-> [pages EXCEPT ![i] =
        [sector |-> s, count |-> @.count + 1, dirty |-> FALSE, data |-> d[s]]]]

GetSector(s) ==
    LET i == LeastUsed
        p == IF MustWrite(i) THEN Cleaned(i) ELSE pages
        d == IF MustWrite(i) THEN WrittenTo(disc, i) ELSE disc
    IN  IF Hit(s) # {} THEN {Found(Min(Hit(s)))}
        ELSE {Loaded(i, s, d), Refused(p, d)}
                \cup (IF MustWrite(i) THEN {Refused(pages, disc)} ELSE {})

------------------------------------------------------------------------
(* The calls.                                                              *)

Init ==
    /\ disc \in [Sectors -> Content]
    /\ pages = [i \in Page |-> [sector |-> CACHE_FREE, count |-> 0, dirty |-> FALSE,
                               data |-> [o \in Offsets |-> Zero]]]
    /\ answer = "none"

\* A call that found its page g.
Using(g) == g.page # 0 /\ g.pages[g.page].count <= MaxCount

ReadPartialSector(s, o) == \E g \in GetSector(s) :
    /\ Using(g)
    /\ pages' = g.pages
    /\ disc' = g.disc
    /\ answer' = g.pages[g.page].data[o]

\* Mutant: the page is not marked as changed.
ModifiedMut(g, content) == [g.pages EXCEPT ![g.page].data = content]

Modified(g, content) ==
    [g.pages EXCEPT ![g.page].data = content, ![g.page].dirty = TRUE]

WritePartialSector(s, o, v) == \E g \in GetSector(s) :
    /\ Using(g)
    /\ pages' = Modified(g, [g.pages[g.page].data EXCEPT ![o] = v])
    /\ disc' = g.disc
    /\ answer' = "done"

EraseWritePartialSector(s, o, v) == \E g \in GetSector(s) :
    /\ Using(g)
    /\ pages' = Modified(g, [p \in Offsets |-> IF p = o THEN v ELSE Zero])
    /\ disc' = g.disc
    /\ answer' = "done"

\* Any of the three when the disc has failed.
NoPage(s) == \E g \in GetSector(s) :
    /\ g.page = 0
    /\ pages' = g.pages
    /\ disc' = g.disc
    /\ answer' = "error"

\* Pages are written in order up to the first the disc refuses; the call's
\* result is true in both cases, and the sectors stay in their pages.
Flush == \E done \in 0 .. NumberOfPages :
    /\ done < NumberOfPages => pages[done + 1].dirty
    /\ disc' = [s \in Sectors |->
                    LET written == {i \in Holds(s) : i <= done /\ pages[i].dirty}
                    IN  IF written = {} THEN disc[s] ELSE pages[Max(written)].data]
    /\ pages' = [i \in Page |->
                    IF i <= done THEN [pages[i] EXCEPT !.count = 0, !.dirty = FALSE]
                                 ELSE pages[i]]
    /\ answer' = "flushed"

Invalidate ==
    /\ pages' = [i \in Page |->
                    [pages[i] EXCEPT !.sector = CACHE_FREE, !.count = 0, !.dirty = FALSE]]
    /\ answer' = "none"
    /\ UNCHANGED disc

Next ==
    \/ \E s \in Sectors, o \in Offsets :
            \/ ReadPartialSector(s, o)
            \/ \E v \in Values :
                    WritePartialSector(s, o, v) \/ EraseWritePartialSector(s, o, v)
    \/ \E s \in Sectors : NoPage(s)
    \/ Flush \/ Invalidate

Spec == Init /\ [][Next]_vars

------------------------------------------------------------------------
(* Properties.                                                             *)

\* No sector is in two pages: a write to one of them would be lost when the
\* other is written back.
OnePagePerSector == \A s \in Sectors : Cardinality(Holds(s)) <= 1

\* A page that is clean has what the disc has, also after calls that failed
\* half-way: dropping it loses nothing.
CleanPagesMatchDisc ==
    \A i \in Page :
        (pages[i].sector # CACHE_FREE /\ ~pages[i].dirty) =>
            pages[i].data = disc[pages[i].sector]

\* Seen through its pages the disc is a memory: evictions, failed evictions,
\* failed loads and flushes never change what a sector reads as, and what
\* invalidating falls back to is what had been written back.
View == [s \in Sectors |->
            IF Holds(s) # {} THEN pages[Min(Holds(s))].data ELSE disc[s]]

Memory == INSTANCE SectorMemory WITH memory <- View, durable <- disc

ImplementsMemory == Memory!Spec

\* "Flushes all dirty pages to disc, clearing the dirty flag": when flush has
\* answered true no page is dirty.
FlushLeavesNothingDirty == answer = "flushed" => \A i \in Page : ~pages[i].dirty

\* "clear out the contents of the cache": after a flush the next access to a
\* sector goes to the disc.
FlushClearsTheCache ==
    answer = "flushed" => \A i \in Page : pages[i].sector = CACHE_FREE
=============================================================================
