--------------------------- MODULE Directory ---------------------------
(***************************************************************************)
(* One directory of a mounted volume: src/src/fat/directory.c and the      *)
(* calls of file_functions.c that add, close and delete its entries.       *)
(*                                                                         *)
(* A directory is a row of slots.  An entry is one alias slot, preceded by *)
(* the slots of its long name if it has one; the slot after the last one   *)
(* used is the end mark.  The root directory has a fixed number of slots,  *)
(* another one grows by clusters of the volume.                            *)
(***************************************************************************)
EXTENDS Integers, Sequences, FiniteSetsExt

CONSTANTS
    Short,          \* names without spaces that are their own alias
    Long,           \* names that need long name slots
    Parts,          \* [Long -> number of long name slots]
    Tails,          \* [Long -> sequence of the aliases tried, "...~01" first]
    Cut,            \* [aliases tried that do not read back -> what is read]
    RootSlots,      \* slots of the root directory
    ClusterSlots,   \* slots of a cluster
    MaxClusters,    \* bound: clusters a directory grows to
    DirNames,       \* bound: names that directories are given
    Kinds           \* which directories are looked at:
                    \*   "fixed"   the root of a FAT12 or FAT16 volume
                    \*   "root32"  the root of a FAT32 volume, cluster 1
                    \*   "sub"     any other directory

Names == Short \cup Long

Size(n) == IF n \in Long THEN Parts[n] + 1 ELSE 1

TailsOf(n) == {Tails[n][i] : i \in 1 .. Len(Tails[n])}

Aliases == Short \cup {"."} \cup {".."} \cup UNION {TailsOf(n) : n \in Long}

\* entryGetAlias reads an alias up to the first space of its extension, and no
\* dot where none follows: an alias tried that has a space there, or ends in the
\* dot, reads back as a shorter one.
EntryGetAlias(a) == IF a \in DOMAIN Cut THEN Cut[a] ELSE a

\* What is left of a long name when bytes of another meaning have been written
\* into its slots.
Garbled == "?"

ASSUME NamesAssumption ==
    /\ Aliases \cap Long = {} /\ Garbled \notin Names
    /\ Parts \in [Long -> Nat \ {0}]
    /\ Tails \in [Long -> Seq(STRING)]
    \* what is read back is a valid alias, and no longer one that is cut
    /\ DOMAIN Cut \subseteq Aliases \ (Short \cup {".", ".."})
    /\ \A a \in DOMAIN Cut : Cut[a] \notin Long \cup DOMAIN Cut \cup {Garbled}
    \* one extension is enough for one entry
    /\ \A n \in Long : Parts[n] + 1 < ClusterSlots
    /\ RootSlots \in Nat \ {0} /\ ClusterSlots \in Nat \ {0, 1} /\ MaxClusters \in Nat
    /\ Kinds \subseteq {"fixed", "root32", "sub"}

VARIABLES
    kind,       \* which directory this is
    tailIsLast, \* whether the last cluster of its chain cannot be linked
    slots,      \* the directory's slots
    files,      \* names added whose alias slot is where the caller was told
    cutOff      \* whether an entry has ever been cut off by the directory's end

vars == <<kind, tailIsLast, slots, files, cutOff>>

------------------------------------------------------------------------
(* Slots.                                                                  *)

Last == [kind |-> "last"]
Vol  == [kind |-> "vol"]

Blank(n) == [i \in 1 .. n |-> Last]

\* A freed slot keeps its attribute byte, which may say long name.
Freed(s) == [kind |-> "free", lfn |-> s.kind = "lfn" \/ (s.kind = "free" /\ s.lfn)]

\* A part of the long name n of the entry with alias a; top marks the first
\* slot, which holds the name's last characters.
LfnSlot(n, a, top) ==
    [kind |-> "lfn", name |-> n, alias |-> a, top |-> top, garbled |-> FALSE]

\* start tells whether start cluster and size, which FileClose or FileMakeDir
\* knows, are in the entry.
AliasSlot(a, dir, start) ==
    [kind |-> "alias", alias |-> a, dir |-> dir, start |-> start]

View(d, i) == IF i <= Len(d) THEN d[i] ELSE Last

\* Where the directory ends: its end mark, or just past its last slot.
EndMark(d) == Min({Len(d) + 1} \cup {i \in 1 .. Len(d) : d[i].kind = "last"})

AliasAt(d) == {i \in 1 .. EndMark(d) - 1 : d[i].kind = "alias"}

\* getNextEntry starts after the entry before, remembers the first slot of a
\* long name, and forgets it at a freed long name slot and at one of another
\* checksum.  The checksum is computed from the alias; aliases stand for it.
LongNameStart(d, i) ==
    LET Continues(j, k) ==
            /\ d[k].kind # "alias"
            /\ d[k].kind = "free" => ~d[k].lfn
            /\ d[k].kind = "lfn" => ~d[k].top /\ d[k].alias = d[j].alias
        tops == {j \in 1 .. i - 1 :
                    /\ d[j].kind = "lfn" /\ d[j].top /\ d[j].alias = d[i].alias
                    /\ \A k \in j + 1 .. i - 1 : Continues(j, k)}
    IN  IF tops = {} THEN 0 ELSE CHOOSE j \in tops : TRUE

\* The DIR_ENTRY getNextEntry fills in for the alias slot i, whose long name,
\* if it has one, begins at top.
LongName(d, i, top) ==
    IF \E j \in top .. i - 1 : d[j].kind = "lfn" /\ d[j].garbled
    THEN Garbled ELSE d[top].name

EntryAt(d, i) ==
    LET top == LongNameStart(d, i)
    IN  [name |-> IF top = 0 THEN EntryGetAlias(d[i].alias) ELSE LongName(d, i, top),
         alias |-> d[i].alias, dir |-> d[i].dir, start |-> d[i].start,
         dataStart |-> IF top = 0 THEN i ELSE top, dataEnd |-> i]

Listing(d) == {EntryAt(d, i) : i \in AliasAt(d)}

\* A name is looked up among long names and aliases as they are read; the first
\* match counts.
Matches(d, n) == {e \in Listing(d) : e.name = n \/ EntryGetAlias(e.alias) = n}
Exists(d, n)  == Matches(d, n) # {}
Found(d, n)   == LET m == Matches(d, n)
                 IN  CHOOSE e \in m : \A f \in m : e.dataEnd <= f.dataEnd

------------------------------------------------------------------------
(* Removing and adding an entry.                                           *)

\* Mutant: only the alias slot is freed.
RemoveAliasMut(d, e) ==
    [i \in 1 .. Len(d) |-> IF i = e.dataEnd THEN Freed(d[i]) ELSE d[i]]

RemoveEntry(d, e) ==
    [i \in 1 .. Len(d) |->
        IF i \in e.dataStart .. e.dataEnd THEN Freed(d[i]) ELSE d[i]]

\* The loop steps past the slot it freed last and reports the end of the
\* directory as a failure.
RemoveSucceeds(d, e) == e.dataEnd < Len(d)

IsFree(d, i) == View(d, i).kind = "free"

RunBefore(d, i) == i - 1 - Max({0} \cup {j \in 1 .. i - 1 : ~IsFree(d, j)})

Grown(d) == d \o Blank(ClusterSlots)

\* Mutants: a used slot does not break a run of freed ones; the gap begins
\* behind the end mark.
FitsMut(d, size) ==
    {i \in 1 .. EndMark(d) - size : IsFree(d, i) /\ IsFree(d, i + size - 1)}
GapStartMut(d) == EndMark(d) + 1

\* The slots where a run of size freed ones begins, before the end mark.
Fits(d, size) ==
    {i \in 1 .. EndMark(d) - size : \A j \in i .. i + size - 1 : IsFree(d, j)}

\* Where an entry goes that fits no run.
GapStart(d) == EndMark(d)

\* findEntryGap.  At the end mark the gap starts over at the mark, but the
\* freed slots just before it have been counted already: that many fewer slots
\* are blanked behind the mark, and dataEnd stops that many slots short.
FindEntryGap(d, size, ext) ==
    LET mark   == EndMark(d)
        upto   == mark + size - RunBefore(d, mark)
        blank(s) == [i \in 1 .. Len(s) |-> IF i \in mark + 1 .. upto THEN Last ELSE s[i]]
        atMark(ok, s) == [ok |-> ok, dir |-> blank(s),
                          dataStart |-> GapStart(d), dataEnd |-> upto - 1]
    IN  IF Fits(d, size) # {}
        THEN [ok |-> TRUE, dir |-> d, dataStart |-> Min(Fits(d, size)),
              dataEnd |-> Min(Fits(d, size)) + size - 1]
        ELSE IF upto <= Len(d) THEN atMark(TRUE, d)
        ELSE IF ext = "full" THEN atMark(FALSE, d)
        ELSE IF ext = "linked" THEN atMark(TRUE, Grown(d))
        ELSE atMark(TRUE, d)

\* addEntry writes the entry's slots from dataStart on and stops without a
\* word at the end of the chain.
WriteEntry(d, n, a, dir, first) ==
    LET alias == first + Size(n) - 1
    IN  [i \in 1 .. Len(d) |->
            IF i \in first .. alias - 1 THEN LfnSlot(n, a, i = first)
            ELSE IF i = alias THEN AliasSlot(a, dir, dir)
            ELSE d[i]]

\* The aliases a long name may get are tried in order, each as it was put
\* together; one that does not read back is never found and always free.
FreeTails(d, n) == {i \in 1 .. Len(Tails[n]) : ~Exists(d, Tails[n][i])}

\* Mutants: the tail number is not checked against the directory; the long
\* name is taken for its own alias.
AliasUncheckedMut(d, n) == IF n \in Short THEN n ELSE Tails[n][1]
AliasLongMut(d, n) == n

\* A short name is its own alias.
AliasFor(d, n) == IF n \in Short THEN n ELSE Tails[n][Min(FreeTails(d, n))]

AddEntry(d, n, dir, ext) ==
    LET gap == FindEntryGap(d, Size(n), ext)
        a   == AliasFor(d, n)
    IN  IF Exists(d, n) \/ (n \in Long /\ FreeTails(d, n) = {})
        THEN [ok |-> FALSE, dir |-> d, alias |-> 0, dataEnd |-> 0]
        ELSE IF ~gap.ok
        THEN [ok |-> FALSE, dir |-> gap.dir, alias |-> 0, dataEnd |-> 0]
        ELSE [ok |-> TRUE, dir |-> WriteEntry(gap.dir, n, a, dir, gap.dataStart),
              alias |-> gap.dataStart + Size(n) - 1, dataEnd |-> gap.dataEnd]

\* FileClose writes start cluster and size into the slot at dataEnd.  In a slot
\* of a long name these bytes belong to the name, which they change (g) unless
\* it has no characters there.
FileClose(d, i, g) ==
    IF i > Len(d) THEN d
    ELSE IF d[i].kind = "alias" THEN [d EXCEPT ![i].start = TRUE]
    ELSE IF d[i].kind = "lfn" THEN [d EXCEPT ![i].garbled = @ \/ g]
    ELSE d

------------------------------------------------------------------------
(* The calls.                                                              *)

\* format leaves a volume label in the root directory, FileMakeDir the two dot
\* entries in any other.  Cluster 1, the root of a FAT32 volume, has no entry
\* that a link could be written to.
Init ==
    /\ kind \in Kinds
    /\ slots = IF kind = "sub"
               THEN <<AliasSlot(".", TRUE, TRUE), AliasSlot("..", TRUE, TRUE)>>
                    \o Blank(ClusterSlots - 2)
               ELSE <<Vol>>
                    \o Blank((IF kind = "fixed" THEN RootSlots ELSE ClusterSlots) - 1)
    /\ tailIsLast \in {t \in BOOLEAN : kind # "sub" => t}
    /\ files = {} /\ cutOff = FALSE

\* What asking for one more cluster may come to: the chain grows, the volume
\* is full, or a cluster is returned that the chain does not lead to.
Extensions == {"linked", "full", "unlinked"}

MayExtend(ext) ==
    /\ kind = "fixed" => ext = "full"
    /\ ext = "linked" => ~tailIsLast /\ Len(slots) < MaxClusters * ClusterSlots
    /\ ext = "unlinked" => tailIsLast

\* The cluster the directory has grown by may be the last one of the volume.
NewTail ==
    IF Len(slots') = Len(slots) THEN UNCHANGED tailIsLast ELSE tailIsLast' \in BOOLEAN

\* An entry whose alias slot is not in the directory any more.
Lost(add) == add.ok /\ add.alias > Len(add.dir)

\* The names in the books once the entries of the gone ones have been removed
\* and n has been added, or refused.
Recorded(n, add, gone) ==
    IF add.ok /\ add.alias = add.dataEnd /\ ~Lost(add)
    THEN (files \ gone) \cup {n} ELSE files \ gone

\* The slots after the FileClose that completes what AddEntry has begun.
Closed(add) ==
    {IF add.ok THEN FileClose(add.dir, add.dataEnd, g) ELSE add.dir : g \in BOOLEAN}

\* The results addEntry may have.
Additions(d, n, dir) ==
    {AddEntry(d, n, dir, ext) : ext \in {e \in Extensions : MayExtend(e)}}

\* FileCreate of a new name, and the FileClose that completes its entry.
CreateNew(n) ==
    /\ ~Exists(slots, n)
    /\ \E add \in Additions(slots, n, FALSE) :
        /\ slots' \in Closed(add)
        /\ files' = Recorded(n, add, {})
        /\ cutOff' = (cutOff \/ Lost(add))
    /\ NewTail
    /\ UNCHANGED kind

\* FileCreate deletes the file of that name first.  It gives up when that
\* fails: clearLinks refused the old start cluster, or removeEntry ran into the
\* end of the directory; the entry is gone all the same.
Replace(n) ==
    LET old == Found(slots, n)
    IN  /\ Exists(slots, n)
        /\ ~old.dir
        /\ \E cleared \in {RemoveEntry(slots, old)} :
            \/ /\ slots' = cleared /\ files' = files \ {old.name, old.alias}
               /\ UNCHANGED cutOff
            \/ /\ RemoveSucceeds(slots, old)
               /\ \E add \in Additions(cleared, n, FALSE) :
                    /\ slots' \in Closed(add)
                    /\ files' = Recorded(n, add, {old.name, old.alias})
                    /\ cutOff' = (cutOff \/ Lost(add))
        /\ NewTail
        /\ UNCHANGED kind

\* FileMakeDir knows the start cluster before it adds the entry and does not
\* use dataEnd.
MakeDir(n) ==
    /\ n \in DirNames /\ ~Exists(slots, n)
    /\ \E add \in Additions(slots, n, TRUE) :
        /\ slots' = add.dir
        /\ files' = Recorded(n, [add EXCEPT !.dataEnd = add.alias], {})
        /\ cutOff' = (cutOff \/ Lost(add))
    /\ NewTail
    /\ UNCHANGED kind

\* FileDelete of a file or of an empty directory.
Delete(n) ==
    LET old == Found(slots, n)
    IN  /\ Exists(slots, n)
        /\ slots' = RemoveEntry(slots, old)
        /\ files' = files \ {old.name, old.alias}
        /\ UNCHANGED <<kind, tailIsLast, cutOff>>

Next ==
    \E n \in Names : CreateNew(n) \/ Replace(n) \/ MakeDir(n) \/ Delete(n)

Spec == Init /\ [][Next]_vars

------------------------------------------------------------------------
(* Properties.                                                             *)

Slot ==
    {Last, Vol} \cup [kind : {"free"}, lfn : BOOLEAN]
    \cup [kind : {"lfn"}, name : Long, alias : Aliases, top : BOOLEAN, garbled : BOOLEAN]
    \cup [kind : {"alias"}, alias : Aliases, dir : BOOLEAN, start : BOOLEAN]

TypeOK ==
    /\ kind \in Kinds
    /\ tailIsLast \in BOOLEAN
    /\ slots \in Seq(Slot)
    /\ files \subseteq Names
    /\ cutOff \in BOOLEAN

\* A file or directory whose entry was added with the alias slot where the
\* caller was told is found under its name and knows its start cluster, whatever
\* has been added and deleted around it.  A short name is the alias of no other
\* entry, though what is read of a cut alias may be the same; a long name is
\* found once as long as no entry has been cut off: what is left of one may
\* become the long name of another entry.
FilesAreFound ==
    \A n \in files :
        LET found == Matches(slots, n)
        IN  /\ \E e \in found : e.start
            /\ n \in Short => Cardinality({e \in found : e.alias = n}) = 1
            /\ n \in Long /\ ~cutOff => Cardinality(found) = 1

\* Of the aliases that are read back as they were written, no two entries of a
\* directory share one, so two names that want the same one get different tail
\* numbers.
AliasesDistinct ==
    \A e, f \in Listing(slots) :
        e.alias = f.alias /\ e.alias \notin DOMAIN Cut => e = f

\* Nothing is hidden behind the end mark: every slot after it is an end mark.
NothingBehindTheEnd ==
    \A i \in 1 .. Len(slots) : i >= EndMark(slots) => slots[i] = Last

\* Two entries that are the same but for their names.
SameSlot(e, f) ==
    e.alias = f.alias /\ e.dir = f.dir /\ e.start = f.start /\ e.dataEnd = f.dataEnd

\* Entry e is still there in the listing, with its name as long as no entry has
\* been cut off.
Stays(e, listing) ==
    \E f \in listing : IF cutOff THEN SameSlot(e, f) ELSE e = f

\* Adding a name takes no entry away, and a call that replaces or deletes one
\* takes away no entry but the one its name is looked up as; every other entry
\* stays in its slot with its alias and start cluster, and with its name as
\* long as no entry has been cut off.  The name in the books is the one the call
\* completes, if it completes any.
OthersKept ==
    [][\E before \in {Listing(slots)}, after \in {Listing(slots')} :
       \E n \in Names :
          /\ files' \ files \subseteq {n}
          /\ \A e \in before :
                Stays(e, after) \/ (Exists(slots, n) /\ e = Found(slots, n))]_vars

------------------------------------------------------------------------
(* What the comments on the structure and the functions say of them.       *)

\* "dataEnd: Always points to the file/directory's alias entry": FileClose,
\* which writes the start cluster there, reaches every entry that is listed.
DataEndIsAlias == \A e \in Listing(slots) : e.start

\* "Get a valid tail number": the number is to make the alias one that no other
\* entry of the directory reads as.
AliasesReadDistinct ==
    \A e, f \in Listing(slots) :
        EntryGetAlias(e.alias) = EntryGetAlias(f.alias) => e = f

\* removeEntry "returns true on success, false on failure": an entry it
\* reports it could not remove is still there.
FailedRemovalKeepsEntry ==
    \A e \in Listing(slots) :
        ~RemoveSucceeds(slots, e) => e \in Listing(RemoveEntry(slots, e))

\* removeEntry "removes the directory entry specified by entry" and no other.
RemovesOnlyTheEntry ==
    \A e \in Listing(slots) :
        Listing(slots) \ {e} \subseteq Listing(RemoveEntry(slots, e))

\* addEntry "returns true on success, false on failure": a directory it
\* reports as added is found under its name.
AddedEntryIsFound ==
    [][\A n \in Names : \A add \in Additions(slots, n, TRUE) :
            MakeDir(n) /\ add.ok /\ slots' = add.dir => Exists(slots', n)]_vars

\* dataStart "points to the start of the LFN entries of a file, or the alias
\* for no LFN": the entry of a short name is its alias slot alone, whatever an
\* entry cut off by the directory's end has left in front of it.
ShortEntryIsItsAlias ==
    \A e \in Listing(slots) :
        e.alias \in files \cap Short => e.dataStart = e.dataEnd
=============================================================================
