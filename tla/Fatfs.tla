------------------------------ MODULE Fatfs ------------------------------
(***************************************************************************)
(* The calls of the class fatfs on a mounted FAT12 or FAT16 image, from    *)
(* the path a caller gives to the clusters of the image: src/src/fatfs.cpp *)
(* over fat/file_functions.c, fat/directory.c and the table of             *)
(* FileAllocationTable.  One call is one step; there is one thread.        *)
(*                                                                         *)
(* Names are short names, so an entry is one slot (Directory has the long  *)
(* ones), and a cluster is one sector.  A file's contents are counted in   *)
(* pieces of the size of a slot.  A piece of a file that is read as a slot *)
(* counts as an entry in use that nobody has a name for, and so does what  *)
(* is left in a cluster that is free.                                      *)
(***************************************************************************)
EXTENDS Integers, SequencesExt

CONSTANTS
    LastCluster,    \* partition->fat.lastCluster
    ClusterSlots,   \* slots of a cluster
    RootSlots,      \* slots of the root directory
    Names,          \* short names
    Contents,       \* contents files are given
    Length,         \* [Contents -> number of pieces]
    Paths           \* paths the calls are given

VARIABLES
    vol,        \* the image as the mounted partition shows it
    tree        \* the files and directories it shows, kept for the properties

fatfsVars == <<vol, tree>>

Table == INSTANCE FileAllocationTable
    WITH table <- vol.table, firstFree <- vol.firstFree, heads <- {}, orphans <- {}

Cluster == Table!Cluster
PastEnd == Table!PastEnd
FREE    == Table!CLUSTER_FREE
EOF     == Table!CLUSTER_EOF

ASSUME ClusterAssumption ==
    LastCluster \in Table!CLUSTER_FIRST .. Table!MaxLastCluster

ASSUME SlotsAssumption ==
    /\ ClusterSlots \in Nat /\ ClusterSlots >= 2
    /\ RootSlots \in Nat /\ RootSlots >= ClusterSlots
    /\ Names \cap {".", ".."} = {}
    /\ Length \in [Contents -> Nat \ {0}]
    /\ Contents \cap {"dir", "garbled", "broken"} = {}

------------------------------------------------------------------------
(* Slots, and the walk along a directory.                                  *)

EndMark == [kind |-> "last"]
Free  == [kind |-> "free"]
Label == [kind |-> "vol"]
Entry(n, dir, c, size) ==
    [kind |-> "entry", name |-> n, dir |-> dir, cluster |-> c, size |-> size]
Residue == [kind |-> "data", of |-> "?", piece |-> 0]
Piece(x, i) == [kind |-> "data", of |-> x, piece |-> i]

\* The cluster 0 is the root directory.
ROOT == 0
RootEntry == Entry(".", TRUE, ROOT, 0)

\* clusterToSector sends the numbers below 2 to the root directory.
Area(c) == IF c < Table!CLUSTER_FIRST THEN ROOT ELSE c

\* The root directory and the clusters have slots.
Areas == {ROOT} \cup (Table!CLUSTER_FIRST .. PastEnd)

\* A slot is named by its area and its number there.
At(v, p)     == v.cells[p[1]][p[2]]
Put(v, p, s) == [v EXCEPT !.cells[p[1]][p[2]] = s]
\* Mutant: a cluster is added to a directory as it is.
BlankMut(v, c) == v

\* A new cluster of a directory is cleared.
Blank(v, c) == [v EXCEPT !.cells[c] = [i \in 1 .. ClusterSlots |-> EndMark]]

LastOfArea(v, p) == p[2] = Len(v.cells[p[1]])

\* Only an end mark in the table ends a directory; a free entry leads on to
\* the root directory.
Ends(v, p) == LastOfArea(v, p) /\ (p[1] = ROOT \/ v.table[p[1]] = EOF)

\* The slots of the directory that begins at cluster c, in order.
AreaSlots(v, a) == [i \in 1 .. Len(v.cells[a]) |-> <<a, i>>]

Longer(v, so) ==
    IF Ends(v, Last(so)) THEN so
    ELSE so \o AreaSlots(v, Area(v.table[Last(so)[1]]))

Walk(v, c) ==
    LET walk[k \in 0 .. PastEnd] ==
            IF k = 0 THEN AreaSlots(v, Area(c)) ELSE Longer(v, walk[k - 1])
    IN  walk

Slots(v, c) == Walk(v, c)[PastEnd]

\* A cluster for the end of the chain of c, or a first one.
Linked(v, r) ==
    [vol |-> [v EXCEPT !.table = r.table, !.firstFree = r.firstFree], cluster |-> r.ret]
LinkFree(v, c) == Linked(v, Table!LinkFreeCluster(v.table, v.firstFree, c))

\* incrementDirEntryPosition with extendDirectory set.
Step(ok, v, p) == [ok |-> ok, vol |-> v, pos |-> p]
Grown(new, p) ==
    IF new.cluster = FREE THEN Step(FALSE, new.vol, p)
    ELSE Step(TRUE, Blank(new.vol, new.cluster), <<new.cluster, 1>>)

StepOn(v, p) ==
    IF ~LastOfArea(v, p) THEN Step(TRUE, v, <<p[1], p[2] + 1>>)
    ELSE IF p[1] = ROOT THEN Step(FALSE, v, p)
    ELSE IF v.table[p[1]] # EOF THEN Step(TRUE, v, <<Area(v.table[p[1]]), 1>>)
    ELSE Grown(LinkFree(v, p[1]), p)

\* getFirstEntry and getNextEntry: the entries before the end mark, by their
\* numbers in the directory and as slots.
Marks(v, s) == {i \in DOMAIN s : At(v, s[i]) = EndMark}
Listed(v, s) ==
    {i \in DOMAIN s : /\ At(v, s[i]).kind \in {"entry", "data"}
                     /\ \A j \in Marks(v, s) : i < j}
EntriesOf(v, s) == {s[i] : i \in Listed(v, s)}
Entries(v, c) == EntriesOf(v, Slots(v, c))

NotFound == [found |-> FALSE, pos |-> <<ROOT, 1>>, entry |-> RootEntry]
FoundAt(v, p) == [found |-> TRUE, pos |-> p, entry |-> At(v, p)]

\* With more of the path to come a file of that name is passed over.
Hits(v, s, n, mustBeDir) ==
    {i \in Listed(v, s) : /\ At(v, s[i]).kind = "entry" /\ At(v, s[i]).name = n
                          /\ mustBeDir => At(v, s[i]).dir}
FirstOf(v, s, hits) == IF hits = {} THEN NotFound ELSE FoundAt(v, s[Min(hits)])
LookupIn(v, s, n, mustBeDir) == FirstOf(v, s, Hits(v, s, n, mustBeDir))
Lookup(v, c, n, mustBeDir) == LookupIn(v, Slots(v, c), n, mustBeDir)

------------------------------------------------------------------------
(* Paths.                                                                  *)

\* A path that begins with a separator starts at the root.  The empty path names
\* nothing.
ASSUME PathsAssumption ==
    /\ Paths \subseteq [abs : BOOLEAN, names : Seq(Names \cup {".", ".."})]
    /\ \A p \in Paths : p.abs \/ p.names # <<>>

Root == [abs |-> TRUE, names |-> <<>>]

\* Mutant: "." is the root wherever it stands.
IsRootMut(v, p) == p = Root \/ p.names = <<".">>

IsRoot(v, p) ==
    p = Root \/ (p.names = <<".">> /\ (p.abs \/ v.cwd = ROOT))

\* The entries the names of the path lead to, one after the other.  "." means
\* the root only when it is all there is of the path; elsewhere it is looked up,
\* and the root directory has no such entry.
StartOf(v, p) ==
    [NotFound EXCEPT !.found = TRUE, !.entry.cluster = IF p.abs THEN ROOT ELSE v.cwd]
Below(v, dir, n, more) ==
    IF dir.found THEN Lookup(v, dir.entry.cluster, n, more) ELSE NotFound

Trail(v, p) ==
    LET to[i \in 0 .. Len(p.names)] ==
            IF i = 0 THEN StartOf(v, p)
            ELSE Below(v, to[i - 1], p.names[i], i < Len(p.names))
    IN  to

Resolve(v, p, k) == Trail(v, p)[k]

EntryFromPath(v, p) ==
    IF IsRoot(v, p) THEN [NotFound EXCEPT !.found = TRUE] ELSE Resolve(v, p, Len(p.names))

\* The directory a new entry goes to: all names but the last.
Parent(v, p) == Resolve(v, p, Len(p.names) - 1)
Leaf(p) == p.names[Len(p.names)]

------------------------------------------------------------------------
(* Entries.                                                                *)

\* findEntryGap for one slot.  A freed slot will do; the end mark only if there
\* is a slot after it, which becomes the new end mark.
MarkedAfter(p, next) == Step(next.ok, Put(next.vol, next.pos, EndMark), p)
AtMark(v, p) == MarkedAfter(p, StepOn(v, p))
BehindLast(next) == IF next.ok THEN AtMark(next.vol, next.pos) ELSE next

GapAmong(v, s) ==
    LET gaps == {i \in DOMAIN s : At(v, s[i]) \in {EndMark, Free}}
        p == s[Min(gaps)]
    IN  IF gaps = {} THEN BehindLast(StepOn(v, Last(s)))
        ELSE IF At(v, p) = Free THEN Step(TRUE, v, p) ELSE AtMark(v, p)

FindEntryGap(v, c) == GapAmong(v, Slots(v, c))

Filled(gap, e) ==
    IF gap.ok THEN Step(TRUE, Put(gap.vol, gap.pos, e), gap.pos) ELSE gap
AddEntry(v, c, e) ==
    IF Lookup(v, c, e.name, FALSE).found THEN Step(FALSE, v, <<ROOT, 1>>)
    ELSE Filled(FindEntryGap(v, c), e)

IsDot(s) == s.kind = "entry" /\ s.name \in {".", ".."}

\* Mutant: a directory is deleted with what is in it.
MayDeleteMut(v, e) == TRUE

\* A directory must be empty: nothing but references to itself and its parent.
MayDelete(v, e) == e.dir => \A p \in Entries(v, e.cluster) : IsDot(At(v, p))

\* The chain that starts at c is cleared; a number that is no cluster is refused.
Freed(v, c) ==
    [v EXCEPT !.table = Table!ClearLinks(v.table, c),
              !.firstFree = Table!LoweredHint(v.firstFree, c)]

\* file_delete_direntry.  The slot is freed even when the clusters were not, and
\* the call fails when there is no slot after it, although it is freed.
DeleteEntry(v, f) ==
    LET w == Freed(v, f.entry.cluster)
    IN  IF ~MayDelete(v, f.entry) THEN [ok |-> FALSE, vol |-> v]
        ELSE [ok |-> f.entry.cluster \in Cluster \cup {FREE} /\ ~Ends(w, f.pos),
              vol |-> Put(w, f.pos, Free)]

------------------------------------------------------------------------
(* The contents of files.                                                  *)

Pieces(n) == 1 .. n

\* The cluster after c for writing, a new one at the end of the chain.
NextForWriting(v, c) ==
    IF v.table[c] \in {EOF, FREE} THEN LinkFree(v, c) ELSE [vol |-> v, cluster |-> v.table[c]]

\* FileWrite of a whole file, cluster by cluster.  The rest of a sector that is
\* not filled is erased, but not in the first cluster.  No cluster to be had
\* ends the call early.
Sectors(size) == (size + ClusterSlots - 1) \div ClusterSlots

PieceAt(x, k, i, old) ==
    LET piece == (k - 1) * ClusterSlots + i
    IN  IF i <= ClusterSlots /\ piece <= Length[x] THEN Piece(x, piece)
        ELSE IF k = 1 THEN old ELSE EndMark
FilledWith(v, c, x, k) ==
    [v EXCEPT !.cells[Area(c)] = [i \in 1 .. Len(@) |-> PieceAt(x, k, i, @[i])]]

Written(ok, v, c, n) == [ok |-> ok, vol |-> v, cluster |-> c, size |-> n]
WriteTo(v, c, x, k) ==
    Written(TRUE, FilledWith(v, c, x, k), c, Min({Length[x], k * ClusterSlots}))
WriteNext(so, next, x, k) ==
    IF next.cluster = FREE THEN Written(FALSE, next.vol, so.cluster, so.size)
    ELSE WriteTo(next.vol, next.cluster, x, k)
WriteOn(so, x, k) ==
    IF so.ok THEN WriteNext(so, NextForWriting(so.vol, so.cluster), x, k) ELSE so

Writing(v, c, x) ==
    LET to[k \in Pieces(Sectors(Length[x]))] ==
            IF k = 1 THEN WriteTo(v, c, x, 1) ELSE WriteOn(to[k - 1], x, k)
    IN  to

FileWrite(v, c, x) == Writing(v, c, x)[Sectors(Length[x])]

\* FileRead of a whole file; an error when the chain is too short.
NextForReading(v, c) == IF c = EOF \/ v.table[c] = FREE THEN EOF ELSE v.table[c]

Reading(v, c, size) ==
    LET to[k \in Pieces(Sectors(size))] ==
            IF k = 1 THEN c ELSE NextForReading(v, to[k - 1])
    IN  to

PieceRead(v, run, i) ==
    v.cells[Area(run[(i + ClusterSlots - 1) \div ClusterSlots])][((i - 1) % ClusterSlots) + 1]
ReadAlong(v, run, size) ==
    IF EOF \in Range(run) THEN [ok |-> FALSE, data |-> <<>>]
    ELSE [ok |-> TRUE, data |-> [i \in Pieces(size) |-> PieceRead(v, run, i)]]

FileRead(v, c, size) == ReadAlong(v, Reading(v, c, size), size)

\* Mutant: the size is not written.
FileCloseMut(v, p, c, size) == Put(v, p, [At(v, p) EXCEPT !.cluster = c])

\* FileClose writes into whatever its slot holds by now.
FileClose(v, p, c, size) ==
    IF At(v, p).kind = "entry"
    THEN Put(v, p, [At(v, p) EXCEPT !.cluster = c, !.size = size])
    ELSE IF At(v, p).kind = "data" THEN Put(v, p, [At(v, p) EXCEPT !.piece = 0]) ELSE v

------------------------------------------------------------------------
(* The calls: what each answers and what it makes of the volume.           *)

Answer(ok, v) == [ok |-> ok, vol |-> v]

IsDirectory(f) == f.found /\ f.entry.dir

\* FileMakeDir: a first cluster, an entry in the parent, the references.
Dots(c, parent) ==
    [i \in 1 .. ClusterSlots |-> CASE i = 1 -> Entry(".", TRUE, c, 0)
                                   [] i = 2 -> Entry("..", TRUE, parent, 0)
                                   [] OTHER -> EndMark]
WithDots(add, c, parent) ==
    IF add.ok THEN Answer(TRUE, [add.vol EXCEPT !.cells[c] = Dots(c, parent)])
    ELSE Answer(FALSE, add.vol)
MkDirAt(new, n, parent) ==
    IF new.cluster = FREE THEN Answer(FALSE, new.vol)
    ELSE WithDots(AddEntry(Blank(new.vol, new.cluster), parent, Entry(n, TRUE, new.cluster, 0)),
                  new.cluster, parent)
MkDirIn(v, p, parent) ==
    IF IsDirectory(parent) THEN MkDirAt(LinkFree(v, FREE), Leaf(p), parent.entry.cluster)
    ELSE Answer(FALSE, v)
MkDir(v, p) ==
    IF EntryFromPath(v, p).found THEN Answer(FALSE, v) ELSE MkDirIn(v, p, Parent(v, p))

CdTo(v, dir) ==
    IF IsDirectory(dir) THEN Answer(TRUE, [v EXCEPT !.cwd = dir.entry.cluster]) ELSE Answer(FALSE, v)
Cd(v, p) == CdTo(v, EntryFromPath(v, p))

DeleteFound(v, f) == IF f.found THEN DeleteEntry(v, f) ELSE Answer(FALSE, v)
DeleteFile(v, p) == DeleteFound(v, EntryFromPath(v, p))

\* FileCreate: an old file of that name is deleted first.  The first cluster is
\* used as it comes, CLUSTER_FREE included.
Opened(pos, new) == [ok |-> TRUE, pos |-> pos, cluster |-> new.cluster, vol |-> new.vol]
WithCluster(add) ==
    IF add.ok THEN Opened(add.pos, LinkFree(add.vol, FREE)) ELSE Answer(FALSE, add.vol)
CreateIn(v, p, parent) ==
    IF IsDirectory(parent)
    THEN WithCluster(AddEntry(v, parent.entry.cluster, Entry(Leaf(p), FALSE, 0, 0)))
    ELSE Answer(FALSE, v)
CreateAfter(gone, p) ==
    IF gone.ok THEN CreateIn(gone.vol, p, Parent(gone.vol, p)) ELSE Answer(FALSE, gone.vol)
CreateInstead(v, p, old) ==
    IF IsDirectory(old) THEN Answer(FALSE, v)
    ELSE CreateAfter(IF old.found THEN DeleteEntry(v, old) ELSE Answer(TRUE, v), p)
FileCreate(v, p) == CreateInstead(v, p, EntryFromPath(v, p))

\* writefile: what could not be written in full is closed and deleted again.
Closed(file, w) == FileClose(w.vol, file.pos, file.cluster, w.size)
CloseWritten(file, p, w) ==
    IF w.ok THEN Answer(TRUE, Closed(file, w))
    ELSE Answer(FALSE, DeleteFile(Closed(file, w), p).vol)
WriteInto(file, p, x) ==
    IF file.ok THEN CloseWritten(file, p, FileWrite(file.vol, file.cluster, x))
    ELSE Answer(FALSE, file.vol)
WriteFile(v, p, x) == WriteInto(FileCreate(v, p), p, x)

Readable(f) == [ok |-> f.found /\ ~f.entry.dir, cluster |-> f.entry.cluster, size |-> f.entry.size]
FileOpenForRead(v, p) == Readable(EntryFromPath(v, p))

\* readfile.
ReadOpened(v, file) ==
    IF file.ok THEN FileRead(v, file.cluster, file.size) ELSE [ok |-> FALSE, data |-> <<>>]
ReadFile(v, p) == ReadOpened(v, FileOpenForRead(v, p))

TypeOf(f) == IF ~f.found THEN "none" ELSE IF f.entry.dir THEN "dir" ELSE "file"
GetType(v, p) == TypeOf(EntryFromPath(v, p))

FileExists(v, p) == EntryFromPath(v, p).found

GetFileSize(v, p) ==
    IF GetType(v, p) = "file" THEN EntryFromPath(v, p).entry.size ELSE -1

\* Listing a directory asks for its first entry and fails when there is none.
ListOf(v, dir) == IsDirectory(dir) /\ Entries(v, dir.entry.cluster) # {}
Dir(v, p) == ListOf(v, EntryFromPath(v, p))

\* What create makes: an empty root directory with the volume's label.
Created ==
    [table |-> Table!InitialTable, firstFree |-> Table!CLUSTER_FIRST, cwd |-> ROOT,
     cells |-> [a \in Areas |->
                    IF a = ROOT THEN [i \in 1 .. RootSlots |-> IF i = 1 THEN Label ELSE EndMark]
                    ELSE [i \in 1 .. ClusterSlots |-> Residue]]]

\* What a free cluster holds is forgotten: it may be any file's.
Forget(v) ==
    [v EXCEPT !.cells = [a \in DOMAIN @ |->
        IF a # ROOT /\ v.table[a] = FREE THEN [i \in 1 .. ClusterSlots |-> Residue] ELSE @[a]]]

\* Mutant: the hint is set to no cluster.
MountedMut(v) == [v EXCEPT !.firstFree = FREE, !.cwd = ROOT]

\* mount knows nothing of the hint and the current directory.
Mounted(v) == [v EXCEPT !.firstFree = Table!CLUSTER_FIRST, !.cwd = ROOT]

\* The names a new entry is asked for under are ordinary ones.
NewPaths == {p \in Paths : p.names # <<>> /\ Leaf(p) \in Names}

------------------------------------------------------------------------
(* What a sound volume is.                                                 *)

\* The files and directories under the root, each with its path, entry and the
\* slot of its entry, level by level.
Top == [path |-> <<>>, pos |-> <<ROOT, 0>>, entry |-> RootEntry]

NodeAt(v, d, p) == [path |-> Append(d.path, At(v, p).name), pos |-> p, entry |-> At(v, p)]
Within(v, d) ==
    {NodeAt(v, d, p) : p \in {q \in Entries(v, d.entry.cluster) :
                                At(v, q).kind = "entry" /\ ~IsDot(At(v, q))}}

Levels(v) ==
    LET level[k \in 0 .. PastEnd] ==
            IF k = 0 THEN {Top}
            ELSE UNION {Within(v, d) : d \in {n \in level[k - 1] : n.entry.dir}}
    IN  level

NodesOf(v) == UNION {Levels(v)[k] : k \in 0 .. PastEnd}

Clusters(v, c) == Table!Chain(v.table, c)

\* The clusters that a file of that size needs; every file has one.
Needed(size) == Max({1, Sectors(size)})

\* A directory's walk stays in its own clusters, it begins with the references
\* to itself and its parent, which are nowhere else, and nothing is behind its end
\* mark.
SoundSlots(v, n, parent, s) ==
    /\ {p[1] : p \in Range(s)} =
            IF n.path = <<>> THEN {ROOT} ELSE Clusters(v, n.entry.cluster)
    /\ n.path = <<>> => \A p \in Range(s) : ~IsDot(At(v, p))
    /\ n.path # <<>> =>
            /\ At(v, s[1]) = Entry(".", TRUE, n.entry.cluster, 0)
            /\ At(v, s[2]) = Entry("..", TRUE, parent, 0)
            /\ \A i \in 3 .. Len(s) : ~IsDot(At(v, s[i]))
    /\ \A p \in Range(s) : At(v, p).kind # "data"
    /\ \A i \in Marks(v, s), j \in DOMAIN s : j > i => j \in Marks(v, s)

SoundDirectory(v, n, parent) == SoundSlots(v, n, parent, Slots(v, n.entry.cluster))

SoundChains(v, nodes) ==
    LET listed == {n \in nodes : n.path # <<>>}
    IN  /\ \A n \in listed : /\ n.entry.cluster \in Cluster
                             /\ \A c \in Clusters(v, n.entry.cluster) : v.table[c] \in Cluster \cup {EOF}
                             /\ \E c \in Clusters(v, n.entry.cluster) : v.table[c] = EOF
        /\ \A n \in listed : ~n.entry.dir =>
                Cardinality(Clusters(v, n.entry.cluster)) = Needed(n.entry.size)
        /\ \A n, m \in listed : n # m =>
                Clusters(v, n.entry.cluster) \cap Clusters(v, m.entry.cluster) = {}

\* The nodes are all there are: none is deeper than the levels counted.
Sound(v, nodes) ==
    LET parent(n) == (CHOOSE m \in nodes : m.path = Front(n.path)).entry.cluster
    IN  /\ SoundChains(v, nodes)
        /\ \A n, m \in nodes : n.path = m.path => n = m
        /\ \A n \in nodes : n.entry.dir =>
                /\ Within(v, n) \subseteq nodes
                /\ SoundDirectory(v, n, IF n.path = <<>> THEN ROOT ELSE parent(n))
        /\ \E n \in nodes : n.entry.dir /\ n.entry.cluster = v.cwd

------------------------------------------------------------------------
(* The tree the image shows.                                               *)

Whole(x) == [i \in 1 .. Length[x] |-> Piece(x, i)]

\* What reading the file gives, "garbled" if that is nobody's contents.
Recognised(r) ==
    LET as == {x \in Contents : r.ok /\ r.data = Whole(x)}
    IN  IF as = {} THEN "garbled" ELSE CHOOSE x \in as : TRUE
ReadsAs(v, n) == Recognised(FileRead(v, n.entry.cluster, n.entry.size))

TreeOf(v, nodes) ==
    LET shown(n) == IF n.entry.dir THEN "dir" ELSE ReadsAs(v, n)
    IN  [p \in {n.path : n \in nodes} |-> shown(CHOOSE n \in nodes : n.path = p)]

Tree == INSTANCE FileTree

ShownAs(v, nodes) == IF Sound(v, nodes) THEN TreeOf(v, nodes) ELSE Tree!Broken
ShownBy(v) == ShownAs(v, NodesOf(v))

------------------------------------------------------------------------
(* The steps.                                                              *)

Init == vol = Created /\ tree = Tree!Empty

BecomesExactly(new) ==
    /\ vol' = new
    /\ tree' = IF new = vol THEN tree ELSE ShownBy(new)
Becomes(v) == BecomesExactly(Forget(v))

mkdir(p)        == Becomes(MkDir(vol, p).vol)
cd(p)           == Becomes(Cd(vol, p).vol)
writefile(p, x) == Becomes(WriteFile(vol, p, x).vol)
deletefile(p)   == Becomes(DeleteFile(vol, p).vol)
mount           == Becomes(Mounted(vol))

Call ==
    \/ \E p \in NewPaths : mkdir(p) \/ \E x \in Contents : writefile(p, x)
    \/ \E p \in Paths : cd(p) \/ deletefile(p)
    \/ mount

\* What calls make of a volume that is not sound any more is not followed.
Next == tree # Tree!Broken /\ Call

Spec == Init /\ [][Next]_fatfsVars

------------------------------------------------------------------------
(* Properties.                                                             *)

EntrySlot ==
    [kind : {"entry"}, name : Names \cup {".", ".."}, dir : BOOLEAN,
     cluster : Table!Entry, size : Nat]
Slot ==
    {EndMark, Free, Label, Residue} \cup EntrySlot
    \cup [kind : {"data"}, of : Contents, piece : Nat]

\* The values the volume ranges over; the hint is never more than one past the
\* last cluster, also after mount and after clusters were freed.
Volume ==
    [table : [Table!Entry -> Table!Value], firstFree : Table!CLUSTER_FIRST .. PastEnd,
     cwd : Table!Entry, cells : [Areas -> Seq(Slot)]]

SlotsOf(a) == IF a = ROOT THEN RootSlots ELSE ClusterSlots

TypeOK ==
    /\ vol \in Volume
    /\ \A a \in Areas : Len(vol.cells[a]) = SlotsOf(a)

\* Clusters marked used that no file or directory leads to.
Lost(v) ==
    {c \in Cluster : v.table[c] # FREE}
        \ UNION {IF n.path = <<>> THEN {} ELSE Clusters(v, n.entry.cluster) : n \in NodesOf(v)}

\* The chain that ends at the last cluster has been extended: the table does not
\* hold the link, and the cluster it got is nobody's.
ExtendedFromLast(v) == v.table[LastCluster] # FREE /\ Lost(v) # {}

\* On a full volume the hint has run past the table, and the entry there may have
\* been handed out, to a chain that is linked to it still when clusters have become
\* free again; or a file was given no cluster at all and was written over the
\* root directory.
FoundFull(v) ==
    \/ \E c \in Cluster : v.table[c] = PastEnd
    \/ /\ \A c \in Cluster : v.table[c] # FREE
       /\ \/ v.firstFree = PastEnd
          \/ \E i \in 1 .. RootSlots : v.cells[ROOT][i].kind = "data"

\* The current directory has been deleted, or a directory under the name ".",
\* which leaves its entry in the directory above.
DirectoryFreed(v) ==
    \/ v.cwd # ROOT /\ v.table[v.cwd] = FREE
    \/ \E n \in NodesOf(v) : n.entry.dir /\ n.entry.cluster \in Cluster
                             /\ v.table[n.entry.cluster] = FREE

Excused(v) == ExtendedFromLast(v) \/ FoundFull(v) \/ DirectoryFreed(v)

\* No sequence of calls makes a volume unsound: chains stay separate and as long
\* as the sizes say, every directory keeps to its clusters, its references and
\* its end mark, and the current directory is one.  The three ways in which the
\* code does break a volume are named.
SoundUnlessExcused == tree # Tree!Broken \/ Excused(vol)

\* As long as the volume is sound every call is a step of the tree: it changes
\* one node at most, and every other file reads back as it was written.
ImplementsFileTree == Tree!Spec

\* Where a path leads in the tree, from the current directory at cwd: ".." is
\* the parent and "." the directory itself, but the root has neither.
Nowhere == <<".">>

StepInTree(t, at, n) ==
    IF at \notin DOMAIN t \/ t[at] # "dir" THEN Nowhere
    ELSE IF n \notin {".", ".."} THEN Append(at, n)
    ELSE IF at = <<>> THEN Nowhere
    ELSE IF n = "." THEN at ELSE Front(at)

TreeTrail(t, cwd, p) ==
    LET to[i \in 0 .. Len(p.names)] ==
            IF i = 0 THEN IF p.abs THEN <<>> ELSE cwd
            ELSE StepInTree(t, to[i - 1], p.names[i])
    IN  to

Leads(t, cwd, p) ==
    LET end == TreeTrail(t, cwd, p)[Len(p.names)]
    IN  IF p.names = <<".">> /\ (p.abs \/ cwd = <<>>) THEN <<>>
        ELSE IF end \in DOMAIN t THEN end ELSE Nowhere

\* In a sound volume entryFromPath follows the tree: a path leads to the entry the
\* tree has for it, and to none where the tree has none.  The
\* references to the parent directory are right wherever a path goes.
PathsFollowTheTree ==
    tree # Tree!Broken =>
        LET nodes == NodesOf(vol)
            here == CHOOSE n \in nodes : n.entry.dir /\ n.entry.cluster = vol.cwd
        IN  \A p \in Paths :
                LET to == Leads(tree, here.path, p)
                    f == EntryFromPath(vol, p)
                IN  IF to = Nowhere THEN ~f.found
                    ELSE /\ f.found
                         /\ \E n \in nodes : /\ n.path = to /\ n.entry.dir = f.entry.dir
                                             /\ n.entry.cluster = f.entry.cluster

\* A call has met the end of the volume: it found the volume full, or has extended
\* a chain from the last cluster.
MetTheEnd(v) ==
    Excused(v) /\ ((\A c \in Cluster : v.table[c] # FREE) \/ ExtendedFromLast(v))

MkDirIsTrue(p, r) ==
    r.ok /\ ~MetTheEnd(r.vol) =>
        GetType(r.vol, p) = "dir" /\ Cd(r.vol, p).ok /\ Dir(r.vol, p)
WriteFileIsTrue(p, x, r) ==
    r.ok /\ ~MetTheEnd(r.vol) =>
        /\ ReadFile(r.vol, p) = [ok |-> TRUE, data |-> Whole(x)]
        /\ GetFileSize(r.vol, p) = Length[x]
DeleteFileIsTrue(p, r) == r.ok => IsRoot(vol, p) \/ ~FileExists(r.vol, p)

\* What a call on a sound volume reports as done is done, unless it has met the
\* volume's end: a directory that mkdir made is found as one, entered and listed,
\* and a file that writefile wrote has its size and reads back.  A call that has
\* met the end may report what is not so (AcceptedFileFits in FileIO), and nothing
\* is said of it.  What deletefile deleted is gone on any sound volume, but for
\* the root directory, which stays.
AnswersAreTrueWithRoom ==
    tree # Tree!Broken =>
        /\ \A p \in NewPaths : MkDirIsTrue(p, MkDir(vol, p))
        /\ \A p \in NewPaths, x \in Contents : WriteFileIsTrue(p, x, WriteFile(vol, p, x))
        /\ \A p \in Paths : DeleteFileIsTrue(p, DeleteFile(vol, p))
=============================================================================
