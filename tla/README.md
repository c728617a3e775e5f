# FAT tool: specification and verification

`fat_tool` creates, mounts and changes FAT12/16/32 images held in memory. Its
core is a library derived from libfat (`src/src/fat`), wrapped by a C++ class
(`src/src/fatfs.cpp`), a command line (`src/src/fat_tool.cpp`) and a Lua module.
This directory holds TLA+ specifications of that library, the TLC
configurations that check them, and proofs checked by TLAPS.

Everything runs on one thread. What makes the code hard is not interleaving
but long sequences of legal calls: the table of clusters, the directories and
the files' contents refer to each other by number, calls stop half-way when the
volume is full, and many loops end at a boundary (last cluster, last slot, last
sector) that a test seldom hits.

## 1. Inventory

| Component | State | Operations | Talks to | Hard part | Correct when |
|---|---|---|---|---|---|
| File allocation table, `file_allocation_table.c` | the table on the disc; `firstFree`, the hint where searching starts; `lastCluster` | `nextCluster`, `writeFatEntry`, `linkFreeCluster(Cleared)`, `clearLinks`, `lastCluster` | called by directories, file functions; reads and writes sectors | full volume, the table's last entry, the hint, freeing while following links | chains are disjoint, end, and are marked used; nothing leaks; calls return |
| FAT entry encoding, same file and `bit_ops.h` | none | pack and unpack 12, 16, 32 bit entries | table | FAT12 entries share bytes and straddle sectors | writing one entry changes no other; reading returns what was written |
| Directory, `directory.c` | slots of a directory; `cwdCluster` | `getFirstEntry`, `getNextEntry`, `entryFromPath`, `addEntry`, `removeEntry`, `chdir` | table (growth), file functions | gaps at the end mark, end of the chain, left-over long name slots, alias numbering | entries are found under their name; no call disturbs another entry; aliases differ |
| File functions, `file_functions.c` | `FILE_STRUCT`: position, size, start cluster | `FileCreate`, `FileWrite`, `FileClose`, `FileOpenForRead`, `FileRead`, `FileDelete`, `FileMakeDir`, `FileReadClusterchain` | table, directory, disc | full volume half-way, overwriting, positions on a boundary | what is read is what was written; failure leaves no trace |
| Format, `format.c` | writes boot sector, table, root directory | `formatFat` | disc | layout arithmetic, unsigned wrap, choice of FAT type | mount finds what format wrote |
| Partition, `partition.c` | `PARTITION`: geometry, type, hint, cwd | `recognize`, `mount`, `unmount` | boot sector | type from cluster count, rounding | agrees with format |
| Pass-through cache, `cache_dummy.c` (built) | none | partial sector read/write | disc | - | - |
| Write-back cache, `cache.c` (not built) | pages with sector, count, dirty | read/write partial sector, flush, invalidate | disc | eviction and failing discs, direct disc access beside it | reads return the last write |
| Ram disc, wrapper | the image | read/write sectors | memory | bounds check | stays inside the image |
| fatfs facade, `fatfs.cpp` | image, partition, ready flag | create, mount, mkdir, cd, dir, writefile, readfile, deletefile, ... | all of the above | failure after a part of the work | behaves as a tree of files |
| Command line, `fat_tool.cpp` | one `fatfs`; the image file | commands in order | `fatfs`, files of the host | stops at the first failure, except of `-delete` | what is saved is whole |
| Lua binding, file time, platform, build and tests | - | - | - | generated, pure or unused | - |

The hazards, each with the line where it bites and the property that watches
it, are listed in `PROJECT.json`.

## 2. Plan

Order of modules; those marked (done) exist.

1. (done) `FileAllocationTable` - the table's calls as steps, with
   `ClusterOwnership` as the abstract specification and
   `FileAllocationTable_proofs`.
2. (done) `FatLoops` - the same calls loop iteration by loop iteration, refining 1.
3. (done) `FatEntry` - the bytes of the table, refining the table as a function.
4. (done) `Directory`, `MCDirectory` - the slots of one directory; `ShortName`,
   `MCShortName` - what becomes of a name.
5. (done) `FileIO`, on top of 1 - `FileWrite`, `FileRead` over sectors and
   clusters, creating and deleting.
6. (done) `Fatfs`, `MCFatfs` - table, directories, current directory and contents
   together, from the path of a call to the clusters, refining `FileTree`.
7. (done) `FatTool`, `MCFatTool`, on top of 6 - the command line and the image
   file that outlives it.
8. (done) `WriteBackCache`, `MCWriteBackCache` - pages, eviction, flush,
   failing discs, refining `SectorMemory`.
9. (done) `VolumeGeometry`, `MCVolumeGeometry` - the arithmetic of `formatFat`
   and `mount` over a range of sizes.
10. (done) Proofs: the cache implements `SectorMemory`; the layout for every size
    of volume; the entries of `FatEntry` are independent for every size of sector;
    `FatLoops` implements `FileAllocationTable`; the invariants of `Directory` and
    of `ShortName`.
11. (done) Proofs: the invariants of `FileIO`, on top of those of 1.
12. (done) Proofs: `Fatfs` as a whole, walks, trails and levels included; its
    types, that paths follow the tree, that no call breaks the volume without an
    excuse, that every call is a step of the tree, and that calls answer truly
    until the volume's end is met.

## 3. Modules and code

### FileAllocationTable

| Specification | Code |
|---|---|
| `table` | what `nextCluster` reads for each entry, 0 to one past `lastCluster`; the media byte's entry and entry 1 read as end of chain |
| `firstFree` | `partition->fat.firstFree` |
| `heads` | start clusters written into directory entries by `FileCreate`, `FileMakeDir` |
| `orphans` | clusters handed out that nothing leads to (a record for the properties, not in the code) |
| `LinkFreeCluster`, `FindFree`, `LinkTo`, `MarkEnd` | `linkFreeCluster`, lines 211-263 |
| `ClearLinks`, `LoweredHint` | `clearLinks`, lines 300-323 |
| `AllocHead` | `linkFreeCluster(CLUSTER_FREE)` by `FileCreate` (`file_functions.c:180`), `FileMakeDir` (741) |
| `Extend(c)` | `linkFreeCluster(c)` by `FileWrite` and by the growth of a directory; with 0 also a cluster `FileMakeDir` abandons |
| `Release(h)` | `file_delete_direntry`, the table's part |
| `Remount` | `mount`, line 263 of `partition.c` |

mount rounds `lastCluster` down from the number of sectors, while the table
format writes has an entry after it. `writeFatEntry` refuses to write that
entry and `nextCluster` reads it, as free. The model therefore has entries up
to `PastEnd`. That the entry reads as free is an assumption about the image: it
holds of the images `formatFat` writes, and of an image made elsewhere if the
entry is unused.

`Chain(t, c)` is defined as the least set of clusters closed under links, not
by recursion, so that TLAPS can reason about it.

`FatLoops` adds a program counter and the locals of the running call. It shares
the four variables and refines `FileAllocationTable`: a search has taken effect
once it has found a cluster, an erasing loop once it has begun.

`ClusterOwnership` says what callers rely on: an owner has a set of clusters,
is granted clusters nobody owns, and loses them only by being deleted.

### FatEntry

| Specification | Code |
|---|---|
| `type` | `partition->filesysType` |
| `bytes` | the sectors of the table and the one behind it, as the cache shows them |
| `wrote` | the cluster and the value of the last `writeFatEntry` (a record for the properties) |
| `Place`, `NextByte` | the sector and offset of an entry, and the step into the next sector between the two bytes of a FAT12 entry |
| `ByteOf` | one byte of a number, as `bit_ops.h` writes it |
| `RawEntry`, `NextCluster` | `nextCluster`, lines 46-117 |
| `Refused`, `Shared`, `Whole`, `WriteFatEntry` | `writeFatEntry`: the check of the number, FAT12, FAT16 and FAT32 |
| `InitFat` | the first bytes of the table that format writes |

The other modules take the table for a function from numbers to values.
`EntriesAreIndependent` is the step of that function, with the operator
`WriteFatEntry` of `FileAllocationTable`.

### Directory

One directory: the root of a FAT12/16 volume (`"fixed"`, it cannot grow), the
root of a FAT32 volume (`"root32"`; format puts it in cluster 1, whose entry no
link is ever written to), or a subdirectory (`"sub"`).

| Specification | Code |
|---|---|
| `slots` | the 32 byte slots, in the order the chain of clusters gives; a slot is the end mark, freed, a volume label, a part of a long name, or an alias slot |
| `tailIsLast` | whether the directory's last cluster is `lastCluster`, after which no link is written |
| `files` | names whose entry has been completed (a record for the properties) |
| `cutOff` | whether `addEntry` has given up half-way through an entry because the directory ended (a record for the properties) |
| `Listing`, `EntryAt`, `LongNameStart` | `getFirstEntry`, `getNextEntry` |
| `Exists`, `Found` | `entryExists`, the inner loop of `entryFromPath` |
| `EntryGetAlias` | `entryGetAlias`, of aliases as `addEntry` puts them together |
| `RemoveEntry`, `RemoveSucceeds` | `removeEntry` |
| `FindEntryGap`, `Fits`, `WriteEntry`, `AliasFor`, `AddEntry` | `findEntryGap`, `addEntry` |
| `Closed` | `FileClose`: the start cluster and size are written where `addEntry` said the entry ends |
| `Lost` | `removeEntry`, the names whose slots it frees |
| `CreateNew`, `Replace` | `FileCreate` followed by `FileClose`, for a new and an existing name |
| `MakeDir`, `Delete` | `FileMakeDir`, `FileDelete` |

Abstractions: a long name is a model value with a number of slots and a list of
the aliases that are tried for it; the checksum in its slots stands for the alias it
it is computed from, so two different aliases never have the same checksum; names
are compared as they are (the code ignores case). An alias is not always read back
as it was tried: `entryGetAlias` stops at the first space of the extension, and
leaves out a dot nothing follows. `Cut` names the aliases this happens to, and
what is read instead; such an alias is tried as it was put together, is never found in the
directory and so always free. Short names have no spaces here; those that do are the
subject of `ShortName`. An entry is shorter than a
cluster, so one extension is enough for it; with 512 byte clusters and names of
more than 195 characters the code may need two. Deleting a directory that is
not empty changes nothing and is a stuttering step. Extension by the entry past
the table, which only happens on a volume that has been full, is left to `Fatfs`.

### ShortName

| Specification | Code |
|---|---|
| `dir` | the entries of one directory: base, extension, long name |
| `IsValidLfn`, `IsValidAlias` | the functions of that name |
| `Trimmed` | `addEntry`, the removal of spaces at the ends |
| `Named`, `ShortFields`, `Extension` | `addEntry`, the two fields of a short name |
| `EntryGetAlias`, `Listed`, `Filename` | `entryGetAlias`, `getNextEntry` |
| `Lookup`, `AlreadyThere`, `AddEntry` | `entryFromPath`, `entryExists`, `addEntry` |
| `FileCreate`, `FileMakeDir`, `FileDelete` | the functions of that name |

Here, and only here, a name is a sequence of characters, because the properties
are about the characters. There are five: a letter, the dot, the space, one no
name may have and one that makes a name long. The lengths 8 and 3 of the fields
are constants. `given` remembers what the caller asked for.

### FileIO

| Specification | Code |
|---|---|
| `data` | the bytes of each cluster, of the root directory (under 0) and of the sectors behind the last cluster (under `PastEnd`) |
| `files` | directory entries: state, start cluster, size |
| `w` | the open `FILE_STRUCT` (`start`, `size`, and `cluster` and `at` for `tPosition`), `ulDataLen`, `ulRemain`, `fAppend` |
| `pc` | the section of `FileWrite` that is next; `"refused"` and `"undo"` for `writefile` after a short write |
| `FileCreate`, `FileClose`, `FileDelete` | the functions of that name |
| `BeginWrite`, `MoveOn`, `Head`, `Fill`, `NextWritten`, `WholeCluster`, `Rest` | `FileWrite`, section by section |
| `CloseRefused`, `UndoWrite` | `writefile` when `FileWrite` has written less than asked for |
| `FileRead` | `FileOpenForRead` and `FileRead` of the whole file, as `readfile` does |

The table's variables and operators are those of `FileAllocationTable`. A byte
is the pair of a file and a position in it, so that a byte in the wrong place
is seen; a name is used once for the same reason. `writefile` writes a file by
one `FileWrite`; the model lets several calls follow each other, as the
interface allows. The bytes go through the pass-through cache or to the disc
directly, which is the same.

### Fatfs

`Fatfs` is the mounted FAT12 or FAT16 volume under the calls of the class
`fatfs`; one call is one step.

| Specification | Code |
|---|---|
| `vol.table`, `vol.firstFree` | as in `FileAllocationTable`, whose operators are used |
| `vol.cells` | what lies in the root directory (area 0) and in each cluster, in pieces of the size of a slot |
| `vol.cwd` | `partition->cwdCluster` |
| `tree` | the tree of files the volume shows (a record for the properties) |
| `Slots`, `StepOn`, `Entries`, `Lookup` | `incrementDirEntryPosition`, `getFirstEntry`, `getNextEntry`, the loop of `entryFromPath` |
| `IsRoot`, `Resolve`, `EntryFromPath`, `Parent` | `entryFromPath` and the callers that cut off the last name |
| `FindEntryGap`, `AddEntry`, `DeleteEntry` | `findEntryGap`, `addEntry`, `file_delete_direntry` with `removeEntry` |
| `FileWrite`, `FileRead`, `FileCreate`, `FileClose`, `FileOpenForRead` | the functions of that name, for a whole file |
| `MkDir`, `Cd`, `DeleteFile`, `WriteFile`, `ReadFile`, `GetType`, `FileExists`, `GetFileSize`, `Dir` | `fatfs.cpp` |
| `Created`, `Mounted` | what `create` and `mount` leave |

A volume is *sound* when its directories and files form a tree: chains are apart
and as long as sizes say, a directory's walk stays in its own clusters, `.` and
`..` are right and nowhere else, nothing lies behind an end mark, and the current
directory is one of them. `FileTree` is what the calls promise: each changes one node at
most. A volume that is not sound shows the tree `Broken`, which the abstract
specification allows at any time; when it may really happen is
`SoundUnlessExcused`, and the only excuses are

- `ExtendedFromLast`: a chain that ends in the last cluster has been extended,
  and the table does not hold the link (`file_allocation_table.c:254`);
- `FoundFull`: the volume is full, and the hint has run past the table or a
  file without a cluster was written over the root directory; or a chain is
  linked to the entry past the table, which it got when the volume was full;
- `DirectoryFreed`: the current directory has been deleted, or a directory
  under the name `.`.

What further calls make of a volume that broke is not followed: it would be
every state there is. For that reason deadlock is not checked in `fatfs`.

Abstractions: names are short names, so an entry is one slot (`Directory` has
longer ones); nothing is created under the names `.` and `..`; a cluster is one sector (`FileIO` has several); contents are
pieces, so that a piece out of place is seen. A piece of a file read as a slot
counts as an entry in use that nobody has a name for. What a free cluster holds is forgotten (`Forget`) and reads as
such a piece; the code leaves the old bytes, which may look like any of these. The
symmetry of the two names is sound: no operator tells them apart.

### FatTool

| Specification | Code |
|---|---|
| `state` | whether something is mounted (`fReady`), and how the tool has ended |
| `file` | the image file on the host |
| `unsaved`, `failed` | commands since the image was saved or loaded (bound); whether a call failed (a record for a property) |
| `excused`, `file.excused` | whether the image has met an excuse (a record for the properties) |
| `Create`, `Mount`, `SaveImage`, `MkdirCommand`, ..., `DeleteCommand` | the branches of `execute_commands` |
| `Unreadable`, `Unwritable`, `BadNumber`, `UnknownCommand`, `Refused` | the branches that end it with 1 |
| `TornImage` | `writeFile` that has emptied the file and cannot write it |
| `Start`, `Finished` | a call of the tool begins and ends |

The commands are the operators of `Fatfs`. The tool does not look at the image:
whatever is in memory is saved, an image that broke or has lost a cluster included,
and mounted again. `excused` remembers for the properties whether the image in
memory, or in the file, has met one of the excuses of `Fatfs` since it was created.
What commands on the volume make of one that broke is not followed, as in `Fatfs`.

### VolumeGeometry

| Specification | Code |
|---|---|
| `volume`, `disc` | block size and number of sectors given to `create`; what the ram disc's bounds check allows |
| `boot` | the fields of the boot sector |
| `part` | the fields of `PARTITION` |
| `FatType`, `Counted`, `Clusters`, `ClusterSizes`, `BootSector`, `Formattable` | `formatFat` |
| `Partition`, `MountedType`, `LastCluster` | `_FAT_partition_mount` |
| `Format`, `Mount`, `Load` | `fatfs::create`, its call of mount, and `fatfs::mount` of a saved image |

The loop that looks for the size of the table counts sectors up one by one;
`Counted` is the least number at which it stops. `initRootDir` counts whole entries in a
sector where the layout counts bytes, so in blocks that are no multiple of 32 it
erases a sector more (`RootDirWritten`, which decides whether the format succeeds)
than `RootDirEnd` counts; files come later, so nothing is lost. The loop over cluster sizes
tries powers of two in order; `SectorsPerCluster` is the least that is
accepted. A difference of unsigned numbers that would be negative is `Huge`:
what matters is that it exceeds every limit. `MCVolumeGeometry` names the sizes
that are checked.

### WriteBackCache

| Specification | Code |
|---|---|
| `pages` | `cacheEntries` and the bytes of each page |
| `disc` | the sectors of the disc |
| `answer` | what the last call returned |
| `GetSector`, `LeastUsed` | `_FAT_cache_getSector`, with every outcome a failing disc allows |
| `ReadPartialSector`, `WritePartialSector`, `EraseWritePartialSector`, `Flush`, `Invalidate` | the calls |

`SectorMemory` says what callers rely on: sectors that keep what was written
last, of which some are durable. A disc access that fails is taken to change
neither the disc nor the page, which is true of the ram disc: it checks its
bounds before it copies.

## 4. Runs

| Run | Checks | Result |
|---|---|---|
| `fat_safety` | 4 clusters, all calls: invariants, `IInv`, `ChainsKept`, refinement of `ClusterOwnership` | holds, 13,692 states |
| `fat_loops` | 3 clusters, all loops: refinement of `FileAllocationTable`, every call returns | holds, 34,438 states |
| `fat_entry` | entries of 12, 16 and 32 bits in sectors of four bytes: the bytes are the table as a function, nothing else is written | holds, 20,067 states |
| `dir_entries` | all directory calls on three kinds of directory, 5 to 12 slots, with an alias that reads back as a short name | holds, 67,915 states |
| `short_names` | 46 names, two at a time, created, overwritten and deleted | holds, 7,929 states |
| `file_io` | 3 clusters of two sectors of two bytes, 3 files, writes of 0, 1, 3 and 8 bytes | holds, 528,437 states |
| `fatfs` | 3 clusters of three slots, a root directory of four, two names, 11 paths: a sound tree, answers that are true while there is room, refinement of `FileTree` | holds, 17,662 states up to symmetry |
| `fat_tool` | the tool called again and again on one image file, every command and every failure: what is saved is whole, unless the volume's end was met | holds, 33,018 states up to symmetry |
| `geo_layout` | about 1,170 sizes of volume: create, mount, save, load | holds, 4,791 states |
| `cache_memory` | 2 pages, 3 sectors, every failure of the disc: refinement of `SectorMemory` | holds, 18,956 states up to symmetry |
| `file_fits` | `AcceptedFileFits` | violated |
| `names_alias` | `AliasFits` | violated |

A run that is violated shows a statement of a comment or a test that the code
does not keep; `PROJECT.json` quotes it under `findings`:

- `file_fits`: a file created when no cluster is left is written over the root
  directory, and `writefile` succeeds;
- `names_alias`: a name with nine characters before its dot passes for a short
  name, and is stored without the ninth and without its extension.

More such statements are written down beside these. They have no run of their
own; each is violated when it is put in place of the properties of the
configuration named:

| Property | Put into | What happens |
|---|---|---|
| `StartClusterIsAllocated` | `fat_safety` | the search leaves its hint past the table when the volume is full, and later hands out that number again and again without marking it (`file_allocation_table.c:205`: "gets the first available free cluster, sets it to end of file") |
| `ExtensionIsLinked` | `fat_safety` | a chain that ends in `lastCluster` is extended by a cluster it is not linked to (`file_allocation_table.c:206`: "links the input cluster to it") |
| `AliasesReadDistinct` | `dir_entries` | the alias of a long name with a space in its extension is looked up as it was put together, while `entryGetAlias` reads the stored ones up to that space: it is never found, so `longfilename.c d` and `longfilenumber.c d` both get `LONGF~01C D`, and `longf~01.c` is another name of either (`directory.c:801`: "Get a valid tail number") |
| `AddedEntryIsFound` | `dir_entries` | `addEntry` reports success for an entry whose slots did not fit (`directory.h:151`: "Returns true on success, false on failure") |
| `DataEndIsAlias` | `dir_entries` | a long name added where freed slots precede the end mark gets its start cluster and size written into one of its long name slots |
| `FailedRemovalKeepsEntry` | `dir_entries` | removing an entry in a directory's last slot removes it but reports failure, so overwriting that file deletes it and stops |
| `ShortEntryIsItsAlias` | `dir_entries` | left-over slots of an entry that was cut off become the long name of a later short entry (`directory.h:69`) |
| `RemovesOnlyTheEntry` | `dir_entries`, with `Cut <- MCUncut` | a long entry that was cut off leaves slots behind; a freed slot after them does not make the scan forget them, so they pass for the long name of the next entry, and are freed with it (`directory.h:141`: "Removes the directory entry specified by entry") |
| `RootDirHasItsCluster` | `geo_layout` | the root directory of a FAT32 volume lies in cluster 2, which a file is given |
| `BootSectorHasTheSize` | `geo_layout` | a FAT16 volume of 65,536 sectors or more is mounted with 65,536 sectors less (`format.h:51`: "16 bit total count of sectors") |
| `RestIsFat32` | `geo_layout` | a volume of 528 byte blocks just large enough to be formatted as FAT32 is mounted as FAT16 (`format.c:337`: "the rest is FAT32") |
| `EverySectorHasAnElement` | `geo_layout`, with `Volumes <- Rest512` | the table has an element for each sector, but two of its elements belong to none: when it is exactly full the last cluster has no element (`format.c:406`: "this sector takes up one more fat element") |
| `ElementPastLastIsInTable` | `geo_layout` | with blocks of 3584 bytes or more the root directory takes a single sector, and the table has no element for the number after the last cluster, which `nextCluster` reads when the volume is full (`format.c:406`) |
| `FlushLeavesNothingDirty` | `cache_memory` | `flush` reports success when the disc has refused a page (`cache.c:185`: "Flushes all dirty pages to disc, clearing the dirty flag") |
| `FlushClearsTheCache` | `cache_memory` | `flush` leaves the sectors in their pages (`cache.h:110`: "clear out the contents of the cache") |
| `ExitZeroMeansOk` | `fat_tool` | `-delete` ignores the answer of `deletefile`, so the tool ends with 0 although a command failed (`fat_tool.cpp:146`: "returns: 0=ok, >0=error") |

The models also show, without a statement to hold it against: deleting `/`, or
`.` in an empty root directory, answers true and frees the slot of the volume's label; `dir` of
a root directory without entries fails; a name with two leading spaces, `"  ab"`, is stored
as `abab`; `my file` is stored as a short name and reads back as `MY`; a name of
one character with an extension gets a long name.

The properties of the passing runs are true of the code with these flaws in
it. `FilesAreFound`, for one, speaks of entries whose alias slot is where the
caller was told; that this is not every entry is what `DataEndIsAlias` shows. It and `OthersKept`
speak of short names only once an entry has been cut off: from then on
long names may be lost with another entry, as `RemovesOnlyTheEntry` shows.
`AliasesDistinct` excepts the aliases that read back as others, which
`AliasesReadDistinct` shows to be given out again; `FilesAreFound` says of a short name
that it is the alias of one entry, not that nothing else is read as it.
`AnswersAreTrueWithRoom` says nothing of mkdir and writefile when the volume
they leave has met its end, full and found so or extended from its last cluster: on such
a volume `writefile` does answer true for a file that is not there, which is
`file_fits`. `FileLosesNothing` and `FilesAreWhole` except images that had met an excuse before
they were saved, for the same reason: the tool saves them all the same.
`ReadsBack` speaks of files whose chain stays in the volume, `SoundUnlessExcused`
names its three excuses, `PlainNamesAreFound` speaks of directories whose names
are all plain, and the layout properties of volumes that are FAT12 or FAT16 with
a size of 16 bits, which is what the tool's tests create.

### Bounds

*Table.* Four clusters (`LastCluster = 5`) give two chains of two, a chain through every
cluster, a full volume, the unlinked last cluster with clusters before and
after it in the search, and the entry past the table handed out. The proofs
cover every size. `FatLoops` has three clusters, enough for a wrap around that
ends before, at and after the start of the search.

*Directory.* Two short names, `L1` and `L2`, are also the aliases that are tried for
a long name of three slots, which may be a directory (`DirNames`): aliases collide, the
next one is taken, and they run out. The other long name, of two slots, is tried as
`L2 d` alone, which reads back as `L2`. Five root slots leave room for one entry too
few; six slots in a cluster and two clusters let an entry cross the boundary, be cut off
there before the directory grows, and be followed by another. The cases in the findings
all occur within these bounds. That two long names with the same such alias are
found side by side is left to the proofs, which are for any names.

*Names.* Every name of up to three characters out of letter, dot and space is
tried, so that dots and spaces stand in every position, and longer ones with one
character too few, as many as fit, and one too many before and after the dot. With
fields of two characters `aaa.a` is what `abcdefghi.x` is with eight. Two places let every pair
of names meet.

*Table entries.* With four bytes to a sector the FAT12 entries of clusters 2
and 5 lie in two sectors, one of either parity, and FAT32 entries fill a sector
each. The links that are written are 0xABC, 0xFF6 and 0x0FFFFFF6, those of them
the type has room for: they have different digits, and
the last two are the largest that are not an end mark; so an entry that keeps a
digit of its neighbour reads as something else.

*Paths.* Three clusters are two directories and a file, or a directory that has
grown and a file, or a file of two clusters; the fourth thing meets a full
volume, and what is freed is reused. Three slots of a cluster are `.`, `..` and
one entry, so that a second entry makes a directory grow; four root slots hold
the label, both names and the end mark. The paths are a name, a name under a name, `.` and
`..` alone and behind a name, and the root. A file of one piece needs one
cluster, one of four pieces needs two.

*Commands.* `MaxUnsaved` = 1: an image is saved after each command that changes
it, or thrown away, and the saved image is loaded by the next call of the tool; long sequences
are made of such calls. A failed call only matters in the command it fails in.
The root has three slots, which one name and the label fill, so that
adding an entry fails.

*File contents.* A cluster of two sectors of two bytes is the smallest in which
a position can be inside a sector, at a sector's and at a cluster's end. Writes
of 1, 3 and 8 bytes, up to three in a file of `MaxSize` = 9 bytes, pass through every
combination of the sections of `FileWrite`: 8 bytes behind 1 fill a sector, a
cluster and begin another. Three clusters are filled by two files, so the third
is refused, at once or half-way, before and after others are deleted.

*Layout.* The sizes lie around each limit of `formatFat` and `mount`: too small
for a root directory, one and two sectors to a cluster, FAT12 to FAT16 by
bytes, 65,535 sectors, FAT32 by bytes, and a table that is exactly full, each
for blocks of 512 bytes, the ordinary ones also for 528 to 4096, with 3584 and
its neighbours, where the root directory shrinks to one sector, and the smallest
volumes also for blocks of 600, which are no multiple of a directory entry.

*Cache.* Two pages and three sectors: once both pages are in use, a miss replaces one. A page's
usage count is bounded by `MaxCount` = 2, which is enough for the pages to be
used equally and differently often; two bytes to a sector tell a partial write
from an erasing one.

### Fairness

`FatLoops` and `FileIO` state liveness properties, `EveryCallReturns` under
`WF_loopVars(Step)` and `WriteReturns` under `WF_fileVars(WriteStep)`: a call
that has begun keeps running. The library has one thread and waits for nothing
(the disc is memory), so nothing can stop a call between two steps. That a call
begins is never assumed.

Deadlock is not checked in `file_io` and `file_fits`, where the names are used
up, in the layout run, where a volume that cannot be formatted stays so, and in
`fatfs`, where a volume that broke is not followed.

## 5. Proofs

A module of proofs is about one module (`Encoding_proofs` is about `FatEntry`
and `ShortName`, `TableLayers_proofs` about `FatLoops` and `FileIO`, and `Fatfs`
has two, `Fatfs_proofs` and `FatfsCalls_proofs`) and for all values of its constants that the
module's assumption allows. An inductive invariant was checked
by TLC on the module's run before it was proved.

### FileAllocationTable

`FileAllocationTable_proofs` proves for every `LastCluster` from 2 to
0x0FFFFFF5, the largest a FAT32 entry can name without reading as end of chain:

- `Invariant`: `IInv` is inductive and holds;
- `TypeCorrect`, `ChainsAreApart`, `ChainsEnd`, `ChainsAreUsed`,
  `SpaceIsAccountedFor`, `HintStaysInside`: the invariants of `fat_safety`;
- `NothingIsTakenAway`: `ChainsKept`;
- `TableImplementsOwnership`: the refinement of `ClusterOwnership`.

The only assumption is `LastClusterAssumption`.

`ChainsDisjoint` is not inductive: freeing a chain could free a cluster of
another chain that has wandered into it, and a link to a free cluster would
pick up whatever is put there next. `IInv` says that links are injective
(`NoCrossLink`), that no link leads to a free cluster (`NoDanglingLink`), that
nothing links to a start cluster (`RootsAreHeads`), and that every used cluster
is in some start cluster's chain (`NothingLeaks`). Then following links
backwards from a common cluster of two chains leads to a start cluster in both
directions, so there is none. A grant takes a free entry, which by
`NoDanglingLink` nothing links to; freeing a chain removes a set closed under
links, and by `NoCrossLink` leaves every other chain as it was.

### FileIO

For clusters and sectors of any size, tables of any size, any number of files
and calls of `FileWrite` of any length, in any number (`SizesAssumption`,
`LastClusterAssumption`):

- `FileInvariant`: `FileInv` is inductive;
- `FilesAreTyped`, `RefusedWritesReturnSpace`, `WritesFollowOneAnother`,
  `FilesReadBack`: the four invariants of `file_io`.

`ReadsBack` says nothing of a file that is being written, nor of what the next
section of `FileWrite` will find, so `FileInv` says more. With the invariant of
the table, it has: what each section may assume of the bytes that are left
(`Sections`: the position is at a sector's start wherever whole sectors are
written, and at a cluster's where whole clusters are); the start clusters of
the table are those of the files, no two alike; what has been written of each
file, the open one included, is where reading comes to (`Contents`); and the
writer is at the end of the chain, at the place on the path that its position
says, or in a cluster nothing leads to when the chain has reached the last
cluster (`WriterAtEnd`). The proof of a step is one of four arguments: a section
writes at and behind the position, in a cluster no other file's chain has
(`WritingAhead`); a grant changes the table at the end of the writer's chain
(`Advancing`); creating takes a cluster no chain has (`Creating`); freeing a chain
leaves the paths of the others (`Deleting`). Paths are followed by the least
number at which a claim about them would fail.

### FatLoops

- `LoopInvariant`: `LoopInv` is inductive;
- `LoopsImplementCalls`: the loops implement `FileAllocationTable`, the
  property `ImplementsCalls`.

`LoopInv` is the invariant of the calls in the state they are mapped to, which
comes from the module above through an instance, with what a loop has in hand
(`LoopFacts`): the search has passed only used entries since it began,
and the cluster it will link to is still held. Without the first, a search that
wraps around would not have found what `FindFree` says; without the second the
link could be written into a chain that is gone. The assumption is
`LastClusterAssumption`.

### FatEntry

The proofs are in `Encoding_proofs`. For sectors of any even size (a multiple of 4 with FAT32), any number of
clusters and any links that are no end marks (`EntryAssumption`):

- `EntriesInvariant`: the type is one of the three, every byte is a byte, and
  the bytes behind the table are as they were;
- `TableKeepsToItself`: `NothingElseIsWritten`;
- `BytesAreATable`: `EntriesAreIndependent`, so the bytes implement the table
  as the function the other modules use.

The bytes of the table are numbered through its sectors, so that an entry that
straddles two sectors is two consecutive numbers. Then the only shared bytes
are those of two neighbouring FAT12 entries, and the rest is the arithmetic of
their halves.

### VolumeGeometry

For blocks of 512 to 4096 bytes and up to 2^31 - 1 sectors (`VolumesAssumption`):

- `VolumeInvariant`: the boot sector is the one `formatFat` wrote, and what is
  mounted was read from it;
- `TypeCorrect`, `MountAgrees`, `ClustersFit`, `ElementsFit`: the four
  invariants of `geo_layout`;
- `ImagesLoad`: `LoadedAsSaved`.

An earlier form of `TableIsLargeEnough`, which holds on every size `geo_layout`
then had, could not be proved; the failed step gave the blocks of 3584 bytes
that violate it (`ElementPastLastIsInTable` above), and those sizes were added.

### ShortName

The proofs are in `Encoding_proofs`, like those of `FatEntry`. For any set of names, any number of places and fields of any length
(`NamesAssumption`; at least two characters before the dot, and neither the empty
name nor `.` is created):

- `NamesInvariant`: every entry is what `addEntry` makes of the name it was
  given, no plain name and no long name was added twice;
- `LongNamesDoNotMeet`: `LongNamesAreDistinct`;
- `PlainNamesComeBack`: `PlainNamesAreFound`.

`PlainNamesAreFound` is not inductive by itself: that a lookup answers with the
right entry needs that no other entry was given the same name.

### Directory

For any names, any number of slots of a root or of a cluster, and any number of
clusters (`NamesAssumption`; an entry is shorter than a cluster):

- `DirectoryInvariant`: `IInv` is inductive;
- `DirectoryTypes`, `NoAliasTwice`, `EndIsTheEnd`, `NamesAreFound`: the
  invariants of `dir_entries`;
- `NoOtherEntryGoes`: `OthersKept`.

`IInv` says that there is one place from which on everything is an end mark, that
aliases that read back as they were tried differ (`AliasesApart`), that the name of every file has its slots, and, as long as no entry has been cut
off, that every slot of a long name belongs to an entry behind it (`Whole`) and
that long names differ (`NamesApart`). Without `Whole` a short name put behind
left-over slots would take them for its long name. That is what
happens once an entry has been cut off: the attempt to prove the properties
without that condition failed there, and a second short name in `dir_entries`
showed TLC why (`RemovesOnlyTheEntry` above).

An alias that reads back as another is not found by `FreeTails`, so nothing keeps
it from being given out again, and `AliasesApart` does not speak of it. Long names are still
found alone: what is read of an alias is never a long name.

### Fatfs

For any names, contents and paths, clusters of any number of slots from two up, and
tables up to the largest a FAT32 entry can name (`ClusterAssumption`,
`SlotsAssumption`, `PathsAssumption`):

- `VolumeIsTyped`: `TypeOK`, of what every call leaves, the failing ones and
  those on a full volume included;
- `PathsLeadWhereTheTreeSays`: `PathsFollowTheTree`;
- `NoCallBreaksTheVolume`: `SoundUnlessExcused`;
- `CallsImplementTheTree`: `ImplementsFileTree`, the refinement of `FileTree`;
- `CallsAnswerTrulyWithRoom`: `AnswersAreTrueWithRoom`.

`Fatfs_proofs` has the recursions, the paths and how a tree lies in a volume;
`FatfsCalls_proofs` has the calls and what follows from them.

A call looks up a path, follows a chain and writes a file by recursion over data
of any length. `Walk`, `Trail`, `Writing`, `Reading` and `Levels` are recursive
functions; that such a function exists and what its values are is not taken from
a library theorem that has an operator for a parameter, but shown by the least
number at which it would fail (`RecursionExists`), and so is what
holds of all its values.

`PathsFollowTheTree` is shown along a path: at each name, what `Trail` has found
is the entry of the node to which `TreeTrail` has come, or neither has found
anything. The step for a name is that no two nodes have the same path, so the
first entry of that name is the only one; the step for `..` is that the
reference in the second slot has the cluster of the node one level up
(`SoundDirectory`), which is a directory as everything above a node is.

`SoundUnlessExcused` has to say what each call makes of the whole tree, in every
way it may fail. `Sound` is what the volume shows: sets of clusters, walks and
levels of nodes. A proof that follows a call wants what it is laid out as: every
node has a run, the sequence of its clusters; no two runs meet; a directory's
slots are those of its run, up to the end mark; and each entry's node lies one
level below (`Laid`). The two are the same on a volume of the right
types (`SoundIsIntact`, `IntactIsSound`). `Sound` had to be strengthened for it:
no entry behind the first two may be a reference, and a file's chain must have
its end mark; without these a volume that calls itself sound could be broken by
a call that meets none of the excuses. TLC checks the stronger formula in
`fatfs` and `fat_tool`.

On a volume so laid out:

- what is written in a cluster and slots that no node has leaves the nodes as
  they are (`FrameIntact`), and `Forget` does too (`ForgetIntact`);
- an entry that is added to a directory, with a chain of its own, adds a node;
  one that is taken away takes its node along, and the empty directory or file
  it was, with all its clusters;
- a grant extends a chain by a free cluster, unless the chain ends in the last
  cluster (`ExtendedFromLast`) or there is no free cluster, and then the hint
  has run past the table (`FoundFull`) (`LinkFreeIs`);
- `findEntryGap` finds a slot that is free, or the end mark, or lengthens the
  directory by a cluster, also one that was erased and became full halfway;
- a file is followed cluster by cluster: at each number of pieces written, the
  volume is the one before with a chain of that many clusters
  (`FileIsWritten`), also where the file was given no cluster, the entry past the table,
  or an entry in a directory that went on past the table;
- a file that does not fit is deleted again by its path, and deleting needs the
  path to lead to the entry again, in the volume as the failed write has left it.

Each call comes to one of a few outcomes (`MkDirIs`, `WriteFileIs`,
`DeleteFileIs`): the volume as it was, a directory more, a file more, a node
less, or one of the three excuses. It is not enough that an excuse holds at the
moment of a failure: it must hold of the volume that the call leaves, after a
failed file has been deleted again, so the excuses are followed to the end of
the call. And it is not enough that an excuse holds: for the refinement a volume
that has met one must either show the tree it is to show, as one does that has
only lost a cluster, or not be a sound volume at all (`Fallen`).

The outcomes are then put in terms of the tree (`MkDirYields`,
`WriteFileYields`, `DeleteFileYields`, together `CallYields` and `CallMoves`):
what is shown afterwards is the tree before with one node made, replaced or
removed, every other file reading as it did (`FilesKeep`), or nothing. That the
new file reads as the contents it was written with needs that no piece of it is
anybody else's (`WholeIsRecognised`). `CallsImplementTheTree` and
`NoCallBreaksTheVolume` are `CallMoves` read in two ways.

`CallsAnswerTrulyWithRoom` exempts mkdir and writefile on a volume that has met its
end, so each outcome that is no new node carries that the call failed or the
end was met (`Ended`): no other excuse, and no full volume as such, lets
a call answer falsely. It is about paths in the volume a call leaves, which need not be
sound: what mkdir and writefile have added is found by the path it was asked for
under (`NewLeaf`, `SameDirs`), and a path finds nothing after deletefile. For
the latter a deleted directory has to be walked too: its first cluster is
free, so its walk goes on through the root directory (`WalkFromFree`), where
there is no reference, and its names were none. So whatever any directory still finds
is what it found (`FreedFinds`, `LessenedFinds`), a path that still leads
anywhere leads to where it led (`PathShrinks`), and there the slot is free.

### WriteBackCache

For any number of pages, sectors and values (`CacheAssumption`):

- `CacheInvariant`: `IInv` is inductive;
- `SectorsAreHeldOnce`: `OnePagePerSector`;
- `CleanPagesAreOnDisc`: `CleanPagesMatchDisc`;
- `CacheImplementsMemory`: `ImplementsMemory`, the refinement of `SectorMemory`.

`IInv` is that no sector has two pages and a clean page has what the disc has.
Everything a call does to pages and disc is a change of pages or a
write-back, and each has a lemma that says what becomes of the sectors as they are read;
eviction, with all that may fail in it, changes none of them.

## 6. Only model-checked, not modelled

Only model-checked:

- `EveryCallReturns` and `WriteReturns`: liveness is out of the prover's reach;
- `FileLosesNothing` and `FilesAreWhole` of `FatTool`: nothing keeps them from
  being proved from the outcomes of the calls, but it has not been carried through.

Not modelled:

- `entryFromPosition` and `entryStat`, `FileCalculateMD5`, the table that
  `FileReadClusterchain` fills, and the file times: nothing in the program uses
  what they compute;
- the partition table of a master boot record: the images the tool makes begin
  with their boot sector, and a partition found through a table is mounted by
  the same code;
- `writeraw` into the volume, which puts any bytes anywhere;
- block sizes below 512 bytes, which make `formatFat` divide by zero, and odd
  ones, with which two clusters share a table entry (`VolumesAssumption`,
  `EntryAssumption`);
- the error handlers and the wording of messages;
- the Lua binding, which is generated from an interface description, and the
  platform's `strupr`;
- build files, scripts and tests.
