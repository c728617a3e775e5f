------------------------------ MODULE FileIO ------------------------------
(***************************************************************************)
(* The contents of files: FileCreate, FileWrite, FileClose, FileRead and   *)
(* FileDelete of src/src/fat/file_functions.c over the table of clusters,  *)
(* called as fatfs::writefile, readfile and deletefile call them.          *)
(*                                                                         *)
(* FileWrite is taken section by section, in the order of the code; the    *)
(* interface lets a file be written by several calls before it is closed.  *)
(* A position in a file is its cluster and the offset in that cluster,     *)
(* ulSector * bytesPerSector + ulByte; an offset of bytesPerCluster is the *)
(* position behind the cluster's last sector.                              *)
(*                                                                         *)
(* The files are those of one directory whose slots are outside the        *)
(* clusters modelled.  A name is used once, so that every byte says whose  *)
(* it is; writing over an existing name is deleting it and creating        *)
(* another.                                                                *)
(***************************************************************************)
EXTENDS FileAllocationTable

CONSTANTS
    BytesPerSector,     \* partition->bytesPerSector
    SectorsPerCluster,  \* partition->sectorsPerCluster
    Files,              \* names of files
    Lengths,            \* ulDataLen of a call of FileWrite
    MaxSize             \* bound on the size of a file

BytesPerCluster == BytesPerSector * SectorsPerCluster

ASSUME SizesAssumption ==
    /\ BytesPerSector \in Nat \ {0} /\ SectorsPerCluster \in Nat \ {0}
    /\ Lengths \subseteq Nat /\ MaxSize \in Nat

VARIABLES
    data,   \* the bytes of the clusters, and of the root directory under 0
    files,  \* the directory entries: state, start cluster and size
    pc,     \* where the writer is, or "closed"
    w       \* the open FILE_STRUCT and the locals of FileWrite

fileVars == <<vars, data, files, pc, w>>

Offset == 0 .. BytesPerCluster - 1

\* A byte of the image: what format left there, zero, or a file's byte.
Blank == <<"blank", 0>>
Root  == <<"root", 0>>
Zero  == <<"zero", 0>>
Byte  == {Blank, Root, Zero} \cup (Files \X (0 .. MaxSize - 1))

NoFile == [file |-> "none", start |-> 0, size |-> 0, cluster |-> 0, at |-> 0,
           len |-> 0, remain |-> 0, append |-> FALSE]

Listed == {f \in Files : files[f].state = "listed"}

------------------------------------------------------------------------
(* The disc.                                                               *)

\* clusterToSector sends the numbers below 2 to the root directory.
Area(c) == IF c < CLUSTER_FIRST THEN 0 ELSE c

Areas == {0} \cup (CLUSTER_FIRST .. PastEnd)

\* The bytes of file f from position p on, n of them, put at offset o of c.
Put(d, c, o, n, f, p) ==
    [d EXCEPT ![Area(c)] =
        [i \in Offset |-> IF i \in o .. o + n - 1 THEN <<f, p + i - o>> ELSE @[i]]]

\* The sector that holds offset o, set to zero.
Erase(d, c, o) ==
    [d EXCEPT ![Area(c)] =
        [i \in Offset |->
            IF i \div BytesPerSector = o \div BytesPerSector THEN Zero ELSE @[i]]]

------------------------------------------------------------------------
(* Reading.                                                                *)

\* The cluster reading moves on to, CLUSTER_EOF at the end of the chain.
After(t, c) ==
    IF c = CLUSTER_EOF \/ t[c] = CLUSTER_FREE THEN CLUSTER_EOF ELSE t[c]

\* The k-th cluster that reading from start comes to in table t.
Path(t, start) ==
    LET p[k \in 0 .. MaxSize] == IF k = 0 THEN start ELSE After(t, p[k - 1])
    IN  p

ClusterOf(start, i) == Path(table, start)[i \div BytesPerCluster]

\* readfile reads the whole file in one FileRead: an error if the chain is
\* shorter than the size in the directory entry.
FileRead(f) ==
    LET e == files[f]
        ok == \A i \in 0 .. e.size - 1 : ClusterOf(e.start, i) # CLUSTER_EOF
    IN  [ok |-> ok,
         bytes |-> IF ok
                   THEN [i \in 0 .. e.size - 1 |->
                            data[Area(ClusterOf(e.start, i))][i % BytesPerCluster]]
                   ELSE <<>>]

------------------------------------------------------------------------
(* Creating and writing.                                                   *)

FileInit ==
    /\ Init
    /\ data = [a \in Areas |-> [i \in Offset |-> IF a = 0 THEN Root ELSE Blank]]
    /\ files = [f \in Files |-> [state |-> "unused", start |-> 0, size |-> 0]]
    /\ pc = "closed"
    /\ w = NoFile

\* The first cluster is used as it comes, CLUSTER_FREE included.
FileCreate(f) ==
    /\ pc = "closed" /\ files[f].state = "unused"
    /\ AllocHead
    /\ LET start == LinkFreeCluster(table, firstFree, CLUSTER_FREE).ret
       IN  w' = [NoFile EXCEPT !.file = f, !.start = start, !.cluster = start]
    /\ files' = [files EXCEPT ![f].state = "writing"]
    /\ pc' = "open"
    /\ UNCHANGED data

BeginWrite(n) ==
    /\ pc = "open" /\ w.size + n <= MaxSize
    /\ w' = [w EXCEPT !.len = n, !.remain = n, !.append = n > w.size]
    /\ pc' = IF w.at >= BytesPerCluster THEN "move" ELSE "head"
    /\ UNCHANGED <<vars, data, files>>

\* The part of the call's data that has been written counts for the size,
\* also when the call stops short.
Counted(r, remain) ==
    [r EXCEPT !.size = @ + r.len - remain, !.len = 0, !.remain = 0, !.append = FALSE]

AtChainEnd == table[w.cluster] \in {CLUSTER_EOF, CLUSTER_FREE}

NextCluster ==
    IF AtChainEnd THEN LinkFreeCluster(table, firstFree, w.cluster).ret
                  ELSE table[w.cluster]

\* Mutant: when there is no cluster to be had the call tries again.
NoClusterMut == pc' = pc /\ w' = w

\* No cluster to be had: the call returns what it has written so far.  That is
\* all that was asked for when it was asked to write nothing.
NoCluster ==
    /\ pc' = IF w.remain = 0 THEN "open" ELSE "refused"
    /\ w' = Counted(w, w.remain)

\* The cluster after the present one, a new one at the end of the chain.
Advance(then) ==
    /\ IF AtChainEnd THEN Extend(w.cluster) ELSE UNCHANGED vars
    /\ IF NextCluster = CLUSTER_FREE
       THEN NoCluster
       ELSE pc' = then /\ w' = [w EXCEPT !.cluster = NextCluster, !.at = 0]
    /\ UNCHANGED <<data, files>>

MoveOn      == pc = "move" /\ Advance("head")
NextWritten == pc = "next" /\ Advance("whole")

\* The next n bytes of the call's data, written at offset o of the cluster.
Write(d, o, n) == Put(d, w.cluster, o, n, w.file, w.size + w.len - w.remain)

\* Mutants: the first piece is a whole sector wherever it starts; it fills the
\* sector although less is to be written.
HeadSizeMut == Min({BytesPerSector, w.remain})
HeadUnlimitedMut == BytesPerSector - (w.at % BytesPerSector)

HeadSize == Min({BytesPerSector - (w.at % BytesPerSector), w.remain})

\* Align to sector: a whole sector is left to the next section.
Head ==
    LET n == HeadSize
    IN  /\ pc = "head"
        /\ IF n < BytesPerSector
           THEN /\ data' = Write(data, w.at, n)
                /\ w' = [w EXCEPT !.at = @ + n, !.remain = @ - n]
           ELSE UNCHANGED <<data, w>>
        /\ pc' = "fill"
        /\ UNCHANGED <<vars, files>>

\* Align to cluster: the sectors that are left in the present cluster.
Fill ==
    LET room == BytesPerCluster - w.at
        n == IF w.remain > room THEN room ELSE w.remain - (w.remain % BytesPerSector)
    IN  /\ pc = "fill"
        /\ data' = Write(data, w.at, n)
        /\ w' = [w EXCEPT !.at = @ + n, !.remain = @ - n]
        /\ pc' = IF w'.at >= BytesPerCluster /\ w'.remain > 0 THEN "next" ELSE "whole"
        /\ UNCHANGED <<vars, files>>

\* Mutant: the position stays at the start of the last cluster.
AfterLastMut == 0

\* The next write is to begin with a new cluster.
AfterLast == BytesPerCluster

WholeCluster ==
    /\ pc = "whole" /\ w.remain >= BytesPerCluster
    /\ data' = Write(data, 0, BytesPerCluster)
    /\ w' = [w EXCEPT !.remain = @ - BytesPerCluster,
                      !.at = IF w.remain > BytesPerCluster THEN @ ELSE AfterLast]
    /\ pc' = IF w.remain > BytesPerCluster THEN "next" ELSE "whole"
    /\ UNCHANGED <<vars, files>>

\* The remaining sectors, from the cluster's first one, and the rest of the
\* last sector, which is erased when the call writes past the old size.
Rest ==
    LET tail == w.remain % BytesPerSector
        n == w.remain - tail
        at == w.at + n
        sectors == Write(data, 0, n)
        erased == IF w.append THEN Erase(sectors, w.cluster, at) ELSE sectors
    IN  /\ pc = "whole" /\ w.remain < BytesPerCluster
        /\ data' = IF tail = 0 THEN sectors
                   ELSE Put(erased, w.cluster, at, tail, w.file, w.size + w.len - tail)
        /\ w' = [Counted(w, 0) EXCEPT !.at = at + tail]
        /\ pc' = "open"
        /\ UNCHANGED <<vars, files>>

------------------------------------------------------------------------
(* Closing and deleting.                                                   *)

\* The entry is given its start cluster and size; when FileWrite has written
\* less than asked for, writefile closes the file all the same and deletes it.
Entered(f) ==
    files' = [files EXCEPT ![f] =
                [state |-> "listed", start |-> w.start, size |-> w.size]]

FileClose ==
    /\ pc = "open"
    /\ Entered(w.file)
    /\ pc' = "closed"
    /\ w' = NoFile
    /\ UNCHANGED <<vars, data>>

CloseRefused ==
    /\ pc = "refused"
    /\ Entered(w.file)
    /\ pc' = "undo"
    /\ UNCHANGED <<vars, data, w>>

StartClusters(listed) == {files[f].start : f \in listed} \ {CLUSTER_FREE}

\* Mutant: the chain is kept when the entry goes.
FreeChainMut(start) == UNCHANGED <<table, firstFree>>

\* A file without a first cluster has no chain.
FreeChain(start) ==
    /\ table' = ClearLinks(table, start)
    /\ firstFree' = LoweredHint(firstFree, start)

DeleteEntry(f) ==
    /\ FreeChain(files[f].start)
    /\ heads' = StartClusters(Listed \ {f})
    /\ files' = [files EXCEPT ![f] = [state |-> "deleted", start |-> 0, size |-> 0]]
    /\ UNCHANGED <<orphans, data>>

UndoWrite ==
    /\ pc = "undo"
    /\ DeleteEntry(w.file)
    /\ pc' = "closed"
    /\ w' = NoFile

FileDelete(f) ==
    /\ pc = "closed" /\ f \in Listed
    /\ DeleteEntry(f)
    /\ UNCHANGED <<pc, w>>

Call ==
    \/ \E f \in Files : FileCreate(f) \/ FileDelete(f)
    \/ \E n \in Lengths : BeginWrite(n)
    \/ FileClose

WriteStep ==
    \/ MoveOn \/ Head \/ Fill \/ NextWritten \/ WholeCluster \/ Rest
    \/ CloseRefused \/ UndoWrite

FileNext == Call \/ WriteStep

\* FileWrite and what writefile does after it run on until they return: there
\* is one thread and the disc is memory.  No call has to be made.
FileSpec == FileInit /\ [][FileNext]_fileVars /\ WF_fileVars(WriteStep)

------------------------------------------------------------------------
(* Properties.                                                             *)

\* The values the variables range over.
FileTypeOK ==
    /\ TypeOK
    /\ data \in [Areas -> [Offset -> Byte]]
    /\ files \in [Files -> [state : {"unused", "writing", "listed", "deleted"},
                             start : 0 .. PastEnd, size : 0 .. MaxSize]]
    /\ pc \in {"closed", "open", "move", "head", "fill", "next", "whole",
               "refused", "undo"}
    /\ w \in [file : Files \cup {"none"}, start : 0 .. PastEnd, size : 0 .. MaxSize,
              cluster : 0 .. PastEnd, at : 0 .. BytesPerCluster,
              len : Lengths \cup {0}, remain : 0 .. MaxSize, append : BOOLEAN]

\* The clusters reading f comes to are clusters of the volume: none is the root
\* directory or the entry past the table.
StaysInVolume(f) ==
    \A k \in 0 .. MaxSize :
        Path(table, files[f].start)[k] \in Cluster \cup {CLUSTER_EOF}

Written(f) == [i \in 0 .. files[f].size - 1 |-> <<f, i>>]

\* A file whose chain stays in the volume reads back as it was written,
\* whatever has been written, refused and deleted since: FileRead returns the
\* file's own bytes, or an error, never something else; and the error only for
\* a file that has grown beyond the volume's last cluster.
ReadsBack ==
    \A f \in Listed :
        StaysInVolume(f) =>
            LET r == FileRead(f)
            IN  IF r.ok THEN r.bytes = Written(f)
                ELSE LastCluster \in Chain(table, files[f].start)

\* When no file is open the clusters marked used are those of the listed files
\* and of abandoned extensions: a write that was refused half-way, closed and
\* deleted gives back what it had taken.
SpaceIsReturned ==
    pc = "closed" =>
        \A c \in Cluster :
            table[c] # CLUSTER_FREE =>
                \E r \in StartClusters(Listed) \cup orphans : c \in Chain(table, r)

\* Between two calls of FileWrite the position is where the size says, in the
\* cluster reading comes to after that many bytes: the next write goes behind
\* the last one.  A file that has grown beyond the last cluster is not in its
\* chain any more.
PositionFollowsSize ==
    (pc = "open" /\ w.start \in Cluster) =>
        \E k \in 0 .. MaxSize :
            /\ w.size = k * BytesPerCluster + w.at
            /\ Path(table, w.start)[k] = w.cluster \/ LastCluster \in Chain(table, w.start)

\* FileWrite returns, on a volume that fills up as well.
WriteReturns == pc \notin {"closed", "open"} ~> pc \in {"closed", "open"}

\* What the tests say of a file that does not fit into the free space, that
\* writefile fails: a listed file has the clusters its size asks for.
AcceptedFileFits ==
    pc = "closed" =>
        \A f \in Listed :
            files[f].size
                <= BytesPerCluster * Cardinality(Chain(table, files[f].start))
=============================================================================
