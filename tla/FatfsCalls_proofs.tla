------------------------- MODULE FatfsCalls_proofs -------------------------
(***************************************************************************)
(* What each call of Fatfs does to a sound volume, one whose nodes lie in  *)
(* runs of clusters (Fatfs_proofs).  A call is followed as one does on     *)
(* paper: room in a directory, an entry and its chain, clusters linked one *)
(* by one, and chains given back.  Every call either leaves a volume with  *)
(* its nodes laid out, as one step of the tree makes them, or has met one  *)
(* of the three excuses (CallMoves).                                       *)
(***************************************************************************)
EXTENDS Fatfs_proofs

------------------------------------------------------------------------
(* A directory is made.                                                    *)

\* The directory that a path's names but the last lead to.
AtParent(v, N, p, D) ==
    /\ D \in Dirs(N) /\ D.entry.cluster = Parent(v, p).entry.cluster
    /\ D.path = TreeTrail(TreeOf(v, N), Here(v).path, p)[Len(p.names) - 1]

LEMMA ParentIs ==
    ASSUME NEW v, Typed(v), NEW N, NEW R, Intact(v, N, R), NEW p \in NewPaths,
           IsDirectory(Parent(v, p))
    PROVE  \E D : AtParent(v, N, p, D)
<1>1. Navigable(v) /\ NodesOf(v) = N
  BY IntactIsSound
<1>2. p \in Paths /\ Len(p.names) \in Nat /\ Len(p.names) >= 1
  BY ParentTyped, PathFields
<1> DEFINE i == Len(p.names) - 1
<1>3. i \in 0 .. Len(p.names) /\ i < Len(p.names)
  BY <1>2
<1> HIDE DEF i
<1>4. Leading(v, Trail(v, p)[i], TreeTrail(TreeOf(v, NodesOf(v)), Here(v).path, p)[i], TRUE)
  <2>1. Leading(v, Trail(v, p)[i], TreeTrail(TreeOf(v, NodesOf(v)), Here(v).path, p)[i],
                i < Len(p.names) \/ i = 0)
    BY <1>1, <1>2, <1>3, TrailFollows
  <2>2. (i < Len(p.names) \/ i = 0) = TRUE
    BY <1>3
  <2> QED
    BY <2>1, <2>2
<1>5. Parent(v, p) = Trail(v, p)[i]
  BY DEF Parent, Resolve, i
<1>6. PICK m \in NodesOf(v) : /\ m.path = TreeTrail(TreeOf(v, NodesOf(v)), Here(v).path, p)[i]
                              /\ m.entry.dir = Parent(v, p).entry.dir
                              /\ m.entry.cluster = Parent(v, p).entry.cluster
  BY <1>4, <1>5 DEF Leading, IsDirectory
<1>7. m \in Dirs(N)
  BY <1>1, <1>6 DEF IsDirectory, Dirs
<1> QED
  BY <1>1, <1>6, <1>7 DEF AtParent, i

LEMMA OneClusterRun ==
    ASSUME NEW t, NEW c \in Cluster, t[c] = EOF
    PROVE  /\ IsRun(t, <<c>>) /\ Seg(t, <<c>>) /\ Members(<<c>>) = {c} /\ Len(<<c>>) = 1 /\ <<c>>[1] = c
           /\ LastOf(<<c>>) = c
           /\ \A q \in Position : q \in Spots(<<c>>) <=> q[1] = c
<1>1. /\ <<c>> \in Seq(Cluster) /\ Len(<<c>>) = 1 /\ <<c>>[1] = c /\ 1 .. 1 = {1} /\ 1 .. 0 = {}
  OBVIOUS
<1>2. EOF \notin Cluster
  BY Numbers
<1> DEFINE r == <<c>>
<1> HIDE DEF r
<1>3. r \in Seq(Cluster) /\ Len(r) = 1 /\ r[1] = c
  BY <1>1 DEF r
<1>4. Members(r) = {c}
  BY <1>1, <1>3 DEF Members
<1>5. \A k \in 1 .. Len(r) - 1 : FALSE
  BY <1>3
<1>6. Seg(t, r)
  BY <1>2, <1>3, <1>5 DEF Seg
<1>7. \A q \in Position : q \in Spots(r) <=> q[1] = c
  BY <1>1, <1>3 DEF Spots, SpotsTo
<1>8. IsRun(t, r) /\ LastOf(r) = c
  BY <1>3, <1>6 DEF IsRun, LastOf
<1> QED
  BY <1>3, <1>4, <1>6, <1>7, <1>8 DEF r

\* A new directory has nothing but its references.
LEMMA DotsAreNeat ==
    ASSUME NEW w, NEW c \in Cluster, w.table[c] = EOF, NEW up, w.cells[c] = Dots(c, up),
           NEW y, y.entry.cluster = c, y # Top
    PROVE  Neat(w, y, up, <<c>>) /\ NamedSpots(w, <<c>>) = {}
<1> DEFINE r == <<c>>
<1>1. IsRun(w.table, r) /\ r[1] = c /\ \A q \in Position : q \in Spots(r) <=> q[1] = c
  BY OneClusterRun
<1>2. Members(r) = {c} /\ Len(r) = 1
  BY OneClusterRun
<1>3. c # ROOT /\ SlotsOf(c) = ClusterSlots /\ ClusterSlots \in Nat /\ ClusterSlots >= 2
  BY Numbers DEF SlotsOf
<1> HIDE DEF r
<1>4. \A i \in 1 .. ClusterSlots : w.cells[c][i] = IF i = 1 THEN Entry(".", TRUE, c, 0)
                                                  ELSE IF i = 2 THEN Entry("..", TRUE, up, 0)
                                                  ELSE EndMark
  <2>1. ASSUME NEW i \in 1 .. ClusterSlots
        PROVE  Dots(c, up)[i] = IF i = 1 THEN Entry(".", TRUE, c, 0)
                                ELSE IF i = 2 THEN Entry("..", TRUE, up, 0) ELSE EndMark
    <3>1. Dots(c, up)[i] = CASE i = 1 -> Entry(".", TRUE, c, 0)
                             [] i = 2 -> Entry("..", TRUE, up, 0)
                             [] OTHER -> EndMark
      BY Zenon DEF Dots
    <3>2. CASE i = 1
      BY <3>1, <3>2
    <3>3. CASE i = 2
      BY <3>1, <3>3
    <3>4. CASE i # 1 /\ i # 2
      BY <3>1, <3>4
    <3> QED
      BY <3>2, <3>3, <3>4
  <2> QED
    BY <2>1
<1>5. ASSUME NEW q \in Spots(r)
      PROVE  /\ q \in Position /\ q[1] = c /\ q = <<c, q[2]>> /\ q[2] \in 1 .. ClusterSlots
             /\ At(w, q) = IF q[2] = 1 THEN Entry(".", TRUE, c, 0)
                           ELSE IF q[2] = 2 THEN Entry("..", TRUE, up, 0) ELSE EndMark
  <2>1. q \in Position
    BY SpotArea
  <2>2. q[1] = c /\ q[2] \in 1 .. ClusterSlots /\ q = <<q[1], q[2]>>
    BY <2>1, <1>1, <1>3, PositionFields
  <2> QED
    BY <2>1, <2>2, <1>4 DEF At
<1>6. \A q \in Spots(r) : At(w, q) = EndMark <=> q[2] # 1 /\ q[2] # 2
  BY <1>5 DEF Entry, EndMark
<1>7. \A q \in Spots(r) : At(w, q).kind # "data" /\ (IsDot(At(w, q)) <=> q[2] = 1 \/ q[2] = 2)
  BY <1>5 DEF Entry, EndMark, IsDot
<1>8. ASSUME NEW q \in Spots(r), NEW s \in Spots(r), Before(r, q, s), At(w, q) = EndMark
      PROVE  At(w, s) = EndMark
  <2>1. q[2] < s[2]
    <3>1. PICK k \in 1 .. Len(r), m \in 1 .. Len(r) : k < m \/ (k = m /\ q[2] < s[2])
      BY <1>8 DEF Before
    <3>2. k = 1 /\ m = 1
      BY <1>2
    <3> QED
      BY <3>1, <3>2
  <2>2. q[2] > 2 /\ q[2] \in Nat /\ s[2] \in Nat
    <3>1. q[2] \in 1 .. ClusterSlots /\ s[2] \in 1 .. ClusterSlots
      BY <1>5
    <3>2. q[2] # 1 /\ q[2] # 2
      BY <1>6, <1>8
    <3> QED
      BY <3>1, <3>2, <1>3
  <2>3. s[2] # 1 /\ s[2] # 2
    BY <2>1, <2>2
  <2> QED
    BY <2>3, <1>6
<1>9. /\ <<r[1], 1>> \in Spots(r) /\ <<r[1], 2>> \in Spots(r)
  BY <1>1, FirstSpots
<1>10. /\ At(w, <<r[1], 1>>) = Entry(".", TRUE, c, 0)
       /\ At(w, <<r[1], 2>>) = Entry("..", TRUE, up, 0)
  <2>1. <<r[1], 1>>[2] = 1 /\ <<r[1], 2>>[2] = 2
    OBVIOUS
  <2>2. At(w, <<r[1], 1>>) = Entry(".", TRUE, c, 0)
    BY <1>5, <1>9, <2>1
  <2>3. At(w, <<r[1], 2>>) = Entry("..", TRUE, up, 0)
    <3>1. <<r[1], 2>>[2] # 1
      BY <2>1
    <3> QED
      BY <1>5, <1>9, <2>1, <3>1
  <2> QED
    BY <2>2, <2>3
<1>11. \A q \in Spots(r) : IsDot(At(w, q)) => q \in {<<r[1], 1>>, <<r[1], 2>>}
  BY <1>1, <1>5, <1>7
<1>12. Neat(w, y, up, r)
  BY <1>1, <1>3, <1>7, <1>8, <1>10, <1>11 DEF Neat
<1>13. NamedSpots(w, r) = {}
  <2>1. ASSUME NEW q \in NamedSpots(w, r)
        PROVE  FALSE
    <3>1. q \in Spots(r) /\ At(w, q).kind = "entry" /\ ~IsDot(At(w, q))
      BY DEF NamedSpots, EntrySpots
    <3>2. At(w, q) = EndMark
      BY <3>1, <1>6, <1>7
    <3> QED
      BY <3>1, <3>2 DEF EndMark
  <2> QED
    BY <2>1
<1> QED
  BY <1>12, <1>13 DEF r

\* Clusters in use that belong to no node are lost.
LEMMA LostIs ==
    ASSUME NEW v, Typed(v), NEW N, NEW R, Laid(v, N, R), DOMAIN R = N,
           NEW c \in Cluster, c \notin Held(R), v.table[c] # FREE
    PROVE  c \in Lost(v)
<1> DEFINE of(n) == IF n.path = <<>> THEN {} ELSE Clusters(v, n.entry.cluster)
<1>1. NodesOf(v) = N /\ \A n \in N : n.path = <<>> <=> n = Top
  <2>1. NodesOf(v) = N
    BY LaidNodes
  <2>2. PathsApart(N)
    BY DEF Laid
  <2> QED
    BY <2>1, <2>2, PathFacts
<1>2. ASSUME NEW n \in N
      PROVE  c \notin of(n)
  <2>1. CASE n = Top
    BY <2>1, <1>1
  <2>2. CASE n # Top
    <3>1. Clusters(v, n.entry.cluster) = Members(R[n]) /\ Members(R[n]) \subseteq Held(R)
      BY <2>2, RunOf, HeldAre
    <3> QED
      BY <3>1
  <2> QED
    BY <2>1, <2>2
<1>3. Lost(v) = {d \in Cluster : v.table[d] # FREE} \ UNION {of(n) : n \in NodesOf(v)}
  BY DEF Lost
<1> HIDE DEF of
<1> QED
  BY <1>1, <1>2, <1>3

\* The slots of a directory that has been settled, and the cluster it has for its
\* new entry.
SettledFor(v, u, N, R, Q, D, p, e) ==
    /\ Typed(v) /\ Intact(v, N, R) /\ D \in Dirs(N)
    /\ Typed(u) /\ u.cwd = v.cwd /\ Settled(v, u, N, R, Q, D, p)
    /\ e \in EntrySlot /\ e.name \in Names /\ NoNode(N, D, e)

\* The entry is written at p, and something in c, which is nobody's.
EntryWritten(u, w, p, e, c) ==
    /\ Typed(w) /\ w.table = u.table /\ w.cwd = u.cwd
    /\ \A a \in Areas : a # p[1] /\ a # c => w.cells[a] = u.cells[a]
    /\ p[1] # c => At(w, p) = e /\ \A q \in Position : q[1] # c /\ q # p => At(w, q) = At(u, q)

LEMMA FilesUnmoved ==
    ASSUME NEW v, NEW u, NEW N, NEW R, NEW Q, NEW D, NEW p, NEW e,
           SettledFor(v, u, N, R, Q, D, p, e),
           NEW w, NEW c, c \notin Held(Q), EntryWritten(u, w, p, e, c)
    PROVE  FilesKeep(v, w, N)
<1>1. /\ Laid(u, N, Q) /\ Typed(u) /\ DOMAIN Q = N /\ D \in Dirs(N) /\ D \in DOMAIN Q
      /\ \A n \in N : ~n.entry.dir => Q[n] = R[n] /\ Same(v, u, Members(R[n]))
  <2>1. DOMAIN Q = N /\ \A n \in N : ~n.entry.dir => Q[n] = R[n] /\ Same(v, u, Members(R[n]))
    BY SettledSized DEF SettledFor
  <2> QED
    BY <2>1 DEF SettledFor, Settled, Dirs
<1>2. ASSUME NEW n \in N, ~n.entry.dir
      PROVE  Same(v, w, Members(R[n]))
  <2>1. Q[n] = R[n] /\ Same(v, u, Members(Q[n])) /\ n # D
    BY <1>1, <1>2 DEF Dirs
  <2>2. ASSUME NEW a \in Members(Q[n])
        PROVE  w.table[a] = u.table[a] /\ w.cells[a] = u.cells[a]
    <3>1. a \in Held(Q)
      BY <1>1, HeldAre
    <3>2. a \in Areas /\ a # c
      BY <1>1, <3>1, HeldIsUsed
    <3>3. a # p[1]
      <4>1. CASE Open(u, Q[D], p)
        <5>1. p[1] \in Members(Q[D])
          BY <4>1, SpotArea DEF Open
        <5>2. Members(Q[n]) \cap Members(Q[D]) = {}
          BY <1>1, <2>1 DEF Laid, RunsApart
        <5> QED
          BY <5>1, <5>2
      <4>2. CASE Unseen(u, Q, p)
        BY <4>2, <3>1 DEF Unseen
      <4> QED
        BY <4>1, <4>2 DEF SettledFor, Settled
    <3> QED
      BY <3>2, <3>3 DEF EntryWritten
  <2> QED
    BY <2>1, <2>2 DEF Same
<1>3. Intact(v, N, R)
  BY DEF SettledFor
<1> QED
  BY <1>2, <1>3, KeptFiles

\* An entry in a cluster that no link leads to is not seen.
LEMMA UnseenEntry ==
    ASSUME NEW v, NEW u, NEW N, NEW R, NEW Q, NEW D, NEW p, NEW e,
           SettledFor(v, u, N, R, Q, D, p, e), Unseen(u, Q, p),
           NEW w, NEW c, c \notin Held(Q), EntryWritten(u, w, p, e, c)
    PROVE  Intact(w, N, Q)
<1>1. Laid(u, N, Q) /\ Typed(u) /\ DOMAIN Q = N /\ Sized(N, Q) /\ u.cwd = v.cwd
  <2>1. DOMAIN Q = N /\ Sized(N, Q)
    BY SettledSized DEF SettledFor
  <2> QED
    BY <2>1 DEF SettledFor, Settled
<1>2. Stands(u, N)
  BY <1>1 DEF SettledFor, Intact, Stands
<1>3. Intact(u, N, Q)
  BY <1>1, <1>2 DEF Intact
<1>4. \A a \in Held(Q) : a \in Areas /\ a # c /\ a # p[1]
  BY <1>1, HeldIsUsed DEF Unseen
<1>5. Same(u, w, Held(Q)) /\ w.cwd = u.cwd
  BY <1>4 DEF EntryWritten, Same
<1> QED
  BY <1>3, <1>5, FrameIntact

\* With an entry and its references a cluster is a directory.
LEMMA DirIsMade ==
    ASSUME NEW v, NEW u, NEW N, NEW R, NEW Q, NEW D, NEW p, NEW e,
           SettledFor(v, u, N, R, Q, D, p, e), Open(u, Q[D], p), e.dir,
           NEW w, e.cluster \in Cluster, e.cluster \notin Held(Q), u.table[e.cluster] = EOF,
           EntryWritten(u, w, p, e, e.cluster),
           w.cells[e.cluster] = Dots(e.cluster, D.entry.cluster)
    PROVE  \E P : Intact(w, N \cup {NewNode(D, p, e)}, P)
<1> DEFINE y == NewNode(D, p, e)
           c == e.cluster
           P == [n \in N \cup {y} |-> IF n = y THEN <<c>> ELSE Q[n]]
<1>1. /\ Laid(u, N, Q) /\ Typed(u) /\ DOMAIN Q = N /\ Sized(N, Q) /\ u.cwd = v.cwd
      /\ D \in Dirs(N) /\ D \in DOMAIN Q /\ Stands(v, N)
  <2>1. DOMAIN Q = N /\ Sized(N, Q)
    BY SettledSized DEF SettledFor
  <2> QED
    BY <2>1 DEF SettledFor, Settled, Dirs, Intact
<1>2. RoomFor(u, N, Q, D, p, e)
  BY <1>1, RoomIs DEF SettledFor
<1>3. y \in NodeSet /\ y # Top /\ \A n \in N : n.path # y.path
  BY <1>1, <1>2, NewNodeIs
<1>4. y \notin N /\ y.entry = e
  BY <1>3 DEF NewNode
<1>5. p[1] # c /\ p[1] \in Held(Q) /\ p \in Position
  <2>1. p[1] \in Members(Q[D]) /\ p \in Position
    BY SpotArea DEF Open
  <2> QED
    BY <2>1, <1>1, HeldAre
<1>6. \A a \in Held(Q) : a \in Areas /\ a # c
  BY <1>1, HeldIsUsed
<1>7. SameBut(u, w, Held(Q), p) /\ At(w, p) = e
  BY <1>5, <1>6 DEF SameBut, EntryWritten
<1> HIDE DEF y
<1>8. DOMAIN P = N \cup {y} /\ P[y] = <<c>> /\ \A n \in N : P[n] = Q[n]
  BY <1>4
<1> HIDE DEF P
<1>9. Extends(P, Q, y)
  BY <1>1, <1>8 DEF Extends
<1>10. w.table[c] = EOF
  BY DEF EntryWritten
<1>11. Neat(w, y, D.entry.cluster, <<c>>) /\ NamedSpots(w, <<c>>) = {}
  BY <1>3, <1>4, <1>10, DotsAreNeat
<1>12. IsRun(w.table, <<c>>) /\ Members(<<c>>) = {c} /\ <<c>>[1] = c
  BY <1>10, OneClusterRun
<1>13. c # ROOT
  BY Numbers
<1>14. Fresh(w, Q, P, D, y)
  BY <1>4, <1>8, <1>11, <1>12, <1>13 DEF Fresh
<1>15. Laid(w, N \cup {y}, P)
  BY <1>1, <1>2, <1>7, <1>9, <1>14, AddNode DEF y
<1>16. Sized(N \cup {y}, P)
  BY <1>1, <1>4, <1>8 DEF Sized
<1>17. Stands(w, N \cup {y})
  BY <1>1 DEF Stands, Dirs, EntryWritten
<1>18. Intact(w, N \cup {y}, P)
  BY <1>8, <1>15, <1>16, <1>17 DEF Intact
<1> QED
  BY <1>18 DEF y

Kept(v, N, w) == \E Q : Intact(w, N, Q) /\ FilesKeep(v, w, N)

\* There is a directory at p that was not there before.
Made(v, N, p, w, D, y) ==
    /\ AtParent(v, N, p, D) /\ y.path = Append(D.path, Leaf(p)) /\ y.entry.dir
    /\ \A n \in N : n.path # y.path
    /\ FilesKeep(v, w, N) /\ \E P : Intact(w, N \cup {y}, P)
    /\ w.cwd = v.cwd

\* An answer that is true only as far as the volume's end was not met.
Ended(r) == r.ok => MetTheEnd(r.vol)

MkDirOutcome(v, N, p, r) ==
    /\ Typed(r.vol)
    /\ \/ Kept(v, N, r.vol) /\ Ended(r)
       \/ r.ok /\ \E D, y : Made(v, N, p, r.vol, D, y)
       \/ Broke(r.vol) /\ Ended(r)

\* A volume that is the same to its nodes.
LEMMA SameKept ==
    ASSUME NEW v, NEW w, NEW N, NEW R, Intact(v, N, R), Same(v, w, Held(R)), w.cwd = v.cwd
    PROVE  Kept(v, N, w)
<1>1. Intact(w, N, R)
  BY FrameIntact
<1>2. \A n \in N : ~n.entry.dir => Same(v, w, Members(R[n]))
  <2>1. \A n \in N : Members(R[n]) \subseteq Held(R)
    BY HeldAre DEF Intact
  <2> QED
    BY <2>1 DEF Same
<1>3. FilesKeep(v, w, N)
  BY <1>2, KeptFiles
<1> QED
  BY <1>1, <1>3 DEF Kept

\* A link out of the table, or a table and a hint that are used up.
LEMMA SpentIsFull ==
    ASSUME NEW v, Spent(v)
    PROVE  FoundFull(v)
  BY DEF Spent, FoundFull, Full

LEMMA SpentMeets ==
    ASSUME NEW w, Spent(w)
    PROVE  MetTheEnd(w)
<1>1. FoundFull(w) /\ Full(w)
  BY SpentIsFull DEF Spent
<1> QED
  BY <1>1 DEF MetTheEnd, Excused, Full

LEMMA ExtendedMeets ==
    ASSUME NEW w, ExtendedFromLast(w)
    PROVE  MetTheEnd(w)
  BY DEF MetTheEnd, Excused

LEMMA LinkedPastIsFull ==
    ASSUME NEW v, Typed(v), NEW N, NEW R, Laid(v, N, R), NEW D \in Dirs(N), NEW p,
           NEW u, LinkedPast(v, u, R, D, p), NEW w, w.table = u.table
    PROVE  FoundFull(w) /\ LastOf(R[D]) \in Cluster /\ w.table[LastOf(R[D])] = PastEnd
<1>1. D # Top /\ D \in DOMAIN R
  BY RunOfDir DEF LinkedPast
<1>2. Seg(v.table, R[D])
  BY <1>1, RunOf
<1>3. LastOf(R[D]) \in Cluster
  BY <1>2, SegFields DEF LastOf
<1>4. LastOf(R[D]) \in Table!Entry
  BY <1>3, Numbers
<1>5. w.table[LastOf(R[D])] = PastEnd
  BY <1>4, VolumeFields DEF LinkedPast
<1> QED
  BY <1>3, <1>5 DEF FoundFull

\* A directory that is linked to the entry past the table is none any more.
LinkedOut(v, R, D, p, w) ==
    /\ w.table = [v.table EXCEPT ![LastOf(R[D])] = PastEnd]
    /\ p[1] \in {PastEnd, LastOf(R[D])}
    /\ \A q \in Position : q[1] \in Held(R) /\ q # p => At(w, q) = At(v, q)

LEMMA LinkedOutBreaks ==
    ASSUME NEW v, Typed(v), NEW N, NEW R, Laid(v, N, R), NEW D \in Dirs(N), D # Top, NEW p,
           NEW w, Typed(w), LinkedOut(v, R, D, p, w)
    PROVE  ~Unharmed(w)
<1> DEFINE r == R[D]
           l == LastOf(r)
<1>1. D # Top /\ D \in DOMAIN R /\ r[1] = D.entry.cluster
  BY RunOfDir
<1>2. Seg(v.table, r) /\ l \in Members(r)
  <2>1. Seg(v.table, r)
    BY <1>1, RunOf
  <2> QED
    BY <2>1, SegFields DEF LastOf
<1>3. \A a \in Held(R) : a \in Table!Entry /\ a # PastEnd
  BY HeldIsUsed
<1>4. \A n \in DOMAIN R : Members(R[n]) \subseteq Held(R)
  BY HeldAre
<1> HIDE DEF r, l
<1>5. w.table = [v.table EXCEPT ![l] = PastEnd] /\ v.table \in [Table!Entry -> Table!Value]
  BY VolumeFields DEF LinkedOut, l, r
<1>6. w.table[l] = PastEnd /\ \A a \in Held(R) : a # l => w.table[a] = v.table[a]
  <2>1. l \in Table!Entry
    BY <1>1, <1>2, <1>3, <1>4 DEF r
  <2> QED
    BY <2>1, <1>3, <1>5
<1>7. /\ p[1] = PastEnd \/ p[1] = l
      /\ \A q \in Position : q[1] \in Held(R) /\ q # p => At(w, q) = At(v, q)
  BY DEF LinkedOut, l, r
<1>8. ElsewhereSame(v, w, N, R, D)
  <2> SUFFICES ASSUME NEW d \in Dirs(N), d # D
               PROVE  /\ \A c \in Members(R[d]) : w.table[c] = v.table[c]
                      /\ \A q \in Spots(R[d]) : At(w, q) = At(v, q)
    BY DEF ElsewhereSame
  <2>1. d \in DOMAIN R
    BY RunOfDir
  <2>2. Members(R[d]) \cap Members(r) = {}
    BY <1>1, <2>1 DEF Laid, RunsApart, r
  <2>3. Members(R[d]) \subseteq Held(R)
    BY <1>4, <2>1
  <2>4. \A q \in Spots(R[d]) : q \in Position /\ q[1] \in Members(R[d])
    BY SpotArea
  <2>5. \A c \in Members(R[d]) : c # l /\ c # PastEnd
    BY <1>2, <1>3, <2>2, <2>3
  <2>6. \A q \in Spots(R[d]) : q # p
    BY <1>7, <2>4, <2>5
  <2>7. \A q \in Spots(R[d]) : At(w, q) = At(v, q)
    BY <1>7, <2>3, <2>4, <2>6
  <2>8. \A c \in Members(R[d]) : w.table[c] = v.table[c]
    BY <1>6, <2>3, <2>5
  <2> QED
    BY <2>7, <2>8
<1>9. Linking(w.table, D.entry.cluster, r)
  <2>1. /\ r \in Seq(Cluster) /\ Len(r) \in Nat /\ Len(r) >= 1 /\ Len(r) \in 1 .. Len(r)
        /\ \A k \in 1 .. Len(r) : r[k] \in Members(r)
    BY <1>2, SegFields DEF Seg
  <2>2. ASSUME NEW k \in 1 .. Len(r) - 1
        PROVE  w.table[r[k]] = r[k + 1]
    <3>1. k \in 1 .. Len(r) /\ k # Len(r)
      BY <2>1
    <3>2. r[k] # l
      BY <1>2, <2>1, <3>1 DEF Seg, l, LastOf
    <3>3. r[k] \in Held(R)
      BY <1>1, <1>4, <2>1, <3>1 DEF r
    <3>4. v.table[r[k]] = r[k + 1]
      BY <1>2 DEF Seg
    <3> QED
      BY <1>6, <3>2, <3>3, <3>4
  <2> QED
    BY <1>1, <2>1, <2>2 DEF Linking
<1>10. PastEnd \notin Cluster /\ PastEnd # EOF
  BY Numbers
<1>11. w.table[LastOf(r)] \notin Cluster \cup {EOF}
  BY <1>6, <1>10 DEF l
<1> QED
  BY <1>1, <1>8, <1>9, <1>11, BrokenDir

LEMMA LinkedPastBreaks ==
    ASSUME NEW v, Typed(v), NEW N, NEW R, Laid(v, N, R), NEW D \in Dirs(N), NEW p,
           NEW u, LinkedPast(v, u, R, D, p), NEW w, Typed(w), w.table = u.table,
           \A q \in Position : q[1] \in Held(R) /\ q # p => At(w, q) = At(v, q)
    PROVE  Broke(w) /\ MetTheEnd(w)
<1>1. <<PastEnd, 1>>[1] = PastEnd
  OBVIOUS
<1>2. LinkedOut(v, R, D, p, w) /\ D # Top
  BY <1>1 DEF LinkedPast, LinkedOut
<1>3. ~Unharmed(w)
  BY <1>2, LinkedOutBreaks
<1>4. FoundFull(w)
  BY LinkedPastIsFull
<1>5. Full(w)
  BY DEF LinkedPast, Full
<1>6. MetTheEnd(w)
  BY <1>4, <1>5 DEF MetTheEnd, Excused, Full
<1> QED
  BY <1>3, <1>4, <1>6, FullBreaks

\* There is one more directory.
DirAdded(v, N, w, D, x) ==
    \E y : /\ y.path = Append(D.path, x) /\ y.entry.dir
           /\ \A n \in N : n.path # y.path
           /\ FilesKeep(v, w, N) /\ \E P : Intact(w, N \cup {y}, P)
           /\ w.cwd = v.cwd

DotsPut(u, w, c, up) == w = [u EXCEPT !.cells[c] = Dots(c, up)]

\* The entry for a new directory, and its references.
LEMMA MkDirSettles ==
    ASSUME NEW v, Typed(v), NEW N, NEW R, Intact(v, N, R), NEW D \in Dirs(N), NEW x \in Names,
           NEW c \in 2 .. PastEnd, c \notin Held(R),
           c = PastEnd => Spent(v), c # PastEnd => v.table[c] = EOF,
           NEW a, AddOutcome(v, N, R, D, Entry(x, TRUE, c, 0), a), a.ok,
           NEW w, DotsPut(a.vol, w, c, D.entry.cluster), Typed(w)
    PROVE  \/ Kept(v, N, w) /\ MetTheEnd(w)
           \/ DirAdded(v, N, w, D, x)
           \/ Broke(w) /\ MetTheEnd(w)
<1> DEFINE e == Entry(x, TRUE, c, 0)
           p == a.pos
<1>1. Laid(v, N, R)
  BY DEF Intact
<1>2. c \in Table!Entry /\ c \in Areas /\ EOF # FREE
  BY Numbers
<1>3. e \in EntrySlot /\ e.name = x /\ e.dir = TRUE /\ e.cluster = c
  BY <1>2, EntryIsSlot DEF Entry
<1> HIDE DEF e
<1>4. PICK u : AddedTo(v, u, N, R, D, e, a)
  BY DEF AddOutcome, e
<1>5. /\ Typed(u) /\ u.cwd = v.cwd /\ SlotPut(u, a.vol, p, e) /\ NoNode(N, D, e)
      /\ (\E Q : Settled(v, u, N, R, Q, D, p)) \/ LinkedPast(v, u, R, D, p)
      /\ p \in Position /\ Typed(a.vol)
  BY <1>4 DEF AddedTo, AddOutcome
<1> HIDE DEF p
<1>6. /\ w.table = a.vol.table /\ w.cwd = a.vol.cwd /\ w.cells[c] = Dots(c, D.entry.cluster)
      /\ \A b \in Areas : b # c => w.cells[b] = a.vol.cells[b]
  <2>1. a.vol \in Volume /\ a.vol.cells \in [Areas -> Seq(Slot)]
    BY <1>5, VolumeFields
  <2> QED
    BY <2>1, <1>2 DEF Volume, DotsPut
<1>7. EntryWritten(u, w, p, e, c)
  <2>1. /\ a.vol.table = u.table /\ a.vol.cwd = u.cwd
        /\ \A b \in Areas : b # p[1] => a.vol.cells[b] = u.cells[b]
        /\ At(a.vol, p) = e /\ \A q \in Position : q # p => At(a.vol, q) = At(u, q)
    BY <1>5 DEF SlotPut
  <2>2. \A q \in Position : q[1] # c => At(w, q) = At(a.vol, q)
    <3>1. \A q \in Position : q[1] \in Areas
      BY PositionFields
    <3> QED
      BY <3>1, <1>6 DEF At
  <2> QED
    BY <2>1, <2>2, <1>5, <1>6 DEF EntryWritten
<1>8. CASE LinkedPast(v, u, R, D, p)
  <2>1. w.table = u.table
    BY <1>7 DEF EntryWritten
  <2>2. ASSUME NEW q \in Position, q[1] \in Held(R), q # p
        PROVE  At(w, q) = At(v, q)
    <3>1. q[1] \in Areas /\ q[1] # PastEnd /\ q[1] # c
      BY <1>1, <2>2, HeldIsUsed
    <3>2. At(u, q) = At(v, q)
      BY <3>1, <1>8 DEF LinkedPast, Cleared, At
    <3>3. At(w, q) = At(u, q)
      BY <3>1, <2>2, <1>7 DEF EntryWritten, At
    <3> QED
      BY <3>2, <3>3
  <2>3. Broke(w) /\ MetTheEnd(w)
    BY <2>1, <2>2, <1>1, <1>8, LinkedPastBreaks
  <2> QED
    BY <2>3
<1> DEFINE full == c = PastEnd
<1>14. full => Spent(w)
  <2>1. a.vol.table = u.table /\ a.vol.firstFree = u.firstFree
    BY <1>5 DEF SlotPut
  <2>2. w.firstFree = a.vol.firstFree
    <3>1. a.vol \in Volume
      BY <1>5, VolumeFields
    <3> QED
      BY <3>1 DEF Volume, DotsPut
  <2>3. full => Spent(u)
    BY <1>4 DEF AddedTo
  <2> QED
    BY <2>1, <2>2, <2>3, <1>6 DEF Spent, Full
<1>9. CASE \E Q : Settled(v, u, N, R, Q, D, p)
  <2>1. PICK Q : Settled(v, u, N, R, Q, D, p)
    BY <1>9
  <2>2. SettledFor(v, u, N, R, Q, D, p, e)
    BY <2>1, <1>3, <1>5 DEF SettledFor
  <2>3. c \notin Held(Q) /\ (c # PastEnd => c \in Cluster /\ u.table[c] = EOF)
    <3>1. Laid(u, N, Q)
      BY <2>1 DEF Settled
    <3>2. \A b \in Held(Q) : b # PastEnd
      BY <3>1, <1>5, HeldIsUsed
    <3>3. c # PastEnd => c \in Cluster
      BY Numbers
    <3>4. CASE c = PastEnd
      BY <3>2, <3>4
    <3>5. CASE c # PastEnd
      <4>1. c \notin Held(Q)
        BY <3>5, <2>1, <1>2 DEF Settled
      <4> QED
        BY <4>1, <3>3, <3>5, <2>1, <1>2 DEF Settled, UsedStays
    <3> QED
      BY <3>4, <3>5
  <2>4. FilesKeep(v, w, N)
    BY <2>2, <2>3, <1>7, FilesUnmoved
  <2>7. CASE Open(u, Q[D], p) /\ c = PastEnd
    <3>1. Laid(u, N, Q) /\ D \in DOMAIN Q /\ p \in Spots(Q[D]) /\ p[1] \in Held(Q)
      <4>1. Laid(u, N, Q) /\ p \in Spots(Q[D])
        BY <2>1, <2>7 DEF Settled, Open
      <4>2. D \in DOMAIN Q /\ Members(Q[D]) \subseteq Held(Q)
        BY <4>1, RunOfDir
      <4> QED
        BY <4>1, <4>2, SpotArea
    <3>2. \A b \in Held(Q) : b \in Areas /\ b # c
      BY <3>1, <1>5, <2>3, HeldIsUsed
    <3>3. p[1] # c
      BY <3>1, <2>3
    <3>4. SameBut(u, w, Held(Q), p) /\ At(w, p) = e
      BY <3>1, <3>2, <3>3, <1>7 DEF SameBut, EntryWritten
    <3>5. c \notin Cluster /\ e.kind = "entry"
      BY <2>7, <1>3, Numbers DEF EntrySlot
    <3>6. ~Unharmed(w)
      BY <3>1, <3>4, <3>5, <1>3, <1>5, BadEntry
    <3>7. FoundFull(w) /\ MetTheEnd(w)
      BY <2>7, <1>14, SpentIsFull, SpentMeets
    <3> QED
      BY <3>6, <3>7, FullBreaks
  <2>5. CASE Open(u, Q[D], p) /\ c # PastEnd
    <3> DEFINE y == NewNode(D, p, e)
    <3>1. \E P : Intact(w, N \cup {y}, P)
      <4>1. e.cluster \in Cluster /\ e.cluster \notin Held(Q) /\ u.table[e.cluster] = EOF
            /\ EntryWritten(u, w, p, e, e.cluster) /\ e.dir
        BY <2>3, <2>5, <1>3, <1>7
      <4>2. w.cells[e.cluster] = Dots(e.cluster, D.entry.cluster)
        BY <1>3, <1>6
      <4> QED
        BY <2>2, <2>5, <4>1, <4>2, DirIsMade
    <3>2. y.path = Append(D.path, x) /\ y.entry.dir /\ \A n \in N : n.path # y.path
      BY <1>3, <1>5 DEF NewNode, NoNode
    <3>5. w.cwd = v.cwd
      BY <1>5, <1>6 DEF SlotPut
    <3> HIDE DEF y
    <3>3. DirAdded(v, N, w, D, x)
      BY <3>1, <3>2, <3>5, <2>4 DEF DirAdded
    <3> QED
      BY <3>3
  <2>6. CASE Unseen(u, Q, p)
    <3>1. Intact(w, N, Q)
      BY <2>2, <2>3, <2>6, <1>7, UnseenEntry
    <3>2. Kept(v, N, w)
      BY <3>1, <2>4 DEF Kept
    <3>3. Laid(w, N, Q) /\ DOMAIN Q = N
      BY <3>1 DEF Intact
    <3>4. w.table[LastCluster] # FREE
      <4>1. LastCluster \in Held(Q)
        BY <2>6 DEF Unseen
      <4> QED
        BY <4>1, <3>3, HeldIsUsed
    <3>5. CASE c # PastEnd
      <4>1. w.table[c] # FREE
        BY <3>5, <2>3, <1>2, <1>7 DEF EntryWritten
      <4>2. c \in Lost(w)
        BY <4>1, <3>3, <3>5, <2>3, LostIs
      <4> QED
        BY <3>2, <3>4, <4>2, ExtendedMeets DEF ExtendedFromLast
    <3>6. CASE c = PastEnd
      BY <3>2, <3>6, <1>14, SpentMeets
    <3> QED
      BY <3>5, <3>6
  <2> QED
    BY <2>1, <2>5, <2>6, <2>7 DEF Settled
<1> QED
  BY <1>5, <1>8, <1>9

\* A first cluster: the areas in use stay as they are.
InUse(v, H) == \A a \in H : a \in Table!Entry /\ a # PastEnd /\ v.table[a] # FREE

GivenOut(v, H, w, c) ==
    /\ Typed(w) /\ w.cells = v.cells /\ w.cwd = v.cwd /\ Same(v, w, H)
    /\ \/ c \in {FREE, PastEnd} /\ Spent(w) /\ w.table = v.table
       \/ c \in Cluster /\ c \notin H /\ v.table[c] = FREE /\ w.table[c] = EOF
          /\ \A a \in Table!Entry : a # c => w.table[a] = v.table[a]

LEMMA FirstClusterIs ==
    ASSUME NEW v, Typed(v), NEW H, InUse(v, H)
    PROVE  GivenOut(v, H, LinkFree(v, FREE).vol, LinkFree(v, FREE).cluster)
<1> DEFINE w == LinkFree(v, FREE).vol
           c == LinkFree(v, FREE).cluster
<1> SUFFICES GivenOut(v, H, w, c)
  OBVIOUS
<1>1. FREE \in Table!Entry /\ FREE \notin Cluster /\ FREE = ROOT /\ EOF # FREE
  BY Numbers
<1>2. v.table[FREE] = EOF
  BY <1>1, FirmVolume DEF Firm
<1>3. LinkOutcome(v, w, FREE, c)
  BY <1>1, <1>2, LinkFreeIs
<1> HIDE DEF w, c
<1>4. Typed(w) /\ w.cells = v.cells /\ w.cwd = v.cwd
  BY <1>3 DEF LinkOutcome
<1>5. v.table \in [Table!Entry -> Table!Value] /\ w.table \in [Table!Entry -> Table!Value]
  BY <1>4, VolumeFields
<1>6. CASE c = FREE /\ NothingLeft(v, w)
  <2>1. Spent(w) /\ w.table = v.table
    BY <1>6 DEF NothingLeft, Spent, Full
  <2> QED
    BY <2>1, <1>4, <1>6 DEF GivenOut, Same
<1>7. CASE c = PastEnd /\ LedPast(v, w, FREE)
  <2>1. w.table = [v.table EXCEPT ![FREE] = @]
    BY <1>7, <1>1 DEF LedPast
  <2>2. w.table = v.table
    BY <2>1, <1>5
  <2>3. Spent(w)
    BY <1>7 DEF LedPast, Spent
  <2> QED
    BY <2>2, <2>3, <1>4, <1>7 DEF GivenOut, Same
<1>8. CASE Lengthened(v, w, FREE, c)
  <2>1. /\ c \in Cluster /\ v.table[c] = FREE /\ w.table[c] = EOF
        /\ \A a \in Table!Entry : a # c => w.table[a] = v.table[a]
    BY <1>8, <1>1 DEF Lengthened
  <2>2. c \notin H
    BY <2>1 DEF InUse
  <2>3. Same(v, w, H)
    BY <2>1, <2>2, <1>4 DEF Same, InUse
  <2> QED
    BY <2>1, <2>2, <2>3, <1>4 DEF GivenOut
<1> QED
  BY <1>3, <1>6, <1>7, <1>8 DEF LinkOutcome, w, c

LEMMA HeldInUse ==
    ASSUME NEW v, Typed(v), NEW N, NEW R, Laid(v, N, R)
    PROVE  InUse(v, Held(R))
  BY HeldIsUsed DEF InUse

LEMMA KeptOn ==
    ASSUME NEW v, NEW u, NEW w, NEW N, FilesKeep(v, u, N), Kept(u, N, w)
    PROVE  Kept(v, N, w)
  BY DEF Kept, FilesKeep

LEMMA SameOn ==
    ASSUME NEW v, NEW u, NEW w, NEW H, Same(v, u, H), Same(u, w, H)
    PROVE  Same(v, w, H)
  BY DEF Same

\* The directory is made in D.
MkDirInto(v, N, D, x, r) ==
    \/ Kept(v, N, r.vol) /\ Ended(r)
    \/ r.ok /\ DirAdded(v, N, r.vol, D, x)
    \/ Broke(r.vol) /\ Ended(r)

LEMMA MkDirAtIs ==
    ASSUME NEW v, Typed(v), NEW N, NEW R, Intact(v, N, R), NEW D \in Dirs(N), NEW x \in Names,
           NEW r, r = MkDirAt(LinkFree(v, FREE), x, D.entry.cluster), Typed(r.vol)
    PROVE  MkDirInto(v, N, D, x, r)
<1> DEFINE w == LinkFree(v, FREE).vol
           c == LinkFree(v, FREE).cluster
           u == Blank(w, c)
           a == AddEntry(u, D.entry.cluster, Entry(x, TRUE, c, 0))
           z == [a.vol EXCEPT !.cells[c] = Dots(c, D.entry.cluster)]
<1>1. Laid(v, N, R)
  BY DEF Intact
<1>2. InUse(v, Held(R))
  BY <1>1, HeldInUse
<1>3. GivenOut(v, Held(R), w, c)
  BY <1>2, FirstClusterIs
<1>4. r = IF c = FREE THEN Answer(FALSE, w)
          ELSE IF a.ok THEN Answer(TRUE, z) ELSE Answer(FALSE, a.vol)
  BY DEF MkDirAt, WithDots
<1> HIDE DEF w, c, a, u, z
<1>5. /\ Typed(w) /\ w.cells = v.cells /\ w.cwd = v.cwd /\ Same(v, w, Held(R))
      /\ c \in {FREE, PastEnd} \cup Cluster
  BY <1>3 DEF GivenOut
<1>6. CASE c = FREE
  <2>1. r.ok = FALSE /\ r.vol = w
    BY <1>4, <1>6 DEF Answer
  <2>2. Kept(v, N, r.vol)
    BY <2>1, <1>5, SameKept
  <2> QED
    BY <2>1, <2>2 DEF MkDirInto, Ended
<1>7. CASE c # FREE
  <2>1. c \in 2 .. PastEnd /\ c \in Table!Entry
    BY <1>5, <1>7, Numbers
  <2>2. Typed(u) /\ Cleared(w, u, c) /\ u.table = w.table /\ u.firstFree = w.firstFree /\ u.cwd = w.cwd
    BY <2>1, <1>5, BlankIs DEF u
  <2>3. c \notin Held(R)
    BY <1>2, <1>3, <1>7 DEF GivenOut, InUse
  <2>4. Same(v, u, Held(R)) /\ u.cwd = v.cwd
    <3>1. \A b \in Held(R) : b \in Areas /\ b # c
      BY <1>1, <2>3, HeldIsUsed
    <3> QED
      BY <3>1, <2>2, <1>5 DEF Same, Cleared
  <2>5. Intact(u, N, R)
    BY <2>4, FrameIntact
  <2>6. FilesKeep(v, u, N)
    <3>1. \A n \in N : ~n.entry.dir => Same(v, u, Members(R[n]))
      <4>1. \A n \in N : Members(R[n]) \subseteq Held(R)
        BY HeldAre DEF Intact
      <4> QED
        BY <4>1, <2>4 DEF Same
    <3> QED
      BY <3>1, KeptFiles
  <2>7. Laid(u, N, R)
    BY <2>5 DEF Intact
  <2>8. Entry(x, TRUE, c, 0) \in EntrySlot /\ Entry(x, TRUE, c, 0).name = x
    BY <2>1, EntryIsSlot, Numbers DEF Entry
  <2>9. AddOutcome(u, N, R, D, Entry(x, TRUE, c, 0), a)
    BY <2>2, <2>7, <2>8, AddEntryIs DEF a
  <2>10. CASE ~a.ok
    <3>1. r.ok = FALSE /\ r.vol = a.vol
      BY <1>4, <1>7, <2>10 DEF Answer
    <3>2. a.vol.table = u.table /\ a.vol.cells = u.cells /\ a.vol.cwd = u.cwd
      BY <2>9, <2>10 DEF AddOutcome
    <3>3. Same(u, a.vol, Held(R))
      BY <3>2 DEF Same
    <3>4. Same(v, r.vol, Held(R)) /\ r.vol.cwd = v.cwd
      BY <3>1, <3>2, <3>3, <2>4, SameOn
    <3>5. Kept(v, N, r.vol)
      BY <3>4, SameKept
    <3> QED
      BY <3>1, <3>5 DEF MkDirInto, Ended
  <2>11. CASE a.ok
    <3>1. r.vol = z /\ r.ok = TRUE
      BY <1>4, <1>7, <2>11 DEF Answer
    <3>2. c = PastEnd => Spent(u)
      <4>1. c = PastEnd => Spent(w)
        BY <1>3, Numbers DEF GivenOut
      <4> QED
        BY <4>1, <2>2 DEF Spent, Full
    <3>8. c # PastEnd => u.table[c] = EOF
      BY <1>3, <1>7, <2>2 DEF GivenOut
    <3>3. Typed(z)
      BY <3>1
    <3>4. DotsPut(a.vol, z, c, D.entry.cluster)
      BY DEF z, DotsPut
    <3>5. \/ Kept(u, N, z) /\ MetTheEnd(z)
          \/ DirAdded(u, N, z, D, x)
          \/ Broke(z) /\ MetTheEnd(z)
      BY <2>1, <2>2, <2>3, <2>5, <2>9, <2>11, <3>2, <3>3, <3>4, <3>8, MkDirSettles
    <3>6. Kept(u, N, z) => Kept(v, N, z)
      BY <2>6, KeptOn
    <3>7. DirAdded(u, N, z, D, x) => DirAdded(v, N, z, D, x)
      <4>1. FilesKeep(u, z, N) => FilesKeep(v, z, N)
        BY <2>6 DEF FilesKeep
      <4> QED
        BY <4>1, <2>4 DEF DirAdded
    <3> QED
      BY <3>1, <3>5, <3>6, <3>7 DEF MkDirInto, Ended
  <2> QED
    BY <2>10, <2>11
<1> QED
  BY <1>6, <1>7

\* What mkdir comes to.
LEMMA MkDirIs ==
    ASSUME NEW v, Typed(v), NEW N, NEW R, Intact(v, N, R), NEW p \in NewPaths
    PROVE  MkDirOutcome(v, N, p, MkDir(v, p))
<1> DEFINE r == MkDir(v, p)
<1>1. Typed(r.vol)
  BY MkDirTyped DEF AnswerTyped
<1>2. CASE r = Answer(FALSE, v)
  <2>1. r.ok = FALSE /\ r.vol = v
    BY <1>2 DEF Answer
  <2>2. Kept(v, N, v)
    BY SameKept DEF Same
  <2> SUFFICES MkDirOutcome(v, N, p, r)
    OBVIOUS
  <2> HIDE DEF r
  <2> QED
    BY <1>1, <2>1, <2>2 DEF MkDirOutcome, Ended
<1>3. CASE ~EntryFromPath(v, p).found /\ IsDirectory(Parent(v, p))
  <2>1. r = MkDirAt(LinkFree(v, FREE), Leaf(p), Parent(v, p).entry.cluster)
    BY <1>3 DEF MkDir, MkDirIn
  <2> SUFFICES MkDirOutcome(v, N, p, r)
    OBVIOUS
  <2> HIDE DEF r
  <2>2. PICK D : AtParent(v, N, p, D)
    BY <1>3, ParentIs
  <2>3. D \in Dirs(N) /\ D.entry.cluster = Parent(v, p).entry.cluster
    BY <2>2 DEF AtParent
  <2>4. Leaf(p) \in Names
    BY ParentTyped
  <2>5. r = MkDirAt(LinkFree(v, FREE), Leaf(p), D.entry.cluster)
    BY <2>1, <2>3
  <2>6. MkDirInto(v, N, D, Leaf(p), r)
    BY <2>3, <2>4, <2>5, <1>1, MkDirAtIs
  <2>7. DirAdded(v, N, r.vol, D, Leaf(p)) => \E y : Made(v, N, p, r.vol, D, y)
    BY <2>2 DEF Made, DirAdded
  <2> QED
    BY <1>1, <2>6, <2>7 DEF MkDirOutcome, MkDirInto
<1> QED
  BY <1>2, <1>3 DEF MkDir, MkDirIn, Answer

------------------------------------------------------------------------
(* The current directory.                                                  *)

\* Only the current directory and the hint are others.
LEMMA MovedKept ==
    ASSUME NEW v, NEW w, NEW N, NEW R, Intact(v, N, R), w.table = v.table, w.cells = v.cells,
           Stands(w, N)
    PROVE  Kept(v, N, w)
<1>1. Same(v, w, Held(R))
  BY DEF Same
<1>2. Laid(w, N, R)
  BY <1>1, Frame DEF Intact
<1>3. Intact(w, N, R)
  BY <1>2 DEF Intact
<1>4. \A n \in N : ~n.entry.dir => Same(v, w, Members(R[n]))
  BY DEF Same
<1>5. FilesKeep(v, w, N)
  BY <1>4, KeptFiles
<1> QED
  BY <1>3, <1>5 DEF Kept

\* A path that is found leads to a node.
LEMMA FoundIsNode ==
    ASSUME NEW v, Typed(v), NEW N, NEW R, Intact(v, N, R), NEW p \in Paths, EntryFromPath(v, p).found
    PROVE  \E n \in N : /\ n.path = Leads(TreeOf(v, N), Here(v).path, p)
                        /\ n.entry.dir = EntryFromPath(v, p).entry.dir
                        /\ n.entry.cluster = EntryFromPath(v, p).entry.cluster
<1>1. Navigable(v) /\ NodesOf(v) = N
  BY IntactIsSound
<1> DEFINE f == EntryFromPath(v, p)
           to == Leads(TreeOf(v, NodesOf(v)), Here(v).path, p)
<1>2. IF to = Nowhere THEN ~f.found
      ELSE /\ f.found
           /\ \E n \in NodesOf(v) : /\ n.path = to /\ n.entry.dir = f.entry.dir
                                    /\ n.entry.cluster = f.entry.cluster
  BY <1>1, PathFollows
<1>3. to = Leads(TreeOf(v, N), Here(v).path, p)
  BY <1>1
<1> HIDE DEF to
<1> QED
  BY <1>1, <1>2, <1>3

LEMMA CdIs ==
    ASSUME NEW v, Typed(v), NEW N, NEW R, Intact(v, N, R), NEW p \in Paths
    PROVE  Kept(v, N, Cd(v, p).vol)
<1> DEFINE f == EntryFromPath(v, p)
           w == Cd(v, p).vol
<1>1. v \in Volume
  BY VolumeFields
<1>2. CASE ~IsDirectory(f)
  <2>1. w = v
    BY <1>2 DEF Cd, CdTo, Answer
  <2>2. Same(v, v, Held(R)) /\ v.cwd = v.cwd
    BY DEF Same
  <2> QED
    BY <2>1, <2>2, SameKept
<1>3. CASE IsDirectory(f)
  <2>1. w = [v EXCEPT !.cwd = f.entry.cluster]
    BY <1>3 DEF Cd, CdTo, Answer
  <2>2. w.table = v.table /\ w.cells = v.cells /\ w.cwd = f.entry.cluster
    BY <2>1, <1>1 DEF Volume
  <2>3. f.found /\ f.entry.dir
    BY <1>3 DEF IsDirectory
  <2>4. PICK n \in N : n.entry.dir = f.entry.dir /\ n.entry.cluster = f.entry.cluster
    BY <2>3, FoundIsNode
  <2>5. Stands(w, N)
    BY <2>2, <2>3, <2>4 DEF Stands, Dirs
  <2> HIDE DEF w
  <2>6. Kept(v, N, w)
    BY <2>2, <2>5, MovedKept
  <2> QED
    BY <2>6 DEF w
<1> QED
  BY <1>2, <1>3

LEMMA MountedIs ==
    ASSUME NEW v, Typed(v), NEW N, NEW R, Intact(v, N, R)
    PROVE  Kept(v, N, Mounted(v))
<1> DEFINE w == Mounted(v)
<1>1. v \in Volume
  BY VolumeFields
<1>2. w.table = v.table /\ w.cells = v.cells /\ w.cwd = ROOT
  BY <1>1 DEF Volume, Mounted
<1> HIDE DEF w
<1>3. Top \in Dirs(N) /\ Top.entry.cluster = ROOT
  <2>1. PathsApart(N)
    BY DEF Intact, Laid
  <2> QED
    BY <2>1, PathFacts DEF Top, RootEntry, Entry
<1>4. Stands(w, N)
  BY <1>2, <1>3 DEF Stands
<1>5. Kept(v, N, w)
  BY <1>2, <1>4, MovedKept
<1> QED
  BY <1>5 DEF w

------------------------------------------------------------------------
(* An entry is deleted.                                                    *)

\* What a path ends in: the root, the entry of a node, or a reference.
EndsInNode(N, f) == \E y \in N : y # Top /\ f.entry = y.entry /\ f.pos = y.pos
EndsInDot(v, N, R, f) ==
    \E D \in Dirs(N) : /\ D # Top /\ f.pos \in {<<R[D][1], 1>>, <<R[D][1], 2>>}
                       /\ f.entry = At(v, f.pos)

LEMMA PathEnds ==
    ASSUME NEW v, Typed(v), NEW N, NEW R, Intact(v, N, R), NEW p \in Paths, EntryFromPath(v, p).found,
           ~IsRoot(v, p)
    PROVE  EndsInNode(N, EntryFromPath(v, p)) \/ EndsInDot(v, N, R, EntryFromPath(v, p))
<1> DEFINE L == Len(p.names)
           n == p.names[L]
           g == Trail(v, p)[L - 1]
           f == EntryFromPath(v, p)
<1>1. L \in Nat /\ L >= 1 /\ L - 1 \in 0 .. L /\ n \in PathNames
  <2>1. p # Root
    BY DEF IsRoot
  <2> QED
    BY <2>1, PathFields DEF PathNames
<1>2. Navigable(v) /\ NodesOf(v) = N /\ Laid(v, N, R) /\ Formed(v)
  BY IntactIsSound DEF Intact, Navigable
<1>3. f = Below(v, g, n, FALSE)
  <2>1. f = Trail(v, p)[L]
    BY DEF EntryFromPath, Resolve
  <2>2. Trail(v, p)[L] = Below(v, Trail(v, p)[L - 1], p.names[L], L < L)
    BY <1>1, TrailIs
  <2>3. (L < L) = FALSE
    BY <1>1
  <2> QED
    BY <2>1, <2>2, <2>3
<1>4. f.found
  OBVIOUS
<1> SUFFICES EndsInNode(N, f) \/ EndsInDot(v, N, R, f)
  OBVIOUS
<1>5. Leading(v, g, TreeTrail(TreeOf(v, NodesOf(v)), Here(v).path, p)[L - 1], L - 1 < Len(p.names) \/ L - 1 = 0)
  BY <1>1, <1>2, TrailFollows
<1>6. (L - 1 < Len(p.names) \/ L - 1 = 0) = TRUE
  BY <1>1
<1> HIDE DEF f, g, n, L
<1>7. g.found /\ f = Lookup(v, g.entry.cluster, n, FALSE)
  <2>1. ~NotFound.found
    BY DEF NotFound
  <2> QED
    BY <2>1, <1>3, <1>4 DEF Below
<1>8. PICK D \in N : D.entry.dir /\ D.entry.cluster = g.entry.cluster
  BY <1>2, <1>5, <1>6, <1>7 DEF Leading, Fits
<1>9. D \in Dirs(N) /\ f = Lookup(v, D.entry.cluster, n, FALSE)
  BY <1>7, <1>8 DEF Dirs
<1> HIDE DEF f
<1>10. CASE n \in Names
  <2>1. \E m \in N : m.path = Append(D.path, n) /\ m.entry = f.entry /\ m.pos = f.pos
    <3>1. LET h == Lookup(v, D.entry.cluster, n, FALSE)
          IN  h.found => \E m \in NodesOf(v) : /\ m.path = Append(D.path, n) /\ Fits(m, FALSE)
                                               /\ m.entry = h.entry /\ m.pos = h.pos
      BY <1>2, <1>8, <1>10, LookupOfName
    <3> QED
      BY <3>1, <1>2, <1>4, <1>9
  <2>2. PICK m \in N : m.path = Append(D.path, n) /\ m.entry = f.entry /\ m.pos = f.pos
    BY <2>1
  <2>3. D.path \in Seq(Names)
    BY <1>2, PathFacts, NodeFields DEF Laid
  <2>4. m # Top
    BY <2>2, <2>3, <1>10, FrontOfAppend DEF Top
  <2> QED
    BY <2>2, <2>4 DEF EndsInNode
<1>11. CASE n \in {".", ".."}
  <2> DEFINE so == Slots(v, D.entry.cluster)
  <2>1. PICK up \in N : Neat(v, D, up.entry.cluster, R[D])
    BY <1>2, <1>9 DEF Laid, Orderly
  <2>2. so \in Walks /\ DOMAIN so = 1 .. Len(so) /\ Spelled(R[D], Len(R[D]), so)
    BY <2>1, NeatListing
  <2>3. f = LookupIn(v, so, n, FALSE)
    BY <1>9 DEF Lookup
  <2> HIDE DEF so
  <2>4. PICK i \in Hits(v, so, n, FALSE) : f = [found |-> TRUE, pos |-> so[i], entry |-> At(v, so[i])]
    <3>1. Hits(v, so, n, FALSE) # {}
      <4>1. ~NotFound.found
        BY DEF NotFound
      <4> QED
        BY <4>1, <2>2, <2>3, <1>4, LookupInIs
    <3> QED
      BY <3>1, <2>2, <2>3, LookupInIs
  <2>5. IsDot(At(v, so[i])) /\ i \in 1 .. Len(so)
    BY <2>2, <2>4, <1>11 DEF Hits, Listed, IsDot
  <2>6. so[i] \in Spots(R[D])
    BY <2>2, <2>5 DEF Spelled, Spots
  <2>7. D # Top /\ so[i] \in {<<R[D][1], 1>>, <<R[D][1], 2>>}
    BY <2>1, <2>5, <2>6 DEF Neat
  <2>8. f.pos = so[i] /\ f.entry = At(v, so[i])
    BY <2>4
  <2> QED
    BY <2>7, <2>8, <1>9 DEF EndsInDot
<1> QED
  BY <1>1, <1>10, <1>11 DEF PathNames

\* The entry of y is gone, and its chain is free.
Removed(v, N, R, w, y) ==
    /\ Typed(w) /\ w.cwd = v.cwd
    /\ \A a \in Table!Entry : w.table[a] = IF a \in Clusters(v, y.entry.cluster) THEN FREE ELSE v.table[a]
    /\ Laid(w, N \ {y}, Without(R, y))
    /\ \A n \in DOMAIN R : ~n.entry.dir /\ n # y => Same(v, w, Members(R[n]))

Own(v, R, y) == Clusters(v, y.entry.cluster) \cap Held(Without(R, y)) = {}

LEMMA RunIsOwn ==
    ASSUME NEW v, NEW N, NEW R, Laid(v, N, R), NEW y \in DOMAIN R, y # Top
    PROVE  Own(v, R, y)
<1>1. Clusters(v, y.entry.cluster) = Members(R[y])
  BY RunOf
<1>2. \A a \in Held(Without(R, y)) : \E n \in DOMAIN R : n # y /\ a \in Members(R[n])
  BY DEF Held, Without
<1> QED
  BY <1>1, <1>2 DEF Own, Laid, RunsApart

LEMMA EntryRemoved ==
    ASSUME NEW v, Typed(v), NEW N, NEW R, Laid(v, N, R), NEW y \in N, y # Top, Own(v, R, y),
           y.entry.dir => NamedSpots(v, R[y]) = {}
    PROVE  Removed(v, N, R, Put(Freed(v, y.entry.cluster), y.pos, Free), y)
<1> DEFINE c == y.entry.cluster
           u == Freed(v, c)
           w == Put(u, y.pos, Free)
           G == Clusters(v, c)
<1>1. PathsApart(N) /\ RunsApart(v.table, N, R)
  BY DEF Laid
<1>2. y \in NodeSet /\ c \in Table!Entry
  BY <1>1, PathFacts, NodeFields
<1>3. PICK E \in Dirs(N) : LiesIn(v, R, y, E)
  BY DEF Laid
<1>4. y.pos \in Spots(R[E]) /\ y.pos \in Position /\ E \in N /\ E \in DOMAIN R
  <2>1. E \in N /\ E \in DOMAIN R
    BY RunOfDir
  <2> QED
    BY <2>1, <1>1, <1>3, LiesInFacts DEF ChildOf
<1>5. FreedIn(v, u, G)
  BY <1>2, FreedIs
<1>6. SlotPut(u, w, y.pos, Free)
  BY <1>4, <1>5, PutIs, MarksAreSlots DEF FreedIn
<1> SUFFICES Removed(v, N, R, w, y)
  OBVIOUS
<1> HIDE DEF w, u
<1> DEFINE H == Held(Without(R, y))
<1>8. \A a \in H : a \notin G /\ a \in Table!Entry /\ a \in Areas
  <2>1. \A a \in H : \E n \in DOMAIN R : n # y /\ a \in Members(R[n])
    BY DEF Held, Without
  <2>2. \A n \in DOMAIN R : Members(R[n]) \subseteq Held(R)
    BY HeldAre
  <2>3. G \cap H = {}
    BY DEF Own
  <2> QED
    BY <2>1, <2>2, <2>3, HeldIsUsed
<1> HIDE DEF H, G, c
<1>9. w.table = u.table /\ w.cwd = v.cwd /\ Typed(w) /\ u.cells = v.cells
      /\ \A a \in Table!Entry : w.table[a] = IF a \in G THEN FREE ELSE v.table[a]
  BY <1>5, <1>6 DEF SlotPut, FreedIn
<1>10. \A a \in Areas : a # y.pos[1] => w.cells[a] = v.cells[a]
  BY <1>6, <1>9 DEF SlotPut
<1>11. At(w, y.pos) = Free /\ \A q \in Position : q # y.pos => At(w, q) = At(v, q)
  BY <1>6, <1>9 DEF SlotPut, At
<1>12. SameBut(v, w, H, y.pos)
  BY <1>8, <1>9, <1>10, <1>11 DEF SameBut
<1>13. Laid(w, N \ {y}, Without(R, y))
  BY <1>11, <1>12, RemoveNode DEF H
<1>14. ASSUME NEW n \in DOMAIN R, ~n.entry.dir, n # y
       PROVE  Same(v, w, Members(R[n]))
  <2>1. E # n
    BY <1>14 DEF Dirs
  <2>2. y.pos[1] \notin Members(R[n])
    BY <2>1, <1>4, SpotIsInOne
  <2>3. Members(R[n]) \subseteq H
    BY <1>14 DEF Held, Without, H
  <2> QED
    BY <2>2, <2>3, <1>8, <1>9, <1>10 DEF Same
<1> QED
  BY <1>9, <1>13, <1>14 DEF Removed, G, c

\* Two nodes do not begin with one cluster.
LEMMA OneNode ==
    ASSUME NEW v, NEW N, NEW R, Intact(v, N, R), NEW n \in N, NEW m \in N,
           n.entry.cluster = m.entry.cluster
    PROVE  n = m
<1>1. RunsApart(v.table, N, R) /\ DOMAIN R = N
  BY DEF Intact, Laid
<1>2. /\ R[n][1] = n.entry.cluster /\ IsRun(v.table, R[n])
      /\ R[m][1] = m.entry.cluster /\ IsRun(v.table, R[m])
  BY <1>1 DEF RunsApart
<1>3. R[n][1] \in Members(R[n]) /\ R[m][1] \in Members(R[m])
  BY <1>2, RunFields DEF Members
<1> QED
  BY <1>1, <1>2, <1>3 DEF RunsApart

LEMMA IntactRemoved ==
    ASSUME NEW v, Typed(v), NEW N, NEW R, Intact(v, N, R), NEW y \in N, y # Top,
           NEW w, Removed(v, N, R, w, y)
    PROVE  /\ FilesKeep(v, w, N \ {y})
           /\ Intact(w, N \ {y}, Without(R, y)) \/ (y.entry.dir /\ Fallen(w))
<1>1. Laid(v, N, R) /\ DOMAIN R = N /\ Sized(N, R) /\ Stands(v, N)
  BY DEF Intact
<1>2. /\ Typed(w) /\ w.cwd = v.cwd
      /\ \A a \in Table!Entry : w.table[a] = IF a \in Clusters(v, y.entry.cluster) THEN FREE ELSE v.table[a]
      /\ Laid(w, N \ {y}, Without(R, y))
      /\ \A n \in N : ~n.entry.dir /\ n # y => Same(v, w, Members(R[n]))
  BY <1>1 DEF Removed
<1>3. FilesKeep(v, w, N \ {y})
  <2>1. N \ {y} \in SUBSET N
    OBVIOUS
  <2>2. \A n \in N \ {y} : ~n.entry.dir => Same(v, w, Members(R[n]))
    BY <1>2
  <2> QED
    BY <2>1, <2>2, KeptFiles
<1>4. PICK d \in Dirs(N) : d.entry.cluster = v.cwd
  BY <1>1 DEF Stands
<1>5. CASE d # y
  <2>1. Stands(w, N \ {y})
    BY <1>2, <1>4, <1>5 DEF Stands, Dirs
  <2>2. DOMAIN Without(R, y) = N \ {y} /\ Sized(N \ {y}, Without(R, y))
    BY <1>1 DEF Without, Sized
  <2>3. Intact(w, N \ {y}, Without(R, y))
    BY <2>1, <2>2, <1>2 DEF Intact
  <2> QED
    BY <2>3, <1>3
<1>6. CASE d = y
  <2>1. y.entry.cluster \in Cluster /\ y.entry.cluster \in Clusters(v, y.entry.cluster) /\ y.entry.dir
    <3>1. Seg(v.table, R[y]) /\ R[y][1] = y.entry.cluster /\ Clusters(v, y.entry.cluster) = Members(R[y])
      BY <1>1, RunOf
    <3>2. R[y][1] \in Cluster /\ R[y][1] \in Members(R[y])
      BY <3>1, SegFields
    <3> QED
      BY <3>1, <3>2, <1>6 DEF Dirs
  <2>2. w.cwd = y.entry.cluster /\ w.cwd \in Table!Entry /\ w.cwd # ROOT
    BY <1>2, <1>4, <1>6, <2>1, Numbers
  <2>3. w.table[w.cwd] = FREE
    BY <2>1, <2>2, <1>2
  <2>4. Forget(w).cwd = w.cwd /\ Forget(w).table = w.table
    BY <1>2, ForgetIs
  <2>5. DirectoryFreed(Forget(w))
    BY <2>2, <2>3, <2>4 DEF DirectoryFreed
  <2>6. ~Stands(w, N \ {y})
    <3> SUFFICES ASSUME NEW n \in Dirs(N \ {y}), n.entry.cluster = w.cwd
                 PROVE  FALSE
      BY DEF Stands
    <3>1. n \in N /\ n # y /\ n.entry.cluster = y.entry.cluster
      BY <2>2 DEF Dirs
    <3> QED
      BY <3>1, OneNode
  <2>7. ~Unharmed(w)
    BY <2>6, <1>2, BadCurrent
  <2>8. Fallen(w)
    BY <2>5, <2>7 DEF Fallen, Excused
  <2> QED
    BY <2>1, <2>8, <1>3
<1> QED
  BY <1>5, <1>6

\* A directory may be deleted when it has no entry with a name.
LEMMA MayDeleteIs ==
    ASSUME NEW v, Typed(v), NEW N, NEW R, Laid(v, N, R), NEW y \in Dirs(N), NEW e, e.dir,
           e.cluster = y.entry.cluster, MayDelete(v, e)
    PROVE  NamedSpots(v, R[y]) = {}
<1>1. PICK u \in N : Neat(v, y, u.entry.cluster, R[y])
  BY DEF Laid, Orderly
<1>2. Entries(v, y.entry.cluster) = EntrySpots(v, R[y])
  BY <1>1, NeatListing
<1> QED
  BY <1>2 DEF MayDelete, NamedSpots

\* The first slot of the empty root directory is freed.
LEMMA RootTouched ==
    ASSUME NEW v, Typed(v), NEW N, NEW R, Intact(v, N, R), NamedSpots(v, R[Top]) = {}
    PROVE  Kept(v, N, Put(v, <<ROOT, 1>>, Free))
<1> DEFINE p == <<ROOT, 1>>
           w == Put(v, p, Free)
<1>1. Laid(v, N, R) /\ DOMAIN R = N /\ Sized(N, R) /\ Stands(v, N)
  BY DEF Intact
<1>2. PathsApart(N) /\ Top \in Dirs(N)
  BY <1>1, PathFacts DEF Laid
<1>3. R[Top] = <<ROOT>> /\ Members(R[Top]) = {ROOT}
  BY <1>1, RunOfTop
<1>4. p \in Spots(R[Top]) /\ p \in Position /\ p[1] = ROOT /\ p[2] = 1
  <2>1. IsRun(v.table, R[Top])
    BY <1>1, <1>2, RunOfDir
  <2>2. R[Top][1] = ROOT
    BY <1>3
  <2>3. p \in Spots(R[Top])
    BY <2>1, <2>2, FirstSpots
  <2> QED
    BY <2>3, SpotArea
<1>5. SlotPut(v, w, p, Free)
  BY <1>4, PutIs, MarksAreSlots
<1> SUFFICES Kept(v, N, w)
  OBVIOUS
<1>6. PICK u \in N : Above(N, Top, u) /\ Neat(v, Top, u.entry.cluster, R[Top])
  BY <1>1, <1>2 DEF Laid, Orderly
<1> HIDE DEF w
<1>7. /\ w.table = v.table /\ w.cwd = v.cwd /\ \A a \in Areas : a # ROOT => w.cells[a] = v.cells[a]
      /\ At(w, p) = Free /\ \A q \in Position : q # p => At(w, q) = At(v, q)
  BY <1>4, <1>5 DEF SlotPut
<1>8. Unmarked(v, R[Top], p)
  <2>1. \A q \in Spots(R[Top]) : ~Before(R[Top], q, p)
    <3> SUFFICES ASSUME NEW q \in Spots(R[Top]), Before(R[Top], q, p)
                 PROVE  FALSE
      OBVIOUS
    <3>1. PICK k \in 1 .. Len(R[Top]), m \in 1 .. Len(R[Top]) :
            k < m \/ (k = m /\ q[2] < p[2])
      BY DEF Before
    <3>2. Len(R[Top]) = 1
      BY <1>3
    <3>3. q[2] < 1
      BY <3>1, <3>2, <1>4
    <3>4. q \in Position
      BY SpotArea
    <3> QED
      BY <3>3, <3>4, PositionFields, SlotsOfIsPositive
  <2> QED
    BY <2>1 DEF Unmarked
<1>9. Retouched(v, w, Top, u.entry.cluster, R[Top], p)
  <2>1. ~IsDot(At(v, p))
    BY <1>4, <1>6 DEF Neat
  <2>2. At(w, p).kind # "data" /\ At(w, p) # EndMark /\ ~IsDot(At(w, p))
    BY <1>7 DEF Free, EndMark, IsDot
  <2>3. \A q \in Spots(R[Top]) : q # p => At(w, q) = At(v, q)
    BY <1>7, SpotArea
  <2>4. \A c \in Members(R[Top]) : w.table[c] = v.table[c]
    BY <1>7
  <2> HIDE DEF p
  <2> QED
    BY <2>1, <2>2, <2>3, <2>4, <1>4, <1>6, <1>8, PutInDir
<1>10. Neat(w, Top, u.entry.cluster, R[Top]) /\ NamedSpots(w, R[Top]) = {}
  <2>1. At(w, p).kind # "entry"
    BY <1>7 DEF Free
  <2>2. {q \in {p} : At(w, p).kind = "entry"} = {}
    BY <2>1
  <2> HIDE DEF p
  <2> QED
    BY <2>2, <1>9 DEF Retouched
<1>11. \A d \in Dirs(N) : d # Top => Orderly(w, N, R, d) /\ NamedSpots(w, R[d]) = NamedSpots(v, R[d])
  <2> SUFFICES ASSUME NEW d \in Dirs(N), d # Top
               PROVE  Orderly(w, N, R, d) /\ NamedSpots(w, R[d]) = NamedSpots(v, R[d])
    OBVIOUS
  <2>1. d \in DOMAIN R /\ Top \in DOMAIN R
    BY <1>1, <1>2, RunOfDir
  <2>2. ROOT \notin Members(R[d])
    BY <2>1, <1>1, <1>3 DEF Laid, RunsApart
  <2>3. \A q \in Spots(R[d]) : At(w, q) = At(v, q)
    <3>1. \A q \in Spots(R[d]) : q \in Position /\ q[1] # ROOT
      BY <2>2, SpotArea
    <3> QED
      BY <3>1, <1>4, <1>7
  <2>4. \A c \in Members(R[d]) : w.table[c] = v.table[c]
    BY <1>7
  <2>5. Orderly(v, N, R, d)
    BY <1>1 DEF Laid
  <2> QED
    BY <2>3, <2>4, <2>5, OrderlySame
<1>12. Laid(w, N, R)
  <2>1. RunsApart(w.table, N, R)
    BY <1>1, <1>7 DEF Laid
  <2>2. \A d \in Dirs(N) : Orderly(w, N, R, d)
    BY <1>6, <1>10, <1>11 DEF Orderly
  <2>3. ASSUME NEW n \in N, n # Top
        PROVE  \E d \in Dirs(N) : LiesIn(w, R, n, d)
    <3>1. PICK d \in Dirs(N) : LiesIn(v, R, n, d)
      BY <1>1, <2>3 DEF Laid
    <3>2. n.pos \in NamedSpots(v, R[d]) /\ n = NodeAt(v, d, n.pos)
      BY <3>1 DEF LiesIn
    <3>3. d # Top
      BY <3>2
    <3>4. n.pos \in NamedSpots(w, R[d])
      BY <3>2, <3>3, <1>11
    <3>5. n.pos \in Position /\ n.pos # p
      <4>1. n.pos \in Spots(R[d])
        BY <3>2 DEF NamedSpots, EntrySpots
      <4>2. d \in DOMAIN R /\ Top \in DOMAIN R
        BY <1>1, <1>2, RunOfDir
      <4>3. p[1] \notin Members(R[d])
        BY <4>2, <3>3, <1>1, <1>4, SpotIsInOne
      <4> QED
        BY <4>1, <4>3, SpotArea
    <3>6. At(w, n.pos) = At(v, n.pos)
      BY <3>5, <1>7
    <3> QED
      BY <3>2, <3>4, <3>6 DEF LiesIn, NodeAt
  <2> QED
    BY <2>1, <2>2, <2>3, <1>2 DEF Laid
<1>13. Stands(w, N)
  BY <1>1, <1>7 DEF Stands
<1>14. Intact(w, N, R)
  BY <1>1, <1>12, <1>13 DEF Intact
<1>15. FilesKeep(v, w, N)
  <2>1. \A n \in N : ~n.entry.dir => Same(v, w, Members(R[n]))
    <3> SUFFICES ASSUME NEW n \in N, ~n.entry.dir
                 PROVE  Same(v, w, Members(R[n]))
      OBVIOUS
    <3>1. n # Top
      BY DEF Top, RootEntry, Entry
    <3>2. ROOT \notin Members(R[n])
      BY <3>1, <1>1, <1>2, <1>3 DEF Laid, RunsApart, PathsApart
    <3>3. \A a \in Members(R[n]) : a \in Areas
      BY <1>1, HeldAre, HeldIsUsed
    <3> QED
      BY <3>2, <3>3, <1>7 DEF Same
  <2> QED
    BY <2>1, KeptFiles
<1> QED
  BY <1>14, <1>15 DEF Kept

\* A directory's clusters are freed and its entry stays.
LEMMA DotFreed ==
    ASSUME NEW v, Typed(v), NEW N, NEW R, Intact(v, N, R), NEW D \in Dirs(N), D # Top,
           NamedSpots(v, R[D]) = {}, NEW q \in Position, q[1] = R[D][1]
    PROVE  Fallen(Put(Freed(v, D.entry.cluster), q, Free))
<1> DEFINE G == Clusters(v, D.entry.cluster)
           u == Freed(v, D.entry.cluster)
           w == Put(u, q, Free)
           x == Forget(w)
<1>1. Laid(v, N, R) /\ DOMAIN R = N /\ PathsApart(N)
  BY DEF Intact, Laid
<1>2. D \in N /\ D.entry.dir /\ D \in NodeSet
  BY <1>1, PathFacts DEF Dirs
<1>3. D.entry.cluster \in Table!Entry
  BY <1>2, NodeFields
<1>4. FreedIn(v, u, G)
  BY <1>3, FreedIs
<1>5. SlotPut(u, w, q, Free)
  BY <1>4, PutIs, MarksAreSlots DEF FreedIn
<1> SUFFICES Fallen(w)
  OBVIOUS
<1>6. /\ Seg(v.table, R[D]) /\ R[D][1] = D.entry.cluster /\ D.entry.cluster \in Cluster
      /\ G = Members(R[D])
  BY <1>1, <1>2, RunOf
<1>7. R[D][1] \in Members(R[D])
  BY <1>6, SegFields
<1> HIDE DEF u, G
<1>8. Typed(w)
  BY <1>5 DEF SlotPut
<1>9. /\ x.table = w.table /\ Typed(x)
      /\ \A a \in Areas : w.table[a] # FREE => x.cells[a] = w.cells[a]
  <2> HIDE DEF w
  <2> QED
    BY <1>8, ForgetIs
<1> SUFFICES DirectoryFreed(x) /\ ~Unharmed(w)
  BY DEF Fallen, Excused
<1> HIDE DEF w, x
<1>10. /\ \A a \in Table!Entry : x.table[a] = IF a \in G THEN FREE ELSE v.table[a]
       /\ \A a \in Areas : a # q[1] => w.cells[a] = v.cells[a]
  BY <1>4, <1>5, <1>9 DEF FreedIn, SlotPut
<1>11. ASSUME NEW n \in N, n # D
       PROVE  Same(v, x, Members(R[n])) /\ Same(v, w, Members(R[n]))
  <2>1. \A a \in Members(R[n]) : a \notin Members(R[D])
    BY <1>1, <1>2, <1>11 DEF Laid, RunsApart
  <2>2. \A a \in Members(R[n]) : a \in Held(R)
    BY <1>1, <1>11, HeldAre
  <2> SUFFICES ASSUME NEW a \in Members(R[n])
               PROVE  /\ x.cells[a] = v.cells[a] /\ x.table[a] = v.table[a]
                      /\ w.cells[a] = v.cells[a] /\ w.table[a] = v.table[a]
    BY DEF Same
  <2>3. a \in Areas /\ a \in Table!Entry /\ v.table[a] # FREE
    BY <2>2, <1>1, HeldIsUsed
  <2>4. x.table[a] = v.table[a] /\ a # q[1]
    BY <2>1, <2>3, <1>6, <1>7, <1>10
  <2> QED
    BY <2>3, <2>4, <1>9, <1>10
<1>12. ASSUME NEW n \in N, n # Top
       PROVE  \E d \in Dirs(N) : n \in Within(x, d)
  <2>1. PICK d \in Dirs(N) : LiesIn(v, R, n, d)
    BY <1>1, <1>12 DEF Laid
  <2>2. n.pos \in NamedSpots(v, R[d]) /\ n = NodeAt(v, d, n.pos)
    BY <2>1 DEF LiesIn
  <2>3. d # D /\ d \in N
    BY <2>2 DEF Dirs
  <2>4. PICK up \in N : Neat(v, d, up.entry.cluster, R[d])
    BY <1>1 DEF Laid, Orderly
  <2>5. /\ \A s \in Spots(R[d]) : At(x, s) = At(v, s)
        /\ \A c \in Members(R[d]) : x.table[c] = v.table[c]
    BY <2>3, <1>11, SameSpots
  <2>6. Neat(x, d, up.entry.cluster, R[d]) /\ NamedSpots(x, R[d]) = NamedSpots(v, R[d])
    BY <2>4, <2>5, NeatSame
  <2>7. Within(x, d) = {NodeAt(x, d, p) : p \in NamedSpots(x, R[d])}
    BY <2>6, <1>9, NeatWithin
  <2>8. At(x, n.pos) = At(v, n.pos)
    BY <2>2, <2>5 DEF NamedSpots, EntrySpots
  <2>9. n = NodeAt(x, d, n.pos)
    BY <2>2, <2>8 DEF NodeAt
  <2> QED
    BY <2>2, <2>6, <2>7, <2>9
<1>13. \A n \in N : Len(n.path) \in 0 .. PastEnd
  BY <1>1, DepthOfNodes, Numbers
<1>14. D \in NodesOf(x)
  BY <1>1, <1>2, <1>9, <1>12, <1>13, Reached
<1>15. x.table[D.entry.cluster] = FREE
  BY <1>3, <1>6, <1>7, <1>10
<1>16. DirectoryFreed(x)
  BY <1>2, <1>6, <1>14, <1>15 DEF DirectoryFreed
<1>17. ElsewhereSame(v, w, N, R, D)
  <2> SUFFICES ASSUME NEW d \in Dirs(N), d # D
               PROVE  /\ \A c \in Members(R[d]) : w.table[c] = v.table[c]
                      /\ \A s \in Spots(R[d]) : At(w, s) = At(v, s)
    BY DEF ElsewhereSame
  <2>1. Same(v, w, Members(R[d]))
    BY <1>11 DEF Dirs
  <2> QED
    BY <2>1, SameSpots
<1>18. ~Unharmed(w)
  <2> DEFINE r == <<D.entry.cluster>>
  <2>1. r \in Seq(Cluster) /\ Len(r) = 1 /\ r[1] = D.entry.cluster /\ LastOf(r) = D.entry.cluster
    BY <1>6 DEF LastOf
  <2> HIDE DEF r
  <2>2. Linking(w.table, D.entry.cluster, r)
    <3>1. \A k \in 1 .. Len(r) - 1 : FALSE
      BY <2>1
    <3> QED
      BY <2>1, <3>1 DEF Linking
  <2>3. FREE \notin Cluster \cup {EOF}
    BY Numbers
  <2>4. w.table[LastOf(r)] \notin Cluster \cup {EOF}
    BY <2>1, <2>3, <1>9, <1>15
  <2> QED
    BY <2>2, <2>4, <1>1, <1>8, <1>17, BrokenDir
<1> QED
  BY <1>16, <1>18

LEMMA DeleteNodeIs ==
    ASSUME NEW v, Typed(v), NEW N, NEW R, Laid(v, N, R), NEW y \in N, y # Top, Own(v, R, y),
           NEW f, f.entry = y.entry, f.pos = y.pos
    PROVE  LET w == DeleteEntry(v, f).vol
           IN  Removed(v, N, R, w, y) \/ (w = v /\ y.entry.dir)
<1> DEFINE w == DeleteEntry(v, f).vol
<1>1. CASE ~MayDelete(v, f.entry)
  <2>1. w = v
    BY <1>1 DEF DeleteEntry
  <2>2. y.entry.dir
    BY <1>1 DEF MayDelete
  <2> QED
    BY <2>1, <2>2
<1>2. CASE MayDelete(v, f.entry)
  <2>1. w = Put(Freed(v, y.entry.cluster), y.pos, Free)
    BY <1>2 DEF DeleteEntry
  <2>2. ASSUME y.entry.dir
        PROVE  NamedSpots(v, R[y]) = {}
    <3>1. y \in Dirs(N)
      BY <2>2 DEF Dirs
    <3> QED
      BY <3>1, <1>2, <2>2, MayDeleteIs
  <2>3. Removed(v, N, R, Put(Freed(v, y.entry.cluster), y.pos, Free), y)
    BY <2>2, EntryRemoved
  <2> QED
    BY <2>1, <2>3
<1> QED
  BY <1>1, <1>2

\* No node is below a directory that has no entry with a name.
LEMMA EmptyIsLeaf ==
    ASSUME NEW v, NEW N, NEW R, Laid(v, N, R), NEW y \in Dirs(N), y # Top, NamedSpots(v, R[y]) = {},
           NEW n \in N
    PROVE  n = y \/ Front(n.path) # y.path
<1>1. PathsApart(N) /\ y \in N
  BY DEF Laid, Dirs
<1> SUFFICES ASSUME Front(n.path) = y.path, n # y
             PROVE  FALSE
  OBVIOUS
<1>2. CASE n = Top
  <2>1. Front(<<>>) = <<>>
    BY DEF Front
  <2> QED
    BY <2>1, <1>1, <1>2, PathFacts DEF Top
<1>3. CASE n # Top
  <2>1. PICK d \in Dirs(N) : LiesIn(v, R, n, d)
    BY <1>3 DEF Laid
  <2>0. d \in N
    BY DEF Dirs
  <2>4. ChildOf(v, R, n, d)
    BY <2>0, <2>1, <1>1, LiesInFacts
  <2>2. Front(n.path) = d.path
    BY <2>4 DEF ChildOf
  <2>3. d = y
    BY <2>0, <2>2, <1>1 DEF PathsApart
  <2> QED
    BY <2>1, <2>3 DEF LiesIn
<1> QED
  BY <1>2, <1>3

\* What deletefile comes to.
Deleted(v, N, w, y) ==
    /\ y \in N /\ y # Top /\ FilesKeep(v, w, N \ {y})
    /\ (\E Q : Intact(w, N \ {y}, Q)) \/ (y.entry.dir /\ Fallen(w))
    /\ y.entry.dir => \A n \in N : n = y \/ Front(n.path) # y.path
DeleteOutcome(v, N, f, w) ==
    \/ Kept(v, N, w)
    \/ \E y : Deleted(v, N, w, y) /\ f.entry = y.entry /\ f.pos = y.pos
    \/ Fallen(w)

LEMMA DeleteFileIs ==
    ASSUME NEW v, Typed(v), NEW N, NEW R, Intact(v, N, R), NEW p \in Paths
    PROVE  DeleteOutcome(v, N, EntryFromPath(v, p), DeleteFile(v, p).vol)
<1> DEFINE f == EntryFromPath(v, p)
           w == DeleteFile(v, p).vol
<1>1. Laid(v, N, R) /\ DOMAIN R = N /\ PathsApart(N)
  BY DEF Intact, Laid
<1>2. CASE w = v
  <2>1. Kept(v, N, v)
    BY SameKept DEF Same
  <2> QED
    BY <2>1, <1>2 DEF DeleteOutcome
<1>3. CASE w # v
  <2>1. f.found /\ w = DeleteEntry(v, f).vol /\ MayDelete(v, f.entry)
    BY <1>3 DEF DeleteFile, DeleteFound, DeleteEntry, Answer
  <2>2. w = Put(Freed(v, f.entry.cluster), f.pos, Free)
    BY <2>1 DEF DeleteEntry
  <2>3. CASE IsRoot(v, p)
    <3>1. f = [NotFound EXCEPT !.found = TRUE]
      BY <2>3 DEF EntryFromPath
    <3>2. f.entry = RootEntry /\ f.pos = <<ROOT, 1>>
      BY <3>1 DEF NotFound
    <3>3. f.entry.dir /\ f.entry.cluster = ROOT /\ Top.entry.cluster = ROOT
      BY <3>2 DEF RootEntry, Entry, Top
    <3>4. Top \in Dirs(N)
      BY <1>1, PathFacts
    <3>5. NamedSpots(v, R[Top]) = {}
      <4>1. f.entry.cluster = Top.entry.cluster
        BY <3>3
      <4> HIDE DEF f
      <4> QED
        BY <4>1, <3>3, <3>4, <2>1, <1>1, MayDeleteIs
    <3>6. Freed(v, ROOT) = v
      <4>1. ROOT \in Table!Entry /\ ROOT \notin Cluster
        BY Numbers
      <4> QED
        BY <4>1, FreedIs
    <3>7. w = Put(v, <<ROOT, 1>>, Free)
      BY <2>2, <3>2, <3>3, <3>6
    <3>8. Kept(v, N, Put(v, <<ROOT, 1>>, Free))
      BY <3>5, RootTouched
    <3> QED
      BY <3>7, <3>8 DEF DeleteOutcome
  <2>4. CASE EndsInNode(N, f)
    <3>1. PICK y \in N : y # Top /\ f.entry = y.entry /\ f.pos = y.pos
      BY <2>4 DEF EndsInNode
    <3> HIDE DEF f
    <3>2. Removed(v, N, R, w, y)
      <4>1. Own(v, R, y)
        BY <1>1, <3>1, RunIsOwn
      <4>2. Removed(v, N, R, DeleteEntry(v, f).vol, y) \/ DeleteEntry(v, f).vol = v
        BY <4>1, <3>1, <1>1, DeleteNodeIs
      <4> QED
        BY <4>2, <2>1, <1>3
    <3> HIDE DEF w
    <3>3. Deleted(v, N, w, y)
      <4>1. /\ FilesKeep(v, w, N \ {y})
            /\ Intact(w, N \ {y}, Without(R, y)) \/ (y.entry.dir /\ Fallen(w))
        BY <3>1, <3>2, IntactRemoved
      <4>2. y.entry.dir => \A n \in N : n = y \/ Front(n.path) # y.path
        <5>1. y.entry.dir => NamedSpots(v, R[y]) = {}
          <6>1. f.entry.dir => y \in Dirs(N) /\ f.entry.cluster = y.entry.cluster
            BY <3>1 DEF Dirs
          <6> QED
            BY <6>1, <3>1, <2>1, <1>1, MayDeleteIs
        <5>2. y.entry.dir => y \in Dirs(N)
          BY DEF Dirs
        <5>3. CASE y.entry.dir
          <6>1. \A n \in N : n = y \/ Front(n.path) # y.path
            BY <5>1, <5>2, <5>3, <3>1, <1>1, EmptyIsLeaf
          <6> QED
            BY <6>1
        <5> QED
          BY <5>3
      <4> QED
        BY <4>1, <4>2, <3>1 DEF Deleted
    <3>4. DeleteOutcome(v, N, f, w)
      BY <3>1, <3>3 DEF DeleteOutcome
    <3> QED
      BY <3>4 DEF f, w
  <2>5. CASE EndsInDot(v, N, R, f)
    <3>1. PICK D \in Dirs(N) : /\ D # Top /\ f.pos \in {<<R[D][1], 1>>, <<R[D][1], 2>>}
                               /\ f.entry = At(v, f.pos)
      BY <2>5 DEF EndsInDot
    <3>2. PICK up \in N : Above(N, D, up) /\ Neat(v, D, up.entry.cluster, R[D])
      BY <1>1 DEF Laid, Orderly
    <3>3. /\ At(v, <<R[D][1], 1>>) = Entry(".", TRUE, D.entry.cluster, 0)
          /\ At(v, <<R[D][1], 2>>) = Entry("..", TRUE, up.entry.cluster, 0)
      BY <3>1, <3>2 DEF Neat
    <3>4. IsRun(v.table, R[D]) /\ D \in N
      BY <1>1, RunOfDir
    <3>5. CASE f.pos = <<R[D][1], 1>>
      <4>1. f.entry.dir /\ f.entry.cluster = D.entry.cluster
        BY <3>1, <3>3, <3>5 DEF Entry
      <4> HIDE DEF f
      <4>2. NamedSpots(v, R[D]) = {}
        BY <4>1, <2>1, <1>1, MayDeleteIs
      <4>3. f.pos \in Position /\ f.pos[1] = R[D][1]
        <5>1. <<R[D][1], 1>> \in Spots(R[D])
          BY <3>4, FirstSpots
        <5> QED
          BY <5>1, <3>5, SpotArea
      <4>4. Fallen(Put(Freed(v, D.entry.cluster), f.pos, Free))
        BY <4>2, <4>3, <3>1, DotFreed
      <4>5. w = Put(Freed(v, D.entry.cluster), f.pos, Free)
        BY <2>2, <4>1
      <4>6. Fallen(w)
        BY <4>4, <4>5
      <4> HIDE DEF w
      <4>7. DeleteOutcome(v, N, f, w)
        BY <4>6 DEF DeleteOutcome
      <4> QED
        BY <4>7 DEF f, w
    <3>6. CASE f.pos = <<R[D][1], 2>>
      <4>1. f.entry.dir /\ f.entry.cluster = up.entry.cluster
        BY <3>1, <3>3, <3>6 DEF Entry
      <4>2. PICK E \in Dirs(N) : LiesIn(v, R, D, E)
        BY <1>1, <3>1, <3>4 DEF Laid
      <4>3. up = E
        BY <4>2, <3>2, <3>4, <1>1, AboveIs
      <4> HIDE DEF f
      <4>4. NamedSpots(v, R[E]) = {}
        BY <4>1, <4>3, <2>1, <1>1, MayDeleteIs
      <4> QED
        BY <4>2, <4>4 DEF LiesIn
    <3> QED
      BY <3>1, <3>5, <3>6
  <2> QED
    BY <2>1, <2>3, <2>4, <2>5, PathEnds
<1> QED
  BY <1>2, <1>3

------------------------------------------------------------------------
(* Where paths lead while a file is written.                               *)

IsDirAt(t, at) == at \in DOMAIN t /\ t[at] = "dir"

LEMMA SameTrail ==
    ASSUME NEW t, NEW u, \A at : IsDirAt(t, at) <=> IsDirAt(u, at),
           NEW cwd \in Seq(Names), NEW p \in Paths, NEW i \in 0 .. Len(p.names)
    PROVE  TreeTrail(t, cwd, p)[i] = TreeTrail(u, cwd, p)[i]
<1> DEFINE L == Len(p.names)
           S == {k \in 0 .. L : TreeTrail(t, cwd, p)[k] = TreeTrail(u, cwd, p)[k]}
<1>1. L \in Nat /\ 0 \in Nat
  BY PathFields
<1>2. \A at, n : StepInTree(t, at, n) = StepInTree(u, at, n)
  BY DEF StepInTree, IsDirAt
<1>3. 0 \in S
  BY <1>1, TreeTrailIs
<1>4. \A k \in 0 + 1 .. L : k - 1 \in S => k \in S
  <2> SUFFICES ASSUME NEW k \in 1 .. L, k - 1 \in S
               PROVE  k \in S
    OBVIOUS
  <2>1. TreeTrail(t, cwd, p)[k] = StepInTree(t, TreeTrail(t, cwd, p)[k - 1], p.names[k])
    BY TreeTrailIs
  <2>2. TreeTrail(u, cwd, p)[k] = StepInTree(u, TreeTrail(u, cwd, p)[k - 1], p.names[k])
    BY TreeTrailIs
  <2>3. TreeTrail(t, cwd, p)[k - 1] = TreeTrail(u, cwd, p)[k - 1] /\ k \in 0 .. L
    BY <1>1
  <2> QED
    BY <2>1, <2>2, <2>3, <1>2
<1> HIDE DEF S, L
<1>5. 0 .. L \subseteq S
  BY <1>1, <1>3, <1>4, UpTo
<1> QED
  BY <1>5 DEF S, L

LEMMA OneDir ==
    ASSUME NEW v, NEW N, NEW R, Laid(v, N, R), NEW n \in Dirs(N), NEW m \in Dirs(N),
           n.entry.cluster = m.entry.cluster
    PROVE  n = m
<1>1. n \in DOMAIN R /\ m \in DOMAIN R /\ RunsApart(v.table, N, R)
  BY RunOfDir DEF Laid
<1>2. /\ R[n][1] = n.entry.cluster /\ IsRun(v.table, R[n])
      /\ R[m][1] = m.entry.cluster /\ IsRun(v.table, R[m])
  BY <1>1 DEF RunsApart
<1>3. R[n][1] \in Members(R[n]) /\ R[m][1] \in Members(R[m])
  BY <1>2, RunFields DEF Members
<1> QED
  BY <1>1, <1>2, <1>3 DEF RunsApart

LEMMA LaidIsNavigable ==
    ASSUME NEW v, Typed(v), NEW N, NEW R, Laid(v, N, R), Stands(v, N)
    PROVE  /\ Navigable(v) /\ Formed(v) /\ NodesOf(v) = N
           /\ Here(v) \in Dirs(N) /\ Here(v).entry.cluster = v.cwd /\ Here(v).path \in Seq(Names)
<1>1. Formed(v) /\ NodesOf(v) = N
  BY LaidIsFormed, LaidNodes
<1>2. Navigable(v)
  BY <1>1 DEF Navigable, Stands, Dirs
<1>3. Here(v) \in NodesOf(v) /\ Here(v).entry.dir /\ Here(v).entry.cluster = v.cwd
      /\ Here(v).path \in Seq(Names)
  BY <1>2, HereIs
<1> QED
  BY <1>1, <1>2, <1>3 DEF Dirs

LEMMA DirsInTree ==
    ASSUME NEW v, Typed(v), NEW N, NEW R, Laid(v, N, R), NEW at
    PROVE  IsDirAt(TreeOf(v, N), at) <=> \E d \in Dirs(N) : d.path = at
<1>1. Formed(v) /\ NodesOf(v) = N
  BY LaidIsFormed, LaidNodes
<1>2. LET t == TreeOf(v, NodesOf(v))
      IN  /\ DOMAIN t = {n.path : n \in NodesOf(v)}
          /\ \A n \in NodesOf(v) : t[n.path] = "dir" <=> n.entry.dir
  BY <1>1, TreeIs
<1> QED
  BY <1>1, <1>2 DEF IsDirAt, Dirs

\* The same directories, the same trails.
TrailOf(v, N, p) == TreeTrail(TreeOf(v, N), Here(v).path, p)

LEMMA SameDirs ==
    ASSUME NEW v, Typed(v), NEW N, NEW R, Laid(v, N, R), Stands(v, N),
           NEW z, Typed(z), NEW M, NEW Q, Laid(z, M, Q), Dirs(M) = Dirs(N), z.cwd = v.cwd
    PROVE  /\ Stands(z, M) /\ Here(z) = Here(v)
           /\ \A p \in Paths : \A i \in 0 .. Len(p.names) : TrailOf(z, M, p)[i] = TrailOf(v, N, p)[i]
<1>1. Stands(z, M)
  BY DEF Stands
<1>2. Here(v) \in Dirs(N) /\ Here(v).entry.cluster = v.cwd /\ Here(v).path \in Seq(Names)
  BY LaidIsNavigable
<1>3. Here(z) \in Dirs(N) /\ Here(z).entry.cluster = v.cwd
  BY <1>1, LaidIsNavigable
<1>4. Here(z) = Here(v)
  BY <1>2, <1>3, OneDir
<1>5. \A at : IsDirAt(TreeOf(z, M), at) <=> IsDirAt(TreeOf(v, N), at)
  BY DirsInTree
<1> QED
  BY <1>1, <1>2, <1>4, <1>5, SameTrail DEF TrailOf

LEMMA NewIsNotRoot ==
    ASSUME NEW v, NEW p \in NewPaths
    PROVE  ~IsRoot(v, p)
<1>1. p.names # <<>> /\ Leaf(p) \in Names /\ "." \notin Names
  BY SlotsAssumption DEF NewPaths
<1>2. p.names = <<".">> => Leaf(p) = "."
  BY DEF Leaf
<1> QED
  BY <1>1, <1>2 DEF IsRoot, Root

\* What is found at the end of a path below D.
LeafIs(M, D, p, f) ==
    /\ f.found => \E m \in M : m.path = Append(D.path, Leaf(p)) /\ m.entry = f.entry /\ m.pos = f.pos
    /\ \A m \in M : m.path = Append(D.path, Leaf(p)) => f.found

LEMMA LeafOfPath ==
    ASSUME NEW z, Typed(z), NEW M, NEW Q, Laid(z, M, Q), Stands(z, M), NEW p \in NewPaths,
           NEW D \in Dirs(M), D.path = TrailOf(z, M, p)[Len(p.names) - 1]
    PROVE  /\ LeafIs(M, D, p, EntryFromPath(z, p))
           /\ Parent(z, p).found /\ Parent(z, p).entry.cluster = D.entry.cluster
           /\ EntryFromPath(z, p) = Lookup(z, D.entry.cluster, Leaf(p), FALSE)
<1> DEFINE L == Len(p.names)
           g == Trail(z, p)[L - 1]
           f == EntryFromPath(z, p)
<1>1. p \in Paths /\ L \in Nat /\ L >= 1 /\ L - 1 \in 0 .. L /\ Leaf(p) \in Names /\ p.names[L] = Leaf(p)
      /\ L \in 1 .. L /\ L - 1 < L
  BY ParentTyped, PathFields DEF Leaf
<1>2. Navigable(z) /\ Formed(z) /\ NodesOf(z) = M
  BY LaidIsNavigable
<1>3. f = Trail(z, p)[L]
  BY NewIsNotRoot DEF EntryFromPath, Resolve
<1>4. Trail(z, p)[L] = Below(z, g, Leaf(p), FALSE)
  <2>1. Trail(z, p)[L] = Below(z, Trail(z, p)[L - 1], p.names[L], L < L)
    BY <1>1, TrailIs
  <2>2. (L < L) = FALSE
    BY <1>1
  <2> QED
    BY <2>1, <2>2, <1>1
<1>5. Leading(z, g, TreeTrail(TreeOf(z, NodesOf(z)), Here(z).path, p)[L - 1], L - 1 < Len(p.names) \/ L - 1 = 0)
  BY <1>1, <1>2, TrailFollows
<1>6. (L - 1 < Len(p.names) \/ L - 1 = 0) = TRUE
  BY <1>1
<1>7. Parent(z, p) = g
  BY DEF Parent, Resolve
<1> HIDE DEF g, f
<1>8. Leading(z, g, D.path, TRUE)
  BY <1>2, <1>5, <1>6 DEF TrailOf, L
<1> HIDE DEF L
<1>9. D \in M /\ D.entry.dir /\ D \in NodesOf(z)
  BY <1>2 DEF Dirs
<1>10. g.found
  BY <1>8, <1>9 DEF Leading, Fits
<1>11. g.entry.cluster = D.entry.cluster
  <2>1. PICK m \in NodesOf(z) : m.path = D.path /\ m.entry.cluster = g.entry.cluster
    BY <1>8, <1>10 DEF Leading
  <2>2. m = D
    BY <2>1, <1>2, <1>9 DEF Formed
  <2> QED
    BY <2>1, <2>2
<1>12. f = Lookup(z, D.entry.cluster, Leaf(p), FALSE)
  BY <1>3, <1>4, <1>10, <1>11 DEF Below
<1>13. LeafIs(M, D, p, f)
  <2>1. LET h == Lookup(z, D.entry.cluster, Leaf(p), FALSE)
        IN  /\ h.found => \E m \in NodesOf(z) : /\ m.path = Append(D.path, Leaf(p)) /\ Fits(m, FALSE)
                                                /\ m.entry = h.entry /\ m.pos = h.pos
            /\ \A m \in NodesOf(z) : m.path = Append(D.path, Leaf(p)) /\ Fits(m, FALSE) => h.found
    BY <1>1, <1>2, <1>9, LookupOfName
  <2>2. \A m : Fits(m, FALSE)
    BY DEF Fits
  <2> QED
    BY <2>1, <2>2, <1>2, <1>12 DEF LeafIs
<1> QED
  BY <1>7, <1>10, <1>11, <1>12, <1>13 DEF f

------------------------------------------------------------------------
(* A file that could not be written is deleted again.                      *)

\* The file's entry is written, and nothing else where the nodes are.
FileAt(u, z, H, p, e) ==
    /\ Typed(z) /\ z.cwd = u.cwd /\ SameBut(u, z, H, p) /\ At(z, p) = e
    /\ e \in EntrySlot /\ ~e.dir

\* A directory for the file, and a path that leads to it.
LeadsInto(v, N, D, p, e) ==
    p \in NewPaths /\ D.path = TrailOf(v, N, p)[Len(p.names) - 1] /\ Leaf(p) = e.name

\* What belongs to the new file is kept.
LEMMA FilesPlaced ==
    ASSUME NEW v, NEW u, NEW N, NEW R, NEW Q, NEW D, NEW p, NEW e0, SettledFor(v, u, N, R, Q, D, p, e0),
           NEW z, NEW e, FileAt(u, z, Held(Q), p, e)
    PROVE  \A n \in N : ~n.entry.dir => Q[n] = R[n] /\ Same(v, z, Members(R[n]))
<1>1. /\ Typed(v) /\ Intact(v, N, R) /\ D \in Dirs(N) /\ Typed(u) /\ Settled(v, u, N, R, Q, D, p)
      /\ Laid(u, N, Q)
  BY DEF SettledFor, Settled
<1>2. /\ DOMAIN Q = N /\ \A n \in N : ~n.entry.dir => Q[n] = R[n] /\ Same(v, u, Members(R[n]))
  BY <1>1, SettledSized
<1> SUFFICES ASSUME NEW n \in N, ~n.entry.dir
             PROVE  Same(v, z, Members(R[n])) /\ Q[n] = R[n]
  OBVIOUS
<1>3. Members(Q[n]) \subseteq Held(Q)
  BY <1>2, HeldAre
<1>4. p[1] \notin Members(Q[n])
  <2>1. CASE Open(u, Q[D], p)
    <3>1. p \in Spots(Q[D]) /\ D \in DOMAIN Q /\ D # n
      BY <2>1, <1>1, RunOfDir DEF Open, Dirs
    <3> QED
      BY <3>1, <1>1, <1>2, SpotIsInOne
  <2>2. CASE Unseen(u, Q, p)
    BY <2>2, <1>3 DEF Unseen
  <2> QED
    BY <2>1, <2>2, <1>1 DEF Settled
<1>5. Same(u, z, Members(Q[n]))
  <2>1. SameBut(u, z, Held(Q), p)
    BY DEF FileAt
  <2> QED
    BY <2>1, <1>3, <1>4 DEF SameBut, Same
<1> QED
  BY <1>2, <1>5, SameOn

LEMMA SameDirsOf ==
    ASSUME NEW v, NEW u, NEW N, NEW R, NEW Q, NEW D, NEW p, NEW e0, SettledFor(v, u, N, R, Q, D, p, e0),
           NEW z, Typed(z), z.cwd = u.cwd, NEW M, NEW P, Laid(z, M, P), Dirs(M) = Dirs(N),
           NEW path, NEW e, LeadsInto(v, N, D, path, e)
    PROVE  /\ Stands(z, M) /\ D \in Dirs(M) /\ D.path = TrailOf(z, M, path)[Len(path.names) - 1]
           /\ LeafIs(M, D, path, EntryFromPath(z, path))
<1>1. Typed(v) /\ Laid(v, N, R) /\ Stands(v, N) /\ z.cwd = v.cwd /\ D \in Dirs(N)
  BY DEF SettledFor, Intact
<1>2. path \in Paths /\ Len(path.names) - 1 \in 0 .. Len(path.names) /\ path \in NewPaths
      /\ D.path = TrailOf(v, N, path)[Len(path.names) - 1]
  BY ParentTyped, PathFields DEF LeadsInto
<1>3. /\ Stands(z, M)
      /\ \A q \in Paths : \A i \in 0 .. Len(q.names) : TrailOf(z, M, q)[i] = TrailOf(v, N, q)[i]
  BY <1>1, SameDirs
<1>4. D.path = TrailOf(z, M, path)[Len(path.names) - 1]
  BY <1>2, <1>3
<1>5. LeafIs(M, D, path, EntryFromPath(z, path))
  BY <1>1, <1>2, <1>3, <1>4, LeafOfPath
<1> QED
  BY <1>1, <1>3, <1>4, <1>5

\* The new node of a file, with or without clusters.
FileNode(u, z, N, Q, D, p, e, y) ==
    /\ RoomFor(u, N, Q, D, p, e) /\ y \notin N /\ y # Top
    /\ y.entry = e /\ y.pos = p /\ y.path = Append(D.path, e.name)
    /\ Dirs(N \cup {y}) = Dirs(N)
    /\ Laid(z, N \cup {y}, Q)

LEMMA FileIsNode ==
    ASSUME NEW v, NEW u, NEW N, NEW R, NEW Q, NEW D, NEW p, NEW e0, SettledFor(v, u, N, R, Q, D, p, e0),
           Open(u, Q[D], p), NEW z, NEW e, e.name = e0.name, FileAt(u, z, Held(Q), p, e)
    PROVE  FileNode(u, z, N, Q, D, p, e, NewNode(D, p, e))
<1> DEFINE y == NewNode(D, p, e)
<1>1. /\ Typed(v) /\ Intact(v, N, R) /\ D \in Dirs(N) /\ Typed(u) /\ Settled(v, u, N, R, Q, D, p)
      /\ Laid(u, N, Q) /\ e0.name \in Names /\ NoNode(N, D, e0)
  BY DEF SettledFor, Settled
<1>2. DOMAIN Q = N
  BY <1>1, SettledSized
<1>3. e \in EntrySlot /\ e.name \in Names /\ NoNode(N, D, e) /\ ~e.dir /\ SameBut(u, z, Held(Q), p) /\ At(z, p) = e
  BY <1>1 DEF NoNode, FileAt
<1>4. RoomFor(u, N, Q, D, p, e)
  BY <1>1, <1>3, RoomIs
<1>5. y.entry = e /\ y.pos = p /\ y.path = Append(D.path, e.name)
  BY DEF NewNode
<1>6. y \notin N /\ y # Top
  <2>1. y # Top
    BY <1>1, <1>4, NewNodeIs
  <2> QED
    BY <2>1, <1>3, <1>5 DEF NoNode
<1>7. Extends(Q, Q, y) /\ Fresh(z, Q, Q, D, y)
  BY <1>2, <1>3, <1>5, <1>6 DEF Extends, Fresh
<1>8. Laid(z, N \cup {y}, Q)
  BY <1>1, <1>3, <1>4, <1>7, AddNode
<1>9. Dirs(N \cup {y}) = Dirs(N)
  BY <1>3, <1>5 DEF Dirs
<1> HIDE DEF y
<1> QED
  BY <1>4, <1>5, <1>6, <1>8, <1>9 DEF y, FileNode

LEMMA FailedFile ==
    ASSUME NEW v, NEW u, NEW N, NEW R, NEW Q, NEW D, NEW p, NEW e0, SettledFor(v, u, N, R, Q, D, p, e0),
           NEW z, NEW e, e.name = e0.name, FileAt(u, z, Held(Q), p, e),
           Clusters(z, e.cluster) \cap Held(Q) = {},
           NEW path, LeadsInto(v, N, D, path, e)
    PROVE  Kept(v, N, DeleteFile(z, path).vol)
<1> DEFINE f == EntryFromPath(z, path)
           w == DeleteFile(z, path).vol
<1>1. /\ Typed(v) /\ Intact(v, N, R) /\ D \in Dirs(N) /\ Typed(u) /\ Settled(v, u, N, R, Q, D, p)
      /\ Laid(u, N, Q) /\ e0.name \in Names /\ NoNode(N, D, e0) /\ u.cwd = v.cwd
  BY DEF SettledFor, Settled
<1>2. DOMAIN Q = N /\ Sized(N, Q)
  BY <1>1, SettledSized
<1>3. Typed(z) /\ z.cwd = u.cwd /\ SameBut(u, z, Held(Q), p) /\ At(z, p) = e
  BY DEF FileAt
<1>4. \A n \in N : ~n.entry.dir => Q[n] = R[n] /\ Same(v, z, Members(R[n]))
  BY FilesPlaced
<1>5. w = IF f.found THEN DeleteEntry(z, f).vol ELSE z
  BY DEF DeleteFile, DeleteFound, Answer
<1>6. Leaf(path) = e.name
  BY DEF LeadsInto
<1>7. CASE Open(u, Q[D], p)
  <2> DEFINE y == NewNode(D, p, e)
             M == N \cup {y}
  <2>1. /\ y \notin N /\ y # Top
        /\ y.entry = e /\ y.pos = p /\ y.path = Append(D.path, e.name)
        /\ Dirs(M) = Dirs(N) /\ Laid(z, M, Q)
    <3>1. FileNode(u, z, N, Q, D, p, e, y)
      BY <1>7, FileIsNode
    <3> QED
      BY <3>1 DEF FileNode
  <2>2. y \in M /\ M \ {y} = N
    BY <2>1
  <2> HIDE DEF y, M
  <2>3. LeafIs(M, D, path, f)
    BY <2>1, <1>3, SameDirsOf
  <2> HIDE DEF f
  <2>4. f.found /\ f.entry = y.entry /\ f.pos = y.pos
    <3>1. f.found
      BY <2>1, <2>2, <2>3, <1>6 DEF LeafIs
    <3>2. PICK m \in M : m.path = Append(D.path, Leaf(path)) /\ m.entry = f.entry /\ m.pos = f.pos
      BY <3>1, <2>3 DEF LeafIs
    <3>3. m = y
      BY <3>2, <2>1, <2>2, <1>6 DEF Laid, PathsApart
    <3> QED
      BY <3>1, <3>2, <3>3
  <2> DEFINE P == Without(Q, y)
  <2>5. DOMAIN P = N /\ \A n \in N : P[n] = Q[n]
    BY <2>1, <1>2 DEF Without
  <2>6. Own(z, Q, y)
    <3>1. Held(P) = Held(Q)
      BY <2>5, <1>2 DEF Held
    <3> QED
      BY <3>1, <2>1 DEF Own
  <2>7. Removed(z, M, Q, w, y)
    <3>1. Removed(z, M, Q, DeleteEntry(z, f).vol, y) \/ (DeleteEntry(z, f).vol = z /\ y.entry.dir)
      BY <2>1, <2>2, <2>4, <2>6, <1>3, DeleteNodeIs
    <3>2. ~y.entry.dir
      BY <2>1 DEF FileAt
    <3> QED
      BY <3>1, <3>2, <2>4, <1>5
  <2> HIDE DEF w
  <2>8. /\ w.cwd = z.cwd /\ Laid(w, N, P)
        /\ \A n \in N : ~n.entry.dir => Same(z, w, Members(Q[n]))
    BY <2>1, <2>2, <2>7, <1>2 DEF Removed
  <2> HIDE DEF P
  <2>9. Intact(w, N, P)
    <3>1. Stands(w, N)
      BY <2>8, <1>1, <1>3 DEF Intact, Stands
    <3>2. Sized(N, P)
      BY <2>5, <1>2 DEF Sized
    <3> QED
      BY <3>1, <3>2, <2>5, <2>8 DEF Intact
  <2>10. \A n \in N : ~n.entry.dir => Same(v, w, Members(R[n]))
    BY <2>8, <1>4, SameOn
  <2>11. FilesKeep(v, w, N)
    BY <2>10, <1>1, KeptFiles
  <2>12. Kept(v, N, w)
    BY <2>9, <2>11 DEF Kept
  <2> QED
    BY <2>12 DEF w
<1>8. CASE Unseen(u, Q, p)
  <2>1. Same(u, z, Held(Q))
    BY <1>3, <1>8 DEF SameBut, Same, Unseen
  <2>2. Laid(z, N, Q)
    BY <2>1, <1>1, Frame
  <2>3. LeafIs(N, D, path, f)
    BY <2>2, <1>3, SameDirsOf
  <2> HIDE DEF f
  <2>4. ~f.found
    BY <2>3, <1>1, <1>6 DEF LeafIs, NoNode
  <2>5. w = z
    BY <2>4, <1>5
  <2> HIDE DEF w
  <2>6. Intact(z, N, Q)
    <3>1. Stands(z, N)
      BY <1>1, <1>3 DEF Intact, Stands
    <3> QED
      BY <3>1, <2>2, <1>2 DEF Intact
  <2>7. FilesKeep(v, z, N)
    BY <1>1, <1>4, KeptFiles
  <2>8. Kept(v, N, w)
    BY <2>5, <2>6, <2>7 DEF Kept
  <2> QED
    BY <2>8 DEF w
<1> QED
  BY <1>1, <1>7, <1>8 DEF Settled

------------------------------------------------------------------------
(* A file is written, cluster by cluster.                                  *)

\* The sector k of x is in the cluster d.
SectorIn(v, w, d, x, k) ==
    /\ Typed(w) /\ w.table = v.table /\ w.firstFree = v.firstFree /\ w.cwd = v.cwd
    /\ \A a \in Areas : a # Area(d) => w.cells[a] = v.cells[a]
    /\ \A i \in 1 .. SlotsOf(Area(d)) :
            w.cells[Area(d)][i] = PieceAt(x, k, i, v.cells[Area(d)][i])

LEMMA FilledIs ==
    ASSUME NEW v, Typed(v), NEW d \in Table!Entry, NEW x \in Contents, NEW k \in Nat \ {0}
    PROVE  SectorIn(v, FilledWith(v, d, x, k), d, x, k)
<1> DEFINE w == FilledWith(v, d, x, k)
           a == Area(d)
<1>1. a \in Areas /\ Typed(w)
  BY AreaIsArea, FilledWithTyped
<1>2. v \in Volume /\ v.cells \in [Areas -> Seq(Slot)] /\ Len(v.cells[a]) = SlotsOf(a)
  BY <1>1, VolumeFields
<1>3. w = [v EXCEPT !.cells = [v.cells EXCEPT ![a] =
                [i \in 1 .. Len(v.cells[a]) |-> PieceAt(x, k, i, v.cells[a][i])]]]
  BY DEF FilledWith
<1>4. w.table = v.table /\ w.firstFree = v.firstFree /\ w.cwd = v.cwd
      /\ w.cells = [v.cells EXCEPT ![a] =
                [i \in 1 .. Len(v.cells[a]) |-> PieceAt(x, k, i, v.cells[a][i])]]
  BY <1>2, <1>3 DEF Volume
<1> HIDE DEF w, a
<1>5. w.cells[a] = [i \in 1 .. SlotsOf(a) |-> PieceAt(x, k, i, v.cells[a][i])]
  BY <1>1, <1>2, <1>4
<1>6. \A b \in Areas : b # a => w.cells[b] = v.cells[b]
  BY <1>2, <1>4
<1>7. \A i \in 1 .. SlotsOf(a) : w.cells[a][i] = PieceAt(x, k, i, v.cells[a][i])
  BY <1>5
<1>8. SectorIn(v, w, d, x, k)
  BY <1>1, <1>4, <1>6, <1>7 DEF SectorIn, a
<1> QED
  BY <1>8 DEF w

\* The first k clusters of r have what belongs there.
PartOf(v, r, x, k) ==
    \A j \in 1 .. k : \A i \in 1 .. ClusterSlots :
        (j - 1) * ClusterSlots + i <= Length[x] =>
            v.cells[r[j]][i] = Piece(x, (j - 1) * ClusterSlots + i)

\* The clusters of the file are those of its chain.
InStep(so, r, x, k) ==
    /\ so.vol.table[LastOf(r)] = EOF /\ Len(r) = k /\ so.cluster = LastOf(r)
    /\ PartOf(so.vol, r, x, k)
\* The chain ended at the last cluster of the table, and writing went on elsewhere.
Astray(so, H, r, k) ==
    /\ so.vol.table[LastOf(r)] = EOF /\ LastOf(r) = LastCluster /\ Len(r) < k
    /\ so.cluster \in Cluster /\ so.cluster \notin Members(r) \cup H /\ so.vol.table[so.cluster] = EOF
\* The chain ends too soon, or leads out of the clusters.
Short(t, r, k) == t[LastOf(r)] = PastEnd \/ (t[LastOf(r)] = EOF /\ Len(r) < k)
\* Writing went on in the entry past the table.
WentPast(so, r, k) == so.cluster = PastEnd /\ Spent(so.vol) /\ Short(so.vol.table, r, k)

Growing(so, c, H, x, k, r) ==
    /\ Seg(so.vol.table, r) /\ r[1] = c /\ Members(r) \cap H = {}
    /\ so.ok => so.size = Min({Length[x], k * ClusterSlots})
    /\ ~so.ok \/ InStep(so, r, x, k) \/ Astray(so, H, r, k) \/ WentPast(so, r, k)
Progress(w, c, H, x, k, so) ==
    /\ so \in WriteState /\ Typed(so.vol) /\ so.vol.cwd = w.cwd /\ Same(w, so.vol, H)
    /\ \E r : Growing(so, c, H, x, k, r)

\* A cluster for the file, which is nobody's.
NewCluster(w, c, H) ==
    /\ Typed(w) /\ c \in Cluster /\ c \notin H /\ w.table[c] = EOF
    /\ InUse(w, H) /\ H \subseteq Areas

LEMMA AreaOfCluster ==
    ASSUME NEW d \in 2 .. PastEnd
    PROVE  Area(d) = d /\ d \in Areas /\ d \in Table!Entry /\ SlotsOf(d) = ClusterSlots
<1>1. d \in Table!Entry /\ d \in Areas /\ ~(d < Table!CLUSTER_FIRST) /\ d # ROOT
  BY Numbers
<1> QED
  BY <1>1 DEF Area, SlotsOf

\* The pieces of a sector.
Pieced(v, w, d, x, k) ==
    /\ \A a \in Areas : a # d => w.cells[a] = v.cells[a]
    /\ \A i \in 1 .. ClusterSlots : (k - 1) * ClusterSlots + i <= Length[x] =>
            w.cells[d][i] = Piece(x, (k - 1) * ClusterSlots + i)

LEMMA SectorPieces ==
    ASSUME NEW v, NEW w, NEW d \in 2 .. PastEnd, NEW x \in Contents, NEW k \in Nat \ {0},
           SectorIn(v, w, d, x, k)
    PROVE  Pieced(v, w, d, x, k)
<1>1. Area(d) = d /\ SlotsOf(d) = ClusterSlots
  BY AreaOfCluster
<1>2. \A i \in 1 .. ClusterSlots : w.cells[d][i] = PieceAt(x, k, i, v.cells[d][i])
  BY <1>1 DEF SectorIn
<1>3. \A i \in 1 .. ClusterSlots : i <= ClusterSlots
  BY Numbers
<1> QED
  BY <1>1, <1>2, <1>3 DEF SectorIn, PieceAt, Pieced

LEMMA FirstSector ==
    ASSUME NEW w, NEW c, NEW H, NewCluster(w, c, H), NEW x \in Contents
    PROVE  Progress(w, c, H, x, 1, WriteTo(w, c, x, 1))
<1> DEFINE so == WriteTo(w, c, x, 1)
           u == FilledWith(w, c, x, 1)
<1>1. Typed(w) /\ c \in Cluster /\ c \notin H /\ w.table[c] = EOF /\ H \subseteq Areas
  BY DEF NewCluster
<1>2. c \in 2 .. PastEnd /\ c \in Table!Entry /\ 1 \in Nat \ {0}
  BY <1>1, Numbers
<1>3. so \in WriteState
  BY <1>1, <1>2, WriteToTyped
<1>4. so = [ok |-> TRUE, vol |-> u, cluster |-> c, size |-> Min({Length[x], 1 * ClusterSlots})]
  BY DEF WriteTo, Written
<1>5. SectorIn(w, u, c, x, 1)
  BY <1>1, <1>2, FilledIs
<1> HIDE DEF u, so
<1>6. so.ok = TRUE /\ so.vol = u /\ so.cluster = c /\ so.size = Min({Length[x], 1 * ClusterSlots})
  BY <1>4
<1>7. /\ Typed(u) /\ u.table = w.table /\ u.cwd = w.cwd
      /\ \A a \in Areas : a # c => u.cells[a] = w.cells[a]
      /\ \A i \in 1 .. ClusterSlots : (1 - 1) * ClusterSlots + i <= Length[x] =>
            u.cells[c][i] = Piece(x, (1 - 1) * ClusterSlots + i)
  <2>1. Pieced(w, u, c, x, 1)
    BY <1>2, <1>5, SectorPieces
  <2> QED
    BY <2>1, <1>5 DEF SectorIn, Pieced
<1>8. Same(w, u, H)
  BY <1>1, <1>7 DEF Same
<1> DEFINE r == <<c>>
<1>9. Seg(u.table, r) /\ Members(r) = {c} /\ Len(r) = 1 /\ r[1] = c /\ LastOf(r) = c
  BY <1>1, <1>7, OneClusterRun
<1> HIDE DEF r
<1>10. PartOf(u, r, x, 1)
  BY <1>7, <1>9 DEF PartOf
<1>11. InStep(so, r, x, 1)
  BY <1>1, <1>6, <1>7, <1>9, <1>10 DEF InStep
<1>12. Growing(so, c, H, x, 1, r)
  BY <1>1, <1>6, <1>9, <1>11 DEF Growing
<1>13. Progress(w, c, H, x, 1, so)
  BY <1>3, <1>6, <1>7, <1>8, <1>12 DEF Progress
<1> QED
  BY <1>13 DEF so

\* A chain whose links are as they were.
LEMMA SegKept ==
    ASSUME NEW t, NEW u, NEW r, Seg(t, r), \A a \in Members(r) : a # LastOf(r) => u[a] = t[a],
           u[LastOf(r)] \notin Cluster
    PROVE  Seg(u, r)
<1>1. /\ Len(r) \in Nat /\ Len(r) >= 1 /\ Len(r) \in 1 .. Len(r)
      /\ \A k \in 1 .. Len(r) : r[k] \in Cluster /\ r[k] \in Members(r)
  BY SegFields
<1>2. \A k \in 1 .. Len(r) - 1 : u[r[k]] = r[k + 1]
  <2> SUFFICES ASSUME NEW k \in 1 .. Len(r) - 1
               PROVE  u[r[k]] = r[k + 1]
    OBVIOUS
  <2>1. k \in 1 .. Len(r) /\ k # Len(r)
    BY <1>1
  <2>2. r[k] # LastOf(r)
    BY <2>1, <1>1 DEF Seg, LastOf
  <2> QED
    BY <2>1, <2>2, <1>1 DEF Seg
<1> QED
  BY <1>2 DEF Seg, LastOf

LEMMA ChainIsUsed ==
    ASSUME NEW t, NEW r, Seg(t, r), t[LastOf(r)] \in {EOF, PastEnd}, NEW a \in Members(r)
    PROVE  t[a] # FREE /\ a \in Cluster /\ a \in Table!Entry /\ LastOf(r) \in Members(r)
<1>1. /\ Len(r) \in Nat /\ Len(r) >= 1 /\ Len(r) \in 1 .. Len(r)
      /\ \A k \in 1 .. Len(r) : r[k] \in Cluster /\ r[k] \in Members(r)
  BY SegFields
<1>2. PICK k \in 1 .. Len(r) : a = r[k]
  BY DEF Members
<1>3. CASE k = Len(r)
  BY <1>1, <1>2, <1>3, Numbers DEF LastOf
<1>4. CASE k # Len(r)
  <2>1. k \in 1 .. Len(r) - 1 /\ k + 1 \in 1 .. Len(r)
    BY <1>1, <1>4
  <2>2. t[a] = r[k + 1] /\ r[k + 1] \in Cluster
    BY <2>1, <1>1, <1>2 DEF Seg
  <2> QED
    BY <2>2, <1>1, <1>2, Numbers DEF LastOf
<1> QED
  BY <1>3, <1>4

\* A sector in a cluster that the table just gave.
LEMMA SectorElsewhere ==
    ASSUME NEW w, NEW v, NEW nv, NEW z, NEW d \in 2 .. PastEnd, NEW x \in Contents, NEW k \in Nat \ {0},
           NEW H, H \subseteq Areas, Same(w, v, H), nv.cells = v.cells, d \notin H,
           \A a \in H : nv.table[a] = v.table[a], SectorIn(nv, z, d, x, k)
    PROVE  Same(w, z, H)
<1>1. \A a \in Areas : a # d => z.cells[a] = nv.cells[a]
  <2>1. Pieced(nv, z, d, x, k)
    BY SectorPieces
  <2> QED
    BY <2>1 DEF Pieced
<1>2. z.table = nv.table
  BY DEF SectorIn
<1> QED
  BY <1>1, <1>2 DEF Same

LEMMA PastSector ==
    ASSUME NEW w, NEW c, NEW H, NewCluster(w, c, H), NEW x \in Contents, NEW k \in Nat \ {0},
           NEW so, NEW r, Seg(so.vol.table, r), r[1] = c, Members(r) \cap H = {}, Typed(so.vol),
           Same(w, so.vol, H), so.vol.cwd = w.cwd, so.cluster \in Cluster, so.cluster \notin H,
           so.cluster \in Members(r) => so.cluster = LastOf(r),
           so.vol.table[LastOf(r)] = EOF, Len(r) < k,
           NEW nv, Typed(nv), nv.cells = so.vol.cells, nv.cwd = so.vol.cwd,
           LedPast(so.vol, nv, so.cluster)
    PROVE  Progress(w, c, H, x, k, WriteTo(nv, PastEnd, x, k))
<1> DEFINE z == WriteTo(nv, PastEnd, x, k)
           u == FilledWith(nv, PastEnd, x, k)
           t == so.vol.table
<1>1. PastEnd \in 2 .. PastEnd /\ PastEnd \in Table!Entry /\ PastEnd \notin Cluster /\ EOF \notin Cluster
  BY Numbers
<1>2. z \in WriteState
  BY <1>1, WriteToTyped
<1>3. SectorIn(nv, u, PastEnd, x, k)
  BY <1>1, FilledIs
<1>4. z.vol = u /\ z.cluster = PastEnd /\ z.size = Min({Length[x], k * ClusterSlots})
  BY DEF WriteTo, Written
<1> HIDE DEF z, u
<1>5. u.table = nv.table /\ u.firstFree = nv.firstFree /\ u.cwd = nv.cwd /\ Typed(u)
  BY <1>3 DEF SectorIn
<1>6. /\ Full(nv) /\ nv.firstFree = PastEnd
      /\ \A a \in Table!Entry : a # so.cluster => nv.table[a] = t[a]
      /\ nv.table[so.cluster] \in {PastEnd, t[so.cluster]}
  <2>1. nv.table = [t EXCEPT ![so.cluster] =
            IF so.cluster \in Cluster /\ so.cluster < LastCluster THEN PastEnd ELSE @]
    BY DEF LedPast
  <2>2. t \in [Table!Entry -> Table!Value] /\ so.cluster \in Table!Entry
    BY VolumeFields, Numbers
  <2> HIDE DEF t
  <2>3. /\ \A a \in Table!Entry : a # so.cluster => nv.table[a] = t[a]
        /\ nv.table[so.cluster] \in {PastEnd, t[so.cluster]}
    BY <2>1, <2>2
  <2> QED
    BY <2>3 DEF LedPast
<1>7. H \subseteq Areas /\ PastEnd \notin H /\ \A a \in H : a \in Table!Entry
  BY DEF NewCluster, InUse
<1>8. Same(w, u, H)
  <2>1. \A a \in H : nv.table[a] = t[a]
    BY <1>6, <1>7
  <2> QED
    BY <2>1, <1>1, <1>3, <1>7, SectorElsewhere
<1>9. Seg(u.table, r) /\ Short(u.table, r, k)
  <2>1. LastOf(r) \in Members(r) /\ Members(r) \subseteq Table!Entry
    <3>1. \A a \in Members(r) : a \in Table!Entry
      BY ChainIsUsed
    <3>2. LastOf(r) \in Members(r)
      BY SegFields DEF LastOf
    <3> QED
      BY <3>1, <3>2
  <2>2. \A a \in Members(r) : a # LastOf(r) => u.table[a] = t[a]
    BY <2>1, <1>5, <1>6
  <2>3. u.table[LastOf(r)] \in {PastEnd, EOF}
    <3>1. CASE so.cluster = LastOf(r)
      BY <3>1, <1>1, <1>5, <1>6
    <3>2. CASE so.cluster # LastOf(r)
      BY <3>2, <2>1, <1>1, <1>5, <1>6
    <3> QED
      BY <3>1, <3>2
  <2>4. u.table[LastOf(r)] \notin Cluster
    BY <2>3, <1>1
  <2>5. Seg(u.table, r)
    BY <2>2, <2>4, SegKept
  <2> QED
    BY <2>3, <2>5 DEF Short
<1>10. Spent(u)
  BY <1>5, <1>6 DEF Spent, Full
<1>11. Growing(z, c, H, x, k, r)
  BY <1>4, <1>5, <1>9, <1>10 DEF Growing, WentPast
<1>12. Progress(w, c, H, x, k, z)
  BY <1>2, <1>4, <1>5, <1>8, <1>11 DEF Progress
<1> QED
  BY <1>12 DEF z

LEMMA FreshSector ==
    ASSUME NEW w, NEW c, NEW H, NewCluster(w, c, H), NEW x \in Contents, NEW k \in Nat, k >= 2,
           NEW so, NEW r, Seg(so.vol.table, r), r[1] = c, Members(r) \cap H = {}, Typed(so.vol),
           Same(w, so.vol, H), so.vol.cwd = w.cwd, so.cluster \in Cluster, so.cluster \notin H,
           InStep(so, r, x, k - 1) \/ Astray(so, H, r, k - 1),
           NEW nv, Typed(nv), nv.cells = so.vol.cells, nv.cwd = so.vol.cwd,
           NEW d, Lengthened(so.vol, nv, so.cluster, d)
    PROVE  Progress(w, c, H, x, k, WriteTo(nv, d, x, k))
<1> DEFINE z == WriteTo(nv, d, x, k)
           u == FilledWith(nv, d, x, k)
           t == so.vol.table
<1>1. /\ d \in Cluster /\ t[d] = FREE /\ nv.table[d] = EOF /\ so.cluster # d
      /\ \A a \in Table!Entry : a # d /\ a # so.cluster => nv.table[a] = t[a]
      /\ nv.table[so.cluster] = IF so.cluster < LastCluster THEN d ELSE t[so.cluster]
  BY DEF Lengthened
<1>2. d \in 2 .. PastEnd /\ d \in Table!Entry /\ EOF \notin Cluster /\ EOF # FREE /\ k \in Nat \ {0}
  BY <1>1, Numbers
<1>3. z \in WriteState
  BY <1>2, WriteToTyped
<1>4. SectorIn(nv, u, d, x, k)
  BY <1>2, FilledIs
<1>5. z.ok = TRUE /\ z.vol = u /\ z.cluster = d /\ z.size = Min({Length[x], k * ClusterSlots})
  BY DEF WriteTo, Written
<1> HIDE DEF z, u
<1>6. /\ u.table = nv.table /\ u.cwd = nv.cwd /\ Typed(u)
      /\ \A a \in Areas : a # d => u.cells[a] = so.vol.cells[a]
      /\ \A i \in 1 .. ClusterSlots : (k - 1) * ClusterSlots + i <= Length[x] =>
            u.cells[d][i] = Piece(x, (k - 1) * ClusterSlots + i)
  <2>1. Pieced(nv, u, d, x, k)
    BY <1>2, <1>4, SectorPieces
  <2> QED
    BY <2>1, <1>4 DEF SectorIn, Pieced
<1>7. t[LastOf(r)] = EOF
  BY DEF InStep, Astray
<1>8. \A a \in Members(r) : t[a] # FREE /\ a \in Cluster /\ a \in Table!Entry
  BY <1>7, ChainIsUsed
<1>9. LastOf(r) \in Members(r) /\ LastOf(r) \in Cluster
  BY SegFields DEF LastOf
<1>10. H \subseteq Areas /\ d \notin H /\ d \notin Members(r) /\ \A a \in H : a \in Table!Entry
  <2>1. \A a \in H : w.table[a] # FREE /\ a \in Table!Entry
    BY DEF NewCluster, InUse
  <2>2. \A a \in H : t[a] # FREE
    BY <2>1 DEF Same
  <2> QED
    BY <2>1, <2>2, <1>1, <1>8 DEF NewCluster
<1>11. Same(w, u, H)
  <2>1. \A a \in H : nv.table[a] = t[a]
    BY <1>1, <1>10
  <2> QED
    BY <2>1, <1>2, <1>4, <1>10, SectorElsewhere
<1>12. CASE InStep(so, r, x, k - 1) /\ LastOf(r) < LastCluster
  <2> DEFINE q == Append(r, d)
  <2>1. so.cluster = LastOf(r) /\ Len(r) = k - 1 /\ PartOf(so.vol, r, x, k - 1)
    BY <1>12 DEF InStep
  <2>2. Appended(u.table, r, d, q)
    <3>1. u.table[r[Len(r)]] = d /\ u.table[d] \notin Cluster
      BY <2>1, <1>1, <1>2, <1>6, <1>12 DEF LastOf
    <3>2. \A a \in Members(r) : a # r[Len(r)] => u.table[a] = t[a]
      BY <2>1, <1>1, <1>6, <1>8, <1>10 DEF LastOf
    <3>3. Seg(t, r) /\ d \in Cluster /\ d \notin Members(r)
      BY <1>1, <1>10
    <3> HIDE DEF t
    <3>4. Appended(u.table, r, d, Append(r, d))
      BY <3>1, <3>2, <3>3, SegAppend
    <3> QED
      BY <3>4
  <2> HIDE DEF q
  <2>3. /\ Seg(u.table, q) /\ Len(q) = k /\ q[1] = c /\ LastOf(q) = d /\ q[k] = d
        /\ \A j \in 1 .. k - 1 : q[j] = r[j]
        /\ Members(q) = Members(r) \cup {d}
    BY <2>1, <2>2 DEF Appended, LastOf
  <2>4. PartOf(u, q, x, k)
    <3> SUFFICES ASSUME NEW j \in 1 .. k, NEW i \in 1 .. ClusterSlots,
                        (j - 1) * ClusterSlots + i <= Length[x]
                 PROVE  u.cells[q[j]][i] = Piece(x, (j - 1) * ClusterSlots + i)
      BY DEF PartOf
    <3>1. CASE j = k
      BY <3>1, <2>3, <1>6
    <3>2. CASE j # k
      <4>1. j \in 1 .. k - 1
        BY <3>2
      <4>2. q[j] = r[j] /\ r[j] \in Members(r) /\ r[j] # d
        BY <4>1, <2>1, <2>3, <1>10 DEF Members
      <4>3. r[j] \in Areas
        BY <4>2, <1>8, Numbers
      <4>4. u.cells[q[j]] = so.vol.cells[r[j]]
        BY <4>2, <4>3, <1>6
      <4>5. so.vol.cells[r[j]][i] = Piece(x, (j - 1) * ClusterSlots + i)
        BY <4>1, <2>1 DEF PartOf
      <4> QED
        BY <4>4, <4>5
    <3> QED
      BY <3>1, <3>2
  <2>5. InStep(z, q, x, k)
    BY <2>3, <2>4, <1>1, <1>5, <1>6 DEF InStep
  <2>6. Growing(z, c, H, x, k, q)
    BY <2>3, <2>5, <1>5, <1>10 DEF Growing
  <2> QED
    BY <2>6, <1>3, <1>5, <1>6, <1>11 DEF Progress, z
<1>13. CASE ~(InStep(so, r, x, k - 1) /\ LastOf(r) < LastCluster)
  <2>1. LastOf(r) = LastCluster
    <3>1. LastOf(r) <= LastCluster
      BY <1>9, Numbers
    <3>2. LastOf(r) \in Nat
      BY <1>9, Numbers
    <3> QED
      BY <3>1, <3>2, <1>13, Numbers DEF Astray
  <2>2. \A a \in Members(r) : u.table[a] = t[a]
    <3> SUFFICES ASSUME NEW a \in Members(r)
                 PROVE  u.table[a] = t[a]
      OBVIOUS
    <3>1. a # d /\ a \in Table!Entry
      BY <1>8, <1>10
    <3>2. CASE a # so.cluster
      BY <3>1, <3>2, <1>1, <1>6
    <3>3. CASE a = so.cluster
      <4>1. so.cluster = LastCluster
        BY <3>3, <2>1 DEF InStep, Astray
      <4>2. ~(LastCluster < LastCluster)
        BY Numbers
      <4> QED
        BY <4>1, <4>2, <3>3, <1>1, <1>6
    <3> QED
      BY <3>2, <3>3
  <2>3. Seg(u.table, r) /\ u.table[LastOf(r)] = EOF
    <3>1. u.table[LastOf(r)] = EOF
      BY <2>2, <1>7, <1>9
    <3> QED
      BY <3>1, <2>2, <1>2, SegKept
  <2>6. Len(r) < k
    <3>1. Len(r) \in Nat
      BY SegFields
    <3> QED
      BY <3>1 DEF InStep, Astray
  <2>4. Astray(z, H, r, k)
    BY <2>1, <2>3, <2>6, <1>1, <1>5, <1>6, <1>10 DEF Astray
  <2>5. Growing(z, c, H, x, k, r)
    BY <2>3, <2>4, <1>5 DEF Growing
  <2> QED
    BY <2>5, <1>3, <1>5, <1>6, <1>11 DEF Progress, z
<1> QED
  BY <1>12, <1>13

LEMMA NextSector ==
    ASSUME NEW w, NEW c, NEW H, NewCluster(w, c, H), NEW x \in Contents, NEW k \in Nat, k >= 2,
           NEW so, Progress(w, c, H, x, k - 1, so)
    PROVE  Progress(w, c, H, x, k, WriteOn(so, x, k))
<1> DEFINE z == WriteOn(so, x, k)
           next == NextForWriting(so.vol, so.cluster)
<1> SUFFICES Progress(w, c, H, x, k, z)
  OBVIOUS
<1>1. so \in WriteState /\ Typed(so.vol) /\ so.vol.cwd = w.cwd /\ Same(w, so.vol, H)
  BY DEF Progress
<1>2. PICK r : Growing(so, c, H, x, k - 1, r)
  BY DEF Progress
<1>3. Seg(so.vol.table, r) /\ r[1] = c /\ Members(r) \cap H = {}
      /\ (~so.ok \/ InStep(so, r, x, k - 1) \/ Astray(so, H, r, k - 1) \/ WentPast(so, r, k - 1))
  BY <1>2 DEF Growing
<1>4. z \in WriteState
  BY <1>1, WriteOnTyped
<1>5. Typed(z.vol)
  BY <1>4 DEF WriteState
<1>6. CASE ~so.ok
  <2>1. z = so
    BY <1>6 DEF WriteOn
  <2>2. Growing(so, c, H, x, k, r)
    BY <1>3, <1>6 DEF Growing
  <2>3. Progress(w, c, H, x, k, so)
    BY <2>2, <1>1 DEF Progress
  <2> QED
    BY <2>1, <2>3
<1>7. ASSUME so.ok, next.cluster = FREE, next.vol.table = so.vol.table,
             next.vol.cells = so.vol.cells, next.vol.cwd = so.vol.cwd
      PROVE  Progress(w, c, H, x, k, z)
  <2>1. z = Written(FALSE, next.vol, so.cluster, so.size)
    BY <1>7 DEF WriteOn, WriteNext
  <2>2. z.ok = FALSE /\ z.vol = next.vol
    BY <2>1 DEF Written
  <2> HIDE DEF next, z
  <2>3. Same(w, z.vol, H) /\ z.vol.cwd = w.cwd
    BY <2>2, <1>1, <1>7 DEF Same
  <2>4. Growing(z, c, H, x, k, r)
    BY <2>2, <1>3, <1>7 DEF Growing
  <2> QED
    BY <2>3, <2>4, <1>4, <1>5 DEF Progress
<1>8. CASE so.ok /\ WentPast(so, r, k - 1)
  <2>1. so.cluster = PastEnd /\ Spent(so.vol)
    BY <1>8 DEF WentPast
  <2>2. so.vol.table[PastEnd] = FREE
    BY <1>1, FirmVolume DEF Firm
  <2>3. next = LinkFree(so.vol, PastEnd)
    BY <2>1, <2>2 DEF NextForWriting
  <2>4. next.vol = so.vol /\ next.cluster = FREE
    BY <2>3, <1>1, PastEndIsNotLinked
  <2> HIDE DEF z, next
  <2> QED
    BY <2>4, <1>7, <1>8
<1>9. CASE so.ok /\ (InStep(so, r, x, k - 1) \/ Astray(so, H, r, k - 1))
  <2>1. LastOf(r) \in Members(r) /\ LastOf(r) \in Cluster
    BY <1>3, SegFields DEF LastOf
  <2>2. /\ so.vol.table[so.cluster] = EOF /\ so.cluster \in Cluster /\ so.cluster \notin H
        /\ so.vol.table[LastOf(r)] = EOF
        /\ (so.cluster \in Members(r) => so.cluster = LastOf(r))
    BY <2>1, <1>3, <1>9 DEF InStep, Astray
  <2>3. next = LinkFree(so.vol, so.cluster)
    BY <2>2 DEF NextForWriting
  <2>4. so.cluster \in Table!Entry
    BY <2>2, Numbers
  <2>5. LinkOutcome(so.vol, next.vol, so.cluster, next.cluster)
    BY <2>2, <2>3, <2>4, <1>1, LinkFreeIs
  <2>6. z = IF next.cluster = FREE THEN Written(FALSE, next.vol, so.cluster, so.size)
            ELSE WriteTo(next.vol, next.cluster, x, k)
    BY <1>9 DEF WriteOn, WriteNext
  <2> HIDE DEF z, next
  <2>7. Typed(next.vol) /\ next.vol.cells = so.vol.cells /\ next.vol.cwd = so.vol.cwd
    BY <2>5 DEF LinkOutcome
  <2>8. CASE next.cluster = FREE /\ NothingLeft(so.vol, next.vol)
    <3>1. next.vol.table = so.vol.table /\ next.cluster = FREE /\ so.ok
      BY <2>8, <1>9 DEF NothingLeft
    <3> QED
      BY <3>1, <2>7, <1>7
  <2>9. CASE next.cluster = PastEnd /\ LedPast(so.vol, next.vol, so.cluster)
    <3>1. z = WriteTo(next.vol, PastEnd, x, k)
      <4>1. PastEnd # FREE
        BY Numbers
      <4> QED
        BY <4>1, <2>6, <2>9
    <3>2. Progress(w, c, H, x, k, WriteTo(next.vol, PastEnd, x, k))
      <4>1. k \in Nat \ {0}
        OBVIOUS
      <4>2. Len(r) \in Nat
        BY <1>3, SegFields
      <4>3. Len(r) < k
        BY <4>2, <1>9 DEF InStep, Astray
      <4> QED
        BY <4>1, <4>3, <2>2, <2>7, <2>9, <1>1, <1>3, PastSector
    <3> QED
      BY <3>1, <3>2
  <2>10. CASE Lengthened(so.vol, next.vol, so.cluster, next.cluster)
    <3>1. next.cluster # FREE
      BY <2>10, Numbers DEF Lengthened
    <3>2. z = WriteTo(next.vol, next.cluster, x, k)
      BY <2>6, <3>1
    <3>3. Progress(w, c, H, x, k, WriteTo(next.vol, next.cluster, x, k))
      BY <2>2, <2>7, <2>10, <1>1, <1>3, <1>9, FreshSector
    <3> QED
      BY <3>2, <3>3
  <2> QED
    BY <2>5, <2>8, <2>9, <2>10 DEF LinkOutcome
<1> QED
  BY <1>3, <1>6, <1>8, <1>9

LEMMA FileWriteIs ==
    ASSUME NEW w, NEW c, NEW H, NewCluster(w, c, H), NEW x \in Contents
    PROVE  Progress(w, c, H, x, Sectors(Length[x]), FileWrite(w, c, x))
<1> DEFINE n == Sectors(Length[x])
           S == {k \in 1 .. n : Progress(w, c, H, x, k, Writing(w, c, x)[k])}
<1>1. n \in Nat /\ n >= 1 /\ 1 \in Nat /\ 1 \in 1 .. n /\ n \in 1 .. n
  BY LengthIs, SectorsIs
<1>2. Typed(w) /\ c \in Table!Entry
  BY Numbers DEF NewCluster
<1>3. /\ Writing(w, c, x)[1] = WriteTo(w, c, x, 1)
      /\ \A k \in 2 .. n : Writing(w, c, x)[k] = WriteOn(Writing(w, c, x)[k - 1], x, k)
  BY <1>2, WritingIs
<1>4. 1 \in S
  BY <1>1, <1>3, FirstSector
<1>5. \A k \in 1 + 1 .. n : k - 1 \in S => k \in S
  <2> SUFFICES ASSUME NEW k \in 2 .. n, k - 1 \in S
               PROVE  k \in S
    OBVIOUS
  <2>1. k \in 1 .. n /\ k \in Nat /\ k >= 2
    BY <1>1
  <2>2. Progress(w, c, H, x, k - 1, Writing(w, c, x)[k - 1])
    OBVIOUS
  <2>3. Progress(w, c, H, x, k, WriteOn(Writing(w, c, x)[k - 1], x, k))
    BY <2>1, <2>2, NextSector
  <2> QED
    BY <2>1, <2>3, <1>3
<1> HIDE DEF S, n
<1>6. 1 .. n \subseteq S
  BY <1>1, <1>4, <1>5, UpTo
<1> QED
  BY <1>1, <1>6 DEF S, FileWrite, n

\* The entry of the file is in its slot, and the file has a first cluster.
Prepared(v, u, N, R, Q, D, p, e0, H, w, c) ==
    /\ SettledFor(v, u, N, R, Q, D, p, e0) /\ ~e0.dir
    /\ Held(Q) \subseteq H /\ p[1] \in H /\ NewCluster(w, c, H)
    /\ w.cwd = u.cwd /\ SameBut(u, w, H, p) /\ At(w, p) = e0

\* What closing makes of a file's entry.
ClosesTo(e0, c, n, e) == e0.kind = "entry" /\ e = [e0 EXCEPT !.cluster = c, !.size = n]
LEMMA ClosedEntry ==
    ASSUME NEW e0 \in EntrySlot, ~e0.dir, NEW c, NEW n
    PROVE  ClosesTo(e0, c, n, Entry(e0.name, FALSE, c, n))
<1>1. e0 \in [kind : {"entry"}, name : Names \cup {".", ".."}, dir : BOOLEAN,
             cluster : Table!Entry, size : Nat]
  BY DEF EntrySlot
<1>2. e0.dir \in BOOLEAN /\ e0.kind = "entry"
  BY <1>1
<1>3. e0.dir = FALSE
  BY <1>2, Zenon
<1>4. e0 = [kind |-> e0.kind, name |-> e0.name, dir |-> e0.dir, cluster |-> e0.cluster,
            size |-> e0.size]
  BY <1>1
<1>5. [e0 EXCEPT !.cluster = c, !.size = n] = Entry(e0.name, e0.dir, c, n)
  <2> DEFINE m == e0.name
             d == e0.dir
             k == e0.cluster
             s == e0.size
  <2>1. e0 = [kind |-> "entry", name |-> m, dir |-> d, cluster |-> k, size |-> s]
    BY <1>2, <1>4
  <2> HIDE DEF m, d, k, s
  <2> DEFINE e1 == [e0 EXCEPT !.cluster = c]
  <2>2. e1 = [kind |-> "entry", name |-> m, dir |-> d, cluster |-> c, size |-> s]
    BY <2>1
  <2> HIDE DEF e1
  <2>3. [e1 EXCEPT !.size = n] = Entry(m, d, c, n)
    BY <2>2 DEF Entry
  <2> QED
    BY <2>3 DEF m, d, e1
<1>6. Entry(e0.name, FALSE, c, n) = [e0 EXCEPT !.cluster = c, !.size = n]
  BY <1>3, <1>5, Zenon
<1> QED
  BY <1>2, <1>6, Zenon DEF ClosesTo

LEMMA ClosedIs ==
    ASSUME NEW v, NEW u, NEW N, NEW R, NEW Q, NEW D, NEW p, NEW e0, NEW H, NEW w, NEW c,
           Prepared(v, u, N, R, Q, D, p, e0, H, w, c),
           NEW so, Typed(so.vol), so.vol.cwd = w.cwd, Same(w, so.vol, H), so.size \in Nat,
           NEW e, e = Entry(e0.name, FALSE, c, so.size),
           NEW z, z = FileClose(so.vol, p, c, so.size)
    PROVE  FileAt(u, z, Held(Q), p, e) /\ SlotPut(so.vol, z, p, e)
<1>1. /\ e0 \in EntrySlot /\ e0.name \in Names /\ ~e0.dir /\ p \in Position
      /\ Held(Q) \subseteq H /\ p[1] \in H /\ c \in Cluster /\ H \subseteq Areas
      /\ w.cwd = u.cwd /\ SameBut(u, w, H, p) /\ At(w, p) = e0
  BY DEF Prepared, SettledFor, Settled, NewCluster
<1>2. /\ \A a \in H : so.vol.cells[a] = w.cells[a] /\ so.vol.table[a] = w.table[a]
  BY DEF Same
<1>3. At(so.vol, p) = e0
  BY <1>1, <1>2 DEF At
<1>4. e = [e0 EXCEPT !.cluster = c, !.size = so.size] /\ e0.kind = "entry"
  <2>1. ClosesTo(e0, c, so.size, Entry(e0.name, FALSE, c, so.size))
    BY <1>1, ClosedEntry
  <2> QED
    BY <2>1 DEF ClosesTo
<1>5. z = Put(so.vol, p, e)
  BY <1>3, <1>4 DEF FileClose
<1>6. c \in Table!Entry
  BY <1>1, Numbers
<1>7. e \in EntrySlot /\ e \in Slot /\ ~e.dir
  BY <1>1, <1>6, EntryIsSlot DEF Entry
<1>8. SlotPut(so.vol, z, p, e)
  BY <1>1, <1>5, <1>7, PutIs
<1>9. SameBut(u, z, Held(Q), p)
  <2>1. /\ z.table = so.vol.table /\ \A a \in Areas : a # p[1] => z.cells[a] = so.vol.cells[a]
        /\ \A q \in Position : q # p => At(z, q) = At(so.vol, q)
    BY <1>8 DEF SlotPut
  <2>2. \A a \in Held(Q) : z.table[a] = u.table[a]
    BY <2>1, <1>1, <1>2 DEF SameBut
  <2>3. \A a \in Held(Q) : a # p[1] => z.cells[a] = u.cells[a]
    BY <2>1, <1>1, <1>2 DEF SameBut
  <2>4. \A q \in Position : q[1] = p[1] /\ q # p => At(z, q) = At(u, q)
    <3> SUFFICES ASSUME NEW q \in Position, q[1] = p[1], q # p
                 PROVE  At(z, q) = At(u, q)
      OBVIOUS
    <3>1. At(z, q) = At(so.vol, q)
      BY <2>1
    <3>2. At(so.vol, q) = At(w, q)
      BY <1>1, <1>2 DEF At
    <3>3. At(w, q) = At(u, q)
      BY <1>1 DEF SameBut
    <3> QED
      BY <3>1, <3>2, <3>3
  <2> QED
    BY <2>2, <2>3, <2>4 DEF SameBut
<1> QED
  BY <1>1, <1>7, <1>8, <1>9 DEF FileAt, SlotPut

\* The sectors of a file hold all of it.
LEMMA SectorsHold ==
    ASSUME NEW n \in Nat, n >= 1
    PROVE  Sectors(n) * ClusterSlots >= n /\ Sectors(n) \in Nat
<1>1. ClusterSlots \in Nat /\ ClusterSlots >= 2
  BY Numbers
<1> DEFINE a == n + ClusterSlots - 1
           q == a \div ClusterSlots
           m == a % ClusterSlots
<1>2. a \in Nat
  BY <1>1
<1> HIDE DEF a
<1>3. q \in Nat /\ m \in Nat /\ m < ClusterSlots /\ a = q * ClusterSlots + m
  BY <1>1, <1>2, Division
<1> HIDE DEF q, m
<1>4. a = n + ClusterSlots - 1
  BY DEF a
<1> DEFINE b == q * ClusterSlots
<1>5. b \in Nat
  BY <1>1, <1>3
<1>6. a = b + m
  BY <1>3
<1> HIDE DEF b
<1>7. b >= n
  BY <1>1, <1>3, <1>4, <1>5, <1>6
<1>8. Sectors(n) = q
  BY DEF Sectors, q, a
<1> QED
  BY <1>3, <1>7, <1>8 DEF b

LEMMA SizeIsLength ==
    ASSUME NEW x \in Contents
    PROVE  /\ Min({Length[x], Sectors(Length[x]) * ClusterSlots}) = Length[x]
           /\ Needed(Length[x]) = Sectors(Length[x])
<1>1. Length[x] \in Nat /\ Length[x] >= 1
  BY LengthIs
<1>2. Sectors(Length[x]) * ClusterSlots >= Length[x] /\ Sectors(Length[x]) \in Nat
  BY <1>1, SectorsHold
<1> DEFINE b == Sectors(Length[x]) * ClusterSlots
<1>3. b \in Nat /\ b >= Length[x]
  BY <1>2, Numbers
<1> HIDE DEF b
<1>4. Min({Length[x], b}) = Length[x]
  <2>1. {Length[x], b} \in SUBSET Int /\ Length[x] \in {Length[x], b}
    BY <1>1, <1>3
  <2>2. \A m \in {Length[x], b} : Length[x] <= m
    BY <1>1, <1>3
  <2> QED
    BY <2>1, <2>2, MinIs
<1>5. Needed(Length[x]) = Sectors(Length[x])
  BY <1>1, NeededIs
<1> QED
  BY <1>4, <1>5 DEF b

\* What was written is read.
LEMMA WrittenReads ==
    ASSUME NEW z, NEW r, Seg(z.table, r), NEW x \in Contents, Len(r) = Sectors(Length[x]),
           PartOf(z, r, x, Sectors(Length[x]))
    PROVE  FileRead(z, r[1], Length[x]) = [ok |-> TRUE, data |-> Whole(x)]
<1> DEFINE n == Length[x]
<1>1. n \in Nat /\ n >= 1 /\ Len(r) \in Nat
  BY LengthIs, SegFields
<1>2. FileRead(z, r[1], n) = [ok |-> TRUE, data |-> [i \in 1 .. n |-> PieceIn(z, r, i)]]
  BY <1>1, FileReadIs
<1>3. \A i \in 1 .. n : PieceIn(z, r, i) = Piece(x, i)
  <2> SUFFICES ASSUME NEW i \in 1 .. n
               PROVE  PieceIn(z, r, i) = Piece(x, i)
    OBVIOUS
  <2> DEFINE k == (i + ClusterSlots - 1) \div ClusterSlots
             o == ((i - 1) % ClusterSlots) + 1
  <2>1. k \in 1 .. Sectors(n) /\ o \in 1 .. ClusterSlots /\ (k - 1) * ClusterSlots + o = i
    BY <1>1, SectorOfPiece
  <2>2. PieceIn(z, r, i) = z.cells[r[k]][o]
    BY DEF PieceIn
  <2> HIDE DEF k, o
  <2>3. (k - 1) * ClusterSlots + o <= Length[x]
    <3>1. i <= n
      BY <1>1
    <3> QED
      BY <3>1, <2>1
  <2>4. z.cells[r[k]][o] = Piece(x, (k - 1) * ClusterSlots + o)
    BY <2>1, <2>3 DEF PartOf
  <2> QED
    BY <2>1, <2>2, <2>4
<1>4. [i \in 1 .. n |-> PieceIn(z, r, i)] = Whole(x)
  BY <1>3 DEF Whole
<1> QED
  BY <1>2, <1>4

\* The new node with the run of its file.
FileRun(N, Q, y, r) == [n \in N \cup {y} |-> IF n = y THEN r ELSE Q[n]]
HasRun(u, z, N, Q, D, p, e, r, y, P) ==
    /\ FileNode(u, z, N, Q, D, p, e, y)
    /\ Laid(z, N \cup {y}, P) /\ DOMAIN P = N \cup {y} /\ P[y] = r
    /\ \A n \in N : P[n] = Q[n]
    /\ Held(P) = Held(Q) \cup Members(r)

LEMMA FileHasRun ==
    ASSUME NEW v, NEW u, NEW N, NEW R, NEW Q, NEW D, NEW p, NEW e0, SettledFor(v, u, N, R, Q, D, p, e0),
           Open(u, Q[D], p), NEW z, NEW e, e.name = e0.name, FileAt(u, z, Held(Q), p, e),
           NEW r, Seg(z.table, r), z.table[LastOf(r)] = EOF, r[1] = e.cluster,
           Members(r) \cap Held(Q) = {}
    PROVE  HasRun(u, z, N, Q, D, p, e, r, NewNode(D, p, e), FileRun(N, Q, NewNode(D, p, e), r))
<1> DEFINE y == NewNode(D, p, e)
           P == FileRun(N, Q, y, r)
<1>1. FileNode(u, z, N, Q, D, p, e, y)
  BY FileIsNode
<1>2. /\ Typed(v) /\ Intact(v, N, R) /\ D \in Dirs(N) /\ Settled(v, u, N, R, Q, D, p)
      /\ Laid(u, N, Q)
  BY DEF SettledFor, Settled
<1>3. DOMAIN Q = N
  BY <1>2, SettledSized
<1>4. e \in EntrySlot /\ ~e.dir /\ SameBut(u, z, Held(Q), p) /\ At(z, p) = e
  BY DEF FileAt
<1>5. RoomFor(u, N, Q, D, p, e) /\ y \notin N /\ y # Top /\ y.entry = e
  BY <1>1 DEF FileNode
<1>6. DOMAIN P = N \cup {y} /\ P[y] = r /\ \A n \in N : P[n] = Q[n]
  BY <1>5 DEF FileRun
<1> HIDE DEF P
<1>7. Extends(P, Q, y)
  BY <1>3, <1>6 DEF Extends
<1>8. r[1] # ROOT
  BY SegFields, Numbers
<1>9. IsRun(z.table, r)
  BY DEF IsRun, LastOf
<1>10. Fresh(z, Q, P, D, y)
  BY <1>4, <1>5, <1>6, <1>8, <1>9 DEF Fresh
<1>11. Laid(z, N \cup {y}, P)
  BY <1>2, <1>4, <1>5, <1>7, <1>10, AddNode
<1>12. Held(P) = Held(Q) \cup Members(r)
  BY <1>3, <1>5, <1>6 DEF Held
<1> HIDE DEF y
<1>13. HasRun(u, z, N, Q, D, p, e, r, y, P)
  BY <1>1, <1>6, <1>11, <1>12 DEF HasRun
<1> QED
  BY <1>13 DEF P, y

\* There is a file at the path that was not there before, and it reads as x.
FileAdded(v, N, w, D, name, x) ==
    \E y : /\ y.path = Append(D.path, name) /\ ~y.entry.dir /\ y.entry.size = Length[x]
           /\ \A n \in N : n.path # y.path
           /\ FilesKeep(v, w, N) /\ \E P : Intact(w, N \cup {y}, P)
           /\ FileRead(w, y.entry.cluster, Length[x]) = [ok |-> TRUE, data |-> Whole(x)]
           /\ w.cwd = v.cwd

LEMMA FileIsAdded ==
    ASSUME NEW v, NEW u, NEW N, NEW R, NEW Q, NEW D, NEW p, NEW e0, SettledFor(v, u, N, R, Q, D, p, e0),
           Open(u, Q[D], p), NEW z, NEW e, e.name = e0.name, FileAt(u, z, Held(Q), p, e),
           NEW r, Seg(z.table, r), z.table[LastOf(r)] = EOF, r[1] = e.cluster,
           Members(r) \cap Held(Q) = {},
           NEW x \in Contents, Len(r) = Sectors(Length[x]), e.size = Length[x],
           PartOf(z, r, x, Sectors(Length[x]))
    PROVE  FileAdded(v, N, z, D, e0.name, x)
<1> DEFINE y == NewNode(D, p, e)
           P == FileRun(N, Q, y, r)
<1>1. HasRun(u, z, N, Q, D, p, e, r, y, P)
  BY FileHasRun
<1> HIDE DEF y, P
<1>2. /\ y.entry = e /\ y.path = Append(D.path, e.name) /\ Dirs(N \cup {y}) = Dirs(N)
      /\ Laid(z, N \cup {y}, P) /\ DOMAIN P = N \cup {y} /\ P[y] = r
      /\ \A n \in N : P[n] = Q[n]
  BY <1>1 DEF HasRun, FileNode
<1>3. /\ Typed(v) /\ Intact(v, N, R) /\ D \in Dirs(N) /\ Settled(v, u, N, R, Q, D, p)
      /\ u.cwd = v.cwd /\ NoNode(N, D, e0)
  BY DEF SettledFor
<1>4. Sized(N, Q)
  BY <1>3, SettledSized
<1>5. Sized(N \cup {y}, P)
  <2>1. Len(P[y]) = Needed(y.entry.size)
    BY <1>2, SizeIsLength
  <2> QED
    BY <2>1, <1>2, <1>4 DEF Sized
<1>6. Stands(z, N \cup {y})
  <2>1. z.cwd = v.cwd
    BY <1>3 DEF FileAt
  <2> QED
    BY <2>1, <1>2, <1>3 DEF Intact, Stands
<1>7. Intact(z, N \cup {y}, P)
  BY <1>2, <1>5, <1>6 DEF Intact
<1>8. FilesKeep(v, z, N)
  <2>1. \A n \in N : ~n.entry.dir => Same(v, z, Members(R[n]))
    BY FilesPlaced
  <2> QED
    BY <2>1, <1>3, KeptFiles
<1>9. FileRead(z, r[1], Length[x]) = [ok |-> TRUE, data |-> Whole(x)]
  BY WrittenReads
<1>10. \A n \in N : n.path # y.path
  BY <1>2, <1>3 DEF NoNode
<1>11. ~y.entry.dir /\ z.cwd = v.cwd
  BY <1>2, <1>3 DEF FileAt
<1> QED
  BY <1>2, <1>7, <1>8, <1>9, <1>10, <1>11 DEF FileAdded

\* The file's chain ended at the last cluster and what followed is lost.
LEMMA FileIsAstray ==
    ASSUME NEW v, NEW u, NEW N, NEW R, NEW Q, NEW D, NEW p, NEW e0, SettledFor(v, u, N, R, Q, D, p, e0),
           Open(u, Q[D], p), NEW z, NEW e, e.name = e0.name, FileAt(u, z, Held(Q), p, e),
           NEW r, Seg(z.table, r), z.table[LastOf(r)] = EOF, r[1] = e.cluster,
           Members(r) \cap Held(Q) = {}, LastOf(r) = LastCluster,
           NEW d \in Cluster, d \notin Held(Q), d \notin Members(r), z.table[d] = EOF
    PROVE  ExtendedFromLast(z) /\ ExtendedFromLast(Forget(z))
<1> DEFINE y == NewNode(D, p, e)
           P == FileRun(N, Q, y, r)
<1>1. HasRun(u, z, N, Q, D, p, e, r, y, P)
  BY FileHasRun
<1> HIDE DEF y, P
<1> DEFINE M == N \cup {y}
<1>2. Laid(z, M, P) /\ DOMAIN P = M /\ d \notin Held(P)
  BY <1>1 DEF HasRun
<1> HIDE DEF M
<1>3. Typed(z)
  BY DEF FileAt
<1>4. FREE # EOF
  BY Numbers
<1>5. d \in Lost(z) /\ z.table[LastCluster] # FREE
  BY <1>2, <1>3, <1>4, LostIs
<1> DEFINE f == Forget(z)
<1>6. Typed(f) /\ f.table = z.table
  BY <1>3, ForgetIs
<1>7. Same(z, f, Held(P))
  BY <1>2, <1>3, ForgetSame
<1> HIDE DEF f
<1>8. Laid(f, M, P)
  BY <1>2, <1>7, Frame
<1>9. d \in Lost(f) /\ f.table[LastCluster] # FREE
  BY <1>2, <1>4, <1>5, <1>6, <1>8, LostIs
<1>10. ExtendedFromLast(f) /\ ExtendedFromLast(z)
  BY <1>5, <1>9 DEF ExtendedFromLast
<1> QED
  BY <1>10 DEF f

\* A file in a slot that no link leads to is not seen, and its clusters are lost.
LEMMA FileIsUnseen ==
    ASSUME NEW v, NEW u, NEW N, NEW R, NEW Q, NEW D, NEW p, NEW e0, SettledFor(v, u, N, R, Q, D, p, e0),
           Unseen(u, Q, p), NEW z, NEW e, FileAt(u, z, Held(Q), p, e),
           NEW d \in Cluster, d \notin Held(Q), z.table[d] # FREE
    PROVE  Kept(v, N, z) /\ ExtendedFromLast(z)
<1>1. /\ Typed(v) /\ Intact(v, N, R) /\ D \in Dirs(N) /\ Settled(v, u, N, R, Q, D, p)
      /\ u.cwd = v.cwd /\ Laid(u, N, Q)
  BY DEF SettledFor, Settled
<1>2. Typed(z) /\ z.cwd = v.cwd /\ SameBut(u, z, Held(Q), p)
  BY <1>1 DEF FileAt
<1>3. Same(u, z, Held(Q))
  BY <1>2 DEF SameBut, Same, Unseen
<1>4. Laid(z, N, Q)
  BY <1>1, <1>3, Frame
<1>5. Sized(N, Q) /\ DOMAIN Q = N
  BY <1>1, SettledSized
<1>6. Stands(z, N)
  BY <1>1, <1>2 DEF Intact, Stands
<1>7. Intact(z, N, Q)
  BY <1>4, <1>5, <1>6 DEF Intact
<1>8. \A n \in N : ~n.entry.dir => Same(v, z, Members(R[n]))
  BY FilesPlaced
<1>9. FilesKeep(v, z, N)
  BY <1>1, <1>8, KeptFiles
<1>10. d \in Lost(z)
  BY <1>2, <1>4, <1>5, LostIs
<1>11. z.table[LastCluster] # FREE
  <2>1. LastCluster \in Held(Q)
    BY DEF Unseen
  <2> QED
    BY <2>1, <1>2, <1>4, HeldIsUsed
<1> QED
  BY <1>7, <1>9, <1>10, <1>11 DEF Kept, ExtendedFromLast

\* A file whose chain ends too soon is no file.
LEMMA FileIsShort ==
    ASSUME NEW v, NEW u, NEW N, NEW R, NEW Q, NEW D, NEW p, NEW e0, SettledFor(v, u, N, R, Q, D, p, e0),
           Open(u, Q[D], p), NEW z, NEW e, e.name = e0.name, FileAt(u, z, Held(Q), p, e),
           NEW r, Seg(z.table, r), r[1] = e.cluster,
           NEW x \in Contents, e.size = Length[x], Short(z.table, r, Sectors(Length[x]))
    PROVE  ~Unharmed(z)
<1>1. /\ Typed(u) /\ Laid(u, N, Q) /\ D \in Dirs(N) /\ p \in Spots(Q[D]) /\ e.name \in Names
  BY DEF SettledFor, Settled, Open
<1>2. /\ Typed(z) /\ SameBut(u, z, Held(Q), p) /\ At(z, p) = e /\ ~e.dir /\ e.kind = "entry"
  BY DEF FileAt, EntrySlot
<1>3. Linking(z.table, e.cluster, r)
  BY DEF Seg, Linking
<1>4. PastEnd \notin Cluster \cup {EOF}
  BY Numbers
<1>5. Len(r) \in Nat
  BY SegFields
<1>6. Length[x] \in Nat
  BY LengthIs
<1>7. Sectors(Length[x]) \in Nat
  BY <1>6, SectorsIs
<1>8. Needed(e.size) = Sectors(Length[x])
  BY SizeIsLength
<1>9. \/ z.table[LastOf(r)] \notin Cluster \cup {EOF}
      \/ z.table[LastOf(r)] = EOF /\ Len(r) # Needed(e.size)
  <2>1. CASE z.table[LastOf(r)] = PastEnd
    BY <2>1, <1>4
  <2>2. CASE z.table[LastOf(r)] = EOF /\ Len(r) < Sectors(Length[x])
    BY <2>2, <1>5, <1>7, <1>8
  <2> QED
    BY <2>1, <2>2 DEF Short
<1> QED
  BY <1>1, <1>2, <1>3, <1>9, BadFile

\* What writefile comes to.
WroteInto(v, N, D, name, x, r) ==
    \/ Kept(v, N, r.vol) /\ Ended(r)
    \/ r.ok /\ FileAdded(v, N, r.vol, D, name, x)
    \/ Broke(r.vol) /\ Ended(r)

\* The file has its first cluster.
LEMMA FileIsWritten ==
    ASSUME NEW v, NEW u, NEW N, NEW R, NEW Q, NEW D, NEW p, NEW e0, NEW H, NEW w, NEW c,
           Prepared(v, u, N, R, Q, D, p, e0, H, w, c),
           NEW x \in Contents, NEW path, LeadsInto(v, N, D, path, e0),
           NEW so, so = FileWrite(w, c, x),
           NEW z, z = FileClose(so.vol, p, c, so.size),
           NEW r, r = IF so.ok THEN Answer(TRUE, z) ELSE Answer(FALSE, DeleteFile(z, path).vol)
    PROVE  WroteInto(v, N, D, e0.name, x, r)
<1> DEFINE n == Sectors(Length[x])
           e == Entry(e0.name, FALSE, c, so.size)
<1>1. /\ SettledFor(v, u, N, R, Q, D, p, e0) /\ ~e0.dir /\ Held(Q) \subseteq H /\ NewCluster(w, c, H)
      /\ Settled(v, u, N, R, Q, D, p)
  BY DEF Prepared, SettledFor
<1>2. Progress(w, c, H, x, n, so)
  BY <1>1, FileWriteIs
<1>3. /\ so \in WriteState /\ Typed(so.vol) /\ so.vol.cwd = w.cwd /\ Same(w, so.vol, H)
  BY <1>2 DEF Progress
<1>4. PICK s : Growing(so, c, H, x, n, s)
  BY <1>2 DEF Progress
<1>5. so.size \in Nat /\ so.ok \in BOOLEAN
  BY <1>3 DEF WriteState
<1>6. FileAt(u, z, Held(Q), p, e) /\ SlotPut(so.vol, z, p, e)
  BY <1>3, <1>5, ClosedIs
<1>7. e.name = e0.name /\ e.cluster = c /\ e.size = so.size
  BY DEF Entry
<1> HIDE DEF e
<1>8. z.table = so.vol.table /\ z.firstFree = so.vol.firstFree
  BY <1>6 DEF SlotPut
<1>9. Seg(z.table, s) /\ s[1] = c /\ Members(s) \cap H = {}
  BY <1>4, <1>8 DEF Growing
<1>10. Members(s) \cap Held(Q) = {}
  BY <1>1, <1>9
<1>11. CASE ~so.ok
  <2>1. Clusters(z, c) = Members(s)
    BY <1>9, SegChain DEF Clusters
  <2>2. Kept(v, N, DeleteFile(z, path).vol)
    <3>1. LeadsInto(v, N, D, path, e)
      BY <1>7 DEF LeadsInto
    <3>2. Clusters(z, e.cluster) \cap Held(Q) = {} /\ e.name = e0.name
      BY <2>1, <1>7, <1>10
    <3> QED
      BY <3>1, <3>2, <1>1, <1>6, FailedFile
  <2>3. r.vol = DeleteFile(z, path).vol /\ r.ok = FALSE
    BY <1>11 DEF Answer
  <2> QED
    BY <2>2, <2>3 DEF WroteInto, Ended
<1>12. CASE so.ok
  <2>1. r.vol = z /\ r.ok = TRUE
    BY <1>12 DEF Answer
  <2>2. so.size = Length[x] /\ e.size = Length[x]
    <3>1. so.size = Min({Length[x], n * ClusterSlots})
      BY <1>4, <1>12 DEF Growing
    <3> QED
      BY <3>1, <1>7, SizeIsLength
  <2>3. CASE InStep(so, s, x, n) \/ Astray(so, H, s, n) \/ WentPast(so, s, n)
    <3>1. z.table[LastOf(s)] \in {EOF, PastEnd}
      BY <2>3, <1>8 DEF InStep, Astray, WentPast, Short
    <3>2. CASE Unseen(u, Q, p)
      <4>1. 1 \in 1 .. Len(s)
        BY <1>9, SegFields
      <4>2. c \in Members(s)
        BY <4>1, <1>9 DEF Members
      <4>3. c \in Cluster /\ z.table[c] # FREE /\ c \notin Held(Q)
        BY <4>2, <3>1, <1>9, <1>10, ChainIsUsed
      <4>4. Kept(v, N, z) /\ ExtendedFromLast(z)
        BY <4>3, <3>2, <1>1, <1>6, FileIsUnseen
      <4> QED
        BY <4>4, <2>1, ExtendedMeets DEF WroteInto, Ended
    <3>3. CASE Open(u, Q[D], p) /\ InStep(so, s, x, n)
      <4>1. Len(s) = n /\ PartOf(so.vol, s, x, n) /\ z.table[LastOf(s)] = EOF
        BY <3>3, <1>8 DEF InStep
      <4>2. PartOf(z, s, x, n)
        <5>1. \A a \in Areas : a # p[1] => z.cells[a] = so.vol.cells[a]
          BY <1>6 DEF SlotPut
        <5>2. \A j \in 1 .. n : s[j] \in Cluster /\ s[j] \in Members(s)
          BY <4>1, <1>9, SegFields
        <5>3. p[1] \in H
          BY DEF Prepared
        <5>4. \A j \in 1 .. n : s[j] \in Areas /\ s[j] # p[1]
          BY <5>2, <5>3, <1>9, Numbers
        <5>5. \A j \in 1 .. n : z.cells[s[j]] = so.vol.cells[s[j]]
          BY <5>1, <5>4
        <5> HIDE DEF n
        <5> QED
          BY <5>5, <4>1 DEF PartOf
      <4>3. FileAdded(v, N, z, D, e0.name, x)
        BY <4>1, <4>2, <2>2, <3>3, <1>1, <1>6, <1>7, <1>9, <1>10, FileIsAdded
      <4> QED
        BY <4>3, <2>1 DEF WroteInto
    <3>4. ASSUME Open(u, Q[D], p), Short(so.vol.table, s, n)
          PROVE  ~Unharmed(z)
      <4>1. Short(z.table, s, n)
        BY <3>4, <1>8
      <4> QED
        BY <4>1, <3>4, <2>2, <1>1, <1>6, <1>7, <1>9, FileIsShort
    <3>5. CASE Open(u, Q[D], p) /\ WentPast(so, s, n)
      <4>1. Spent(z)
        BY <3>5, <1>8 DEF WentPast, Spent, Full
      <4>2. FoundFull(z)
        BY <4>1, SpentIsFull
      <4>3. ~Unharmed(z)
        BY <3>4, <3>5 DEF WentPast
      <4>4. Broke(z)
        BY <4>2, <4>3, <1>6, FullBreaks DEF FileAt
      <4> QED
        BY <4>1, <4>4, <2>1, SpentMeets DEF WroteInto, Ended
    <3>6. CASE Open(u, Q[D], p) /\ Astray(so, H, s, n)
      <4> DEFINE d == so.cluster
      <4>1. LastOf(s) = LastCluster /\ d \in Cluster /\ d \notin Members(s) /\ d \notin Held(Q)
            /\ z.table[d] = EOF /\ z.table[LastOf(s)] = EOF
        BY <3>6, <1>1, <1>8 DEF Astray
      <4> HIDE DEF d
      <4>2. ExtendedFromLast(z) /\ ExtendedFromLast(Forget(z))
        BY <4>1, <3>6, <1>1, <1>6, <1>7, <1>9, <1>10, FileIsAstray
      <4>3. ~Unharmed(z)
        <5>1. Short(so.vol.table, s, n)
          BY <3>6 DEF Astray, Short
        <5> QED
          BY <5>1, <3>4, <3>6
      <4>4. Broke(z) /\ MetTheEnd(z)
        BY <4>2, <4>3, ExtendedMeets DEF Broke, Fallen, Excused
      <4> QED
        BY <4>4, <2>1 DEF WroteInto, Ended
    <3> QED
      BY <3>2, <3>3, <3>5, <3>6, <2>3, <1>1 DEF Settled
  <2> QED
    BY <2>3, <1>4, <1>12 DEF Growing
<1> QED
  BY <1>11, <1>12

\* The entry of the file is in its slot when it gets its first cluster.
LEMMA FileIsPrepared ==
    ASSUME NEW v, NEW u, NEW N, NEW R, NEW Q, NEW D, NEW p, NEW e0, SettledFor(v, u, N, R, Q, D, p, e0),
           ~e0.dir, NEW a, SlotPut(u, a, p, e0),
           NEW w, w = LinkFree(a, FREE).vol, NEW c, c = LinkFree(a, FREE).cluster, c \in Cluster
    PROVE  \E H : Prepared(v, u, N, R, Q, D, p, e0, H, w, c)
<1> DEFINE H == Held(Q) \cup {p[1]}
<1>1. /\ Typed(u) /\ Settled(v, u, N, R, Q, D, p) /\ Laid(u, N, Q) /\ p \in Position
      /\ D \in Dirs(N)
      /\ Open(u, Q[D], p) \/ Unseen(u, Q, p)
  BY DEF SettledFor, Settled
<1>2. /\ Typed(a) /\ a.table = u.table /\ a.firstFree = u.firstFree /\ a.cwd = u.cwd
      /\ At(a, p) = e0
      /\ \A b \in Areas : b # p[1] => a.cells[b] = u.cells[b]
      /\ \A q \in Position : q # p => At(a, q) = At(u, q)
  BY DEF SlotPut
<1>3. InUse(a, Held(Q))
  BY <1>1, <1>2, HeldInUse DEF InUse
<1>4. a.table[c] = FREE
  <2>1. GivenOut(a, Held(Q), w, c)
    BY <1>2, <1>3, FirstClusterIs
  <2>2. FREE \notin Cluster /\ PastEnd \notin Cluster
    BY Numbers
  <2> QED
    BY <2>1, <2>2 DEF GivenOut
<1>5. p[1] \in Held(Q) \/ (p[1] \in Cluster /\ u.table[p[1]] = EOF)
  <2>1. CASE Open(u, Q[D], p)
    <3>1. p[1] \in Members(Q[D]) /\ Members(Q[D]) \subseteq Held(Q)
      BY <2>1, <1>1, SpotArea, RunOfDir DEF Open
    <3> QED
      BY <3>1
  <2>2. CASE Unseen(u, Q, p)
    <3>1. ~Full(u)
      BY <1>2, <1>4 DEF Full
    <3> QED
      BY <2>2, <3>1 DEF Unseen
  <2> QED
    BY <1>1, <2>1, <2>2
<1>6. EOF # FREE /\ PastEnd \notin Cluster /\ Cluster \subseteq Table!Entry
  BY Numbers
<1>7. InUse(a, H)
  BY <1>2, <1>3, <1>5, <1>6 DEF InUse
<1>8. H \subseteq Areas
  <2>1. p[1] \in Areas
    BY <1>1, PositionFields
  <2>2. Held(Q) \subseteq Areas
    BY <1>1, HeldIsUsed
  <2> QED
    BY <2>1, <2>2
<1> HIDE DEF H
<1>9. GivenOut(a, H, w, c)
  BY <1>2, <1>7, FirstClusterIs
<1>10. /\ Typed(w) /\ w.cells = a.cells /\ w.cwd = a.cwd /\ Same(a, w, H)
       /\ c \notin H /\ w.table[c] = EOF
  <2>1. FREE \notin Cluster /\ PastEnd \notin Cluster
    BY Numbers
  <2> QED
    BY <1>9, <2>1 DEF GivenOut
<1>11. InUse(w, H)
  BY <1>7, <1>10 DEF InUse, Same
<1>12. NewCluster(w, c, H)
  BY <1>8, <1>10, <1>11 DEF NewCluster
<1>13. SameBut(u, w, H, p)
  <2>1. \A b \in H : w.table[b] = u.table[b]
    BY <1>2, <1>10 DEF Same
  <2>2. \A b \in H : b # p[1] => w.cells[b] = u.cells[b]
    BY <1>2, <1>8, <1>10
  <2>3. \A q \in Position : q # p => At(w, q) = At(u, q)
    BY <1>2, <1>10 DEF At
  <2> QED
    BY <2>1, <2>2, <2>3 DEF SameBut
<1>14. At(w, p) = e0 /\ w.cwd = u.cwd
  BY <1>2, <1>10 DEF At
<1>15. Held(Q) \subseteq H /\ p[1] \in H
  BY DEF H
<1>16. Prepared(v, u, N, R, Q, D, p, e0, H, w, c)
  BY <1>12, <1>13, <1>14, <1>15 DEF Prepared
<1> QED
  BY <1>16

------------------------------------------------------------------------
(* A file that was given no cluster.                                       *)

\* It is written over the root directory or past the table.
Smudged(w, z, q) ==
    \/ At(z, q) = At(w, q)
    \/ q[1] \in {ROOT, PastEnd} /\ At(z, q).kind = "data"
    \/ q[1] = PastEnd /\ q[2] # 1 /\ At(z, q) = EndMark
\* Without a number it goes to the beginning of the root directory, and with the one
\* past the table nowhere else.
WentTo(w, z, c) ==
    /\ c = FREE => At(z, <<ROOT, 1>>).kind = "data"
    /\ c = PastEnd => \A q \in Position : q[1] # PastEnd => At(z, q) = At(w, q)
Smeared(w, so, c) ==
    /\ Typed(so.vol) /\ so.vol.table = w.table /\ so.vol.cwd = w.cwd /\ Spent(so.vol)
    /\ so.cluster \in {FREE, PastEnd} /\ (c = PastEnd => so.cluster = PastEnd)
    /\ \A q \in Position : Smudged(w, so.vol, q)
    /\ WentTo(w, so.vol, c)

LEMMA RootSpot ==
    <<ROOT, 1>> \in Position
BY Numbers, IsPosition DEF SlotsOf

\* A sector that is written has pieces at its beginning.
LEMMA SectorBegins ==
    ASSUME NEW x \in Contents, NEW k \in Nat, k >= 2, k <= Sectors(Length[x]), NEW old
    PROVE  PieceAt(x, k, 1, old).kind = "data"
<1>1. Length[x] \in Nat /\ Length[x] >= 1 /\ ClusterSlots \in Nat /\ ClusterSlots >= 2
  BY LengthIs, Numbers
<1> DEFINE n == Length[x]
           a == n + ClusterSlots - 1
           q == a \div ClusterSlots
           m == a % ClusterSlots
<1>2. n \in Nat /\ n >= 1 /\ a \in Nat
  BY <1>1
<1> HIDE DEF a, n
<1>3. q \in Nat /\ m \in Nat /\ m < ClusterSlots /\ a = q * ClusterSlots + m
  BY <1>1, <1>2, Division
<1>4. k <= q
  BY DEF Sectors, q, a, n
<1> HIDE DEF q, m
<1> DEFINE b == q * ClusterSlots
           f == (k - 1) * ClusterSlots
           g == k * ClusterSlots
<1>5. b \in Nat /\ f \in Nat /\ g \in Nat
  BY <1>1, <1>3
<1>6. f = g - ClusterSlots
  BY <1>1
<1>7. g <= b
  <2>1. PICK j \in Nat : q = k + j
    <3>1. q - k \in Nat /\ q = k + (q - k)
      BY <1>3, <1>4
    <3> QED
      BY <3>1
  <2>2. b = g + j * ClusterSlots /\ j * ClusterSlots \in Nat
    BY <2>1, <1>1
  <2> HIDE DEF b, g
  <2> QED
    BY <2>2, <1>5
<1>8. a = b + m
  BY <1>3
<1> HIDE DEF b, f, g
<1>9. a = n + ClusterSlots - 1
  BY DEF a
<1>10. f + 1 <= n
  BY <1>1, <1>2, <1>3, <1>5, <1>6, <1>7, <1>8, <1>9
<1>11. PieceAt(x, k, 1, old) = Piece(x, (k - 1) * ClusterSlots + 1)
  BY <1>1, <1>10 DEF PieceAt, f, n
<1> QED
  BY <1>11 DEF Piece

\* One sector.
LEMMA SmudgedSector ==
    ASSUME NEW v, Typed(v), NEW d \in {FREE, PastEnd}, NEW x \in Contents, NEW k \in Nat, k >= 1,
           k <= Sectors(Length[x]), d = FREE => k = 1,
           NEW z, SectorIn(v, z, d, x, k), NEW q \in Position
    PROVE  Smudged(v, z, q)
<1>1. q[1] \in Areas /\ q[2] \in 1 .. SlotsOf(q[1]) /\ q[2] \in Nat
  <2>1. q[1] \in Areas /\ q[2] \in 1 .. SlotsOf(q[1])
    BY PositionFields
  <2> QED
    BY <2>1, SlotsOfIsPositive
<1>2. Area(d) \in {ROOT, PastEnd} /\ (d = PastEnd => Area(d) = PastEnd)
  BY Numbers DEF Area
<1>3. CASE q[1] # Area(d)
  BY <1>1, <1>3 DEF SectorIn, At, Smudged
<1>4. CASE q[1] = Area(d)
  <2> DEFINE old == v.cells[q[1]][q[2]]
             i == q[2]
  <2>1. At(z, q) = PieceAt(x, k, i, old)
    BY <1>1, <1>4 DEF SectorIn, At
  <2>2. At(v, q) = old
    BY DEF At
  <2>3. q[1] \in {ROOT, PastEnd}
    BY <1>2, <1>4
  <2>4. \/ PieceAt(x, k, i, old) = Piece(x, (k - 1) * ClusterSlots + i)
        \/ k = 1 /\ PieceAt(x, k, i, old) = old
        \/ k # 1 /\ PieceAt(x, k, i, old) = EndMark
    BY Zenon DEF PieceAt
  <2>5. CASE At(z, q) = Piece(x, (k - 1) * ClusterSlots + i)
    BY <2>3, <2>5 DEF Smudged, Piece
  <2>6. CASE k = 1 /\ PieceAt(x, k, i, old) = old
    BY <2>1, <2>2, <2>6 DEF Smudged
  <2>7. CASE k # 1 /\ PieceAt(x, k, i, old) = EndMark
    <3>1. d = PastEnd /\ q[1] = PastEnd
      BY <1>2, <1>4, <2>7
    <3>2. i # 1
      <4>1. CASE i = 1
        <5>1. k >= 2
          BY <2>7
        <5>2. PieceAt(x, k, 1, old).kind = "data"
          BY <5>1, SectorBegins
        <5> QED
          BY <4>1, <5>2, <2>7 DEF EndMark
      <4> QED
        BY <4>1
    <3> QED
      BY <3>1, <3>2, <2>1, <2>7 DEF Smudged
  <2> QED
    BY <2>1, <2>4, <2>5, <2>6, <2>7
<1> QED
  BY <1>3, <1>4

LEMMA SmudgedOn ==
    ASSUME NEW v, NEW w, NEW z, NEW q, Smudged(v, w, q), Smudged(w, z, q)
    PROVE  Smudged(v, z, q)
BY DEF Smudged

LEMMA SmearedSector ==
    ASSUME NEW w, NEW so, NEW c, Smeared(w, so, c), NEW x \in Contents, NEW k \in Nat, k >= 2,
           k <= Sectors(Length[x]), so.ok \in BOOLEAN
    PROVE  Smeared(w, WriteOn(so, x, k), c)
<1> DEFINE r == WriteOn(so, x, k)
           t == LinkFree(so.vol, so.cluster)
<1>1. /\ Typed(so.vol) /\ so.vol.table = w.table /\ so.vol.cwd = w.cwd /\ Spent(so.vol)
      /\ so.cluster \in {FREE, PastEnd} /\ \A q \in Position : Smudged(w, so.vol, q)
      /\ (c = PastEnd => so.cluster = PastEnd) /\ WentTo(w, so.vol, c)
  BY DEF Smeared
<1>2. so.vol.table[FREE] = EOF /\ so.vol.table[PastEnd] = FREE
  BY <1>1, Numbers, FirmVolume DEF Firm
<1>3. NextForWriting(so.vol, so.cluster) = t
  BY <1>1, <1>2 DEF NextForWriting
<1>4. /\ Typed(t.vol) /\ t.vol.cells = so.vol.cells /\ t.vol.cwd = so.vol.cwd /\ Spent(t.vol)
      /\ t.vol.table = so.vol.table /\ t.cluster \in {FREE, PastEnd}
      /\ (so.cluster = PastEnd => t.cluster = FREE)
  <2>0. PastEnd # FREE
    BY Numbers
  <2>1. CASE so.cluster = FREE
    <3>1. InUse(so.vol, {})
      BY DEF InUse
    <3>2. GivenOut(so.vol, {}, LinkFree(so.vol, FREE).vol, LinkFree(so.vol, FREE).cluster)
      BY <1>1, <3>1, FirstClusterIs
    <3>3. GivenOut(so.vol, {}, t.vol, t.cluster)
      BY <3>2, <2>1
    <3> HIDE DEF t
    <3> QED
      BY <3>3, <2>0, <2>1, <1>1 DEF GivenOut, Spent, Full
  <2>2. CASE so.cluster = PastEnd
    <3>1. t.vol = so.vol /\ t.cluster = FREE
      BY <1>1, <2>2, PastEndIsNotLinked
    <3> QED
      BY <3>1, <1>1
  <2> QED
    BY <1>1, <2>1, <2>2
<1> HIDE DEF t
<1>5. CASE ~so.ok
  <2>1. r = so
    BY <1>5 DEF WriteOn
  <2> QED
    BY <2>1
<1>6. CASE so.ok /\ t.cluster = FREE
  <2>1. r = Written(FALSE, t.vol, so.cluster, so.size)
    BY <1>3, <1>6 DEF WriteOn, WriteNext
  <2>2. r.vol = t.vol /\ r.cluster = so.cluster
    BY <2>1 DEF Written
  <2>3. \A q \in Position : At(t.vol, q) = At(so.vol, q)
    BY <1>4 DEF At
  <2>4. \A q \in Position : Smudged(w, t.vol, q)
    BY <2>3, <1>1 DEF Smudged
  <2>5. WentTo(w, t.vol, c)
    <3>1. At(t.vol, <<ROOT, 1>>) = At(so.vol, <<ROOT, 1>>)
      BY <1>4 DEF At
    <3> QED
      BY <2>3, <3>1, <1>1 DEF WentTo
  <2> QED
    BY <2>2, <2>4, <2>5, <1>1, <1>4 DEF Smeared
<1>7. CASE so.ok /\ t.cluster # FREE
  <2>1. t.cluster = PastEnd /\ PastEnd \in Table!Entry /\ PastEnd # FREE
    BY <1>4, <1>7, Numbers
  <2>2. r = WriteTo(t.vol, PastEnd, x, k)
    BY <1>3, <1>7, <2>1 DEF WriteOn, WriteNext
  <2> DEFINE z == FilledWith(t.vol, PastEnd, x, k)
  <2>3. r.vol = z /\ r.cluster = PastEnd
    BY <2>2 DEF WriteTo, Written
  <2>4. SectorIn(t.vol, z, PastEnd, x, k)
    BY <1>4, <2>1, FilledIs
  <2> HIDE DEF z
  <2>5. \A q \in Position : Smudged(w, z, q)
    <3> SUFFICES ASSUME NEW q \in Position
                 PROVE  Smudged(w, z, q)
      OBVIOUS
    <3>1. Smudged(t.vol, z, q)
      BY <2>1, <2>4, <1>4, SmudgedSector
    <3>2. At(t.vol, q) = At(so.vol, q)
      BY <1>4 DEF At
    <3>3. Smudged(w, t.vol, q)
      BY <3>2, <1>1 DEF Smudged
    <3> QED
      BY <3>1, <3>3, SmudgedOn
  <2>6. /\ Typed(z) /\ z.table = t.vol.table /\ z.firstFree = t.vol.firstFree /\ z.cwd = t.vol.cwd
    BY <2>4 DEF SectorIn
  <2>7. Spent(z)
    BY <2>6, <1>4 DEF Spent, Full
  <2>8. c # PastEnd
    BY <1>1, <1>4, <1>7
  <2>9. WentTo(w, z, c)
    <3>1. ASSUME c = FREE
          PROVE  At(z, <<ROOT, 1>>).kind = "data"
      <4>1. <<ROOT, 1>> \in Position /\ ROOT # PastEnd
        BY RootSpot, Numbers
      <4>2. At(so.vol, <<ROOT, 1>>).kind = "data"
        BY <3>1, <1>1 DEF WentTo
      <4>3. At(t.vol, <<ROOT, 1>>) = At(so.vol, <<ROOT, 1>>)
        BY <1>4 DEF At
      <4>4. Smudged(t.vol, z, <<ROOT, 1>>)
        BY <4>1, <2>1, <2>4, <1>4, SmudgedSector
      <4> QED
        BY <4>1, <4>2, <4>3, <4>4 DEF Smudged
    <3> QED
      BY <3>1, <2>8 DEF WentTo
  <2> QED
    BY <2>3, <2>5, <2>6, <2>7, <2>8, <2>9, <1>1, <1>4 DEF Smeared
<1> QED
  BY <1>5, <1>6, <1>7

LEMMA SmearIs ==
    ASSUME NEW w, Typed(w), Spent(w), NEW c \in {FREE, PastEnd}, NEW x \in Contents
    PROVE  Smeared(w, FileWrite(w, c, x), c)
<1> DEFINE n == Sectors(Length[x])
           S == {k \in 1 .. n : Smeared(w, Writing(w, c, x)[k], c)}
<1>1. n \in Nat /\ n >= 1 /\ 1 \in Nat /\ 1 \in 1 .. n /\ n \in 1 .. n
  BY LengthIs, SectorsIs
<1>2. c \in Table!Entry
  BY Numbers
<1>3. /\ Writing(w, c, x)[1] = WriteTo(w, c, x, 1)
      /\ \A k \in 2 .. n : Writing(w, c, x)[k] = WriteOn(Writing(w, c, x)[k - 1], x, k)
      /\ \A k \in 1 .. n : Writing(w, c, x)[k] \in WriteState
  BY <1>2, WritingIs
<1>4. 1 \in S
  <2> DEFINE z == FilledWith(w, c, x, 1)
             r == WriteTo(w, c, x, 1)
  <2>1. r.vol = z /\ r.cluster = c
    BY DEF WriteTo, Written
  <2>2. SectorIn(w, z, c, x, 1)
    BY <1>2, FilledIs
  <2> HIDE DEF z
  <2>3. \A q \in Position : Smudged(w, z, q)
    BY <2>2, <1>1, SmudgedSector
  <2>4. Typed(z) /\ z.table = w.table /\ z.cwd = w.cwd /\ Spent(z)
    BY <2>2 DEF SectorIn, Spent, Full
  <2> HIDE DEF r
  <2>6. WentTo(w, z, c)
    <3>1. ASSUME c = FREE
          PROVE  At(z, <<ROOT, 1>>).kind = "data"
      <4>1. Area(FREE) = ROOT /\ 1 \in 1 .. SlotsOf(ROOT)
        BY Numbers DEF Area, SlotsOf
      <4>2. z.cells[ROOT][1] = PieceAt(x, 1, 1, w.cells[ROOT][1])
        BY <4>1, <3>1, <2>2 DEF SectorIn
      <4>3. PieceAt(x, 1, 1, w.cells[ROOT][1]).kind = "data"
        <5>1. 1 <= ClusterSlots /\ (1 - 1) * ClusterSlots + 1 = 1 /\ 1 <= Length[x]
          BY Numbers, LengthIs
        <5> QED
          BY <5>1 DEF PieceAt, Piece
      <4> QED
        BY <4>2, <4>3 DEF At
    <3>2. ASSUME c = PastEnd, NEW q \in Position, q[1] # PastEnd
          PROVE  At(z, q) = At(w, q)
      <4>1. Area(PastEnd) = PastEnd
        BY Numbers, AreaOfCluster
      <4>2. q[1] \in Areas
        BY PositionFields
      <4>3. z.cells[q[1]] = w.cells[q[1]]
        BY <4>1, <4>2, <3>2, <2>2 DEF SectorIn
      <4> QED
        BY <4>3 DEF At
    <3> QED
      BY <3>1, <3>2 DEF WentTo
  <2>5. Smeared(w, r, c)
    BY <2>1, <2>3, <2>4, <2>6 DEF Smeared
  <2> QED
    BY <1>1, <1>3, <2>5 DEF r
<1>5. \A k \in 1 + 1 .. n : k - 1 \in S => k \in S
  <2> SUFFICES ASSUME NEW k \in 2 .. n, k - 1 \in S
               PROVE  k \in S
    OBVIOUS
  <2>1. k \in 1 .. n /\ k \in Nat /\ k >= 2 /\ k <= n
    BY <1>1
  <2> DEFINE so == Writing(w, c, x)[k - 1]
  <2>2. Smeared(w, so, c) /\ so \in WriteState
    BY <1>3
  <2> HIDE DEF so
  <2>3. so.ok \in BOOLEAN
    BY <2>2 DEF WriteState
  <2>4. Smeared(w, WriteOn(so, x, k), c)
    BY <2>1, <2>2, <2>3, SmearedSector
  <2> QED
    BY <2>1, <2>4, <1>3 DEF so
<1> HIDE DEF S, n
<1>6. 1 .. n \subseteq S
  BY <1>1, <1>4, <1>5, UpTo
<1> QED
  BY <1>1, <1>6 DEF S, FileWrite, n

\* The volume z when the file is closed; u was before its entry was put at p.
Blurred(u, z, p, e) ==
    /\ Typed(z) /\ z.table = u.table /\ z.cwd = u.cwd /\ Spent(z)
    /\ \A q \in Position : q # p => Smudged(u, z, q)
    /\ \/ At(z, p) = e
       \/ At(z, p).kind = "data"
       \/ p[1] = PastEnd /\ p[2] # 1 /\ At(z, p) = EndMark
    /\ e \in EntrySlot /\ ~e.dir /\ e.cluster \notin Cluster /\ p \in Position
\* The same by the number that the file was given.
ClosedAt(u, z, p, e, c) ==
    /\ c \in {FREE, PastEnd}
    /\ c = FREE => At(z, <<ROOT, 1>>).kind = "data"
    /\ c = PastEnd =>
        /\ p[1] # PastEnd => At(z, p) = e
        /\ \A q \in Position : q # p /\ q[1] # PastEnd => At(z, q) = At(u, q)

LEMMA BlurredIs ==
    ASSUME NEW u, Typed(u), NEW p \in Position, NEW e0 \in EntrySlot, ~e0.dir, e0.name \in Names,
           NEW a, SlotPut(u, a, p, e0),
           NEW w, w = LinkFree(a, FREE).vol, NEW c, c = LinkFree(a, FREE).cluster, c \notin Cluster,
           NEW x \in Contents, NEW so, so = FileWrite(w, c, x),
           NEW z, z = FileClose(so.vol, p, c, so.size)
    PROVE  \E e : Blurred(u, z, p, e) /\ ClosedAt(u, z, p, e, c) /\ e.name = e0.name
<1> DEFINE e == Entry(e0.name, FALSE, c, so.size)
           s == At(so.vol, p)
<1>1. /\ Typed(a) /\ a.table = u.table /\ a.cwd = u.cwd /\ At(a, p) = e0
      /\ \A q \in Position : q # p => At(a, q) = At(u, q)
  BY DEF SlotPut
<1>2. GivenOut(a, {}, w, c)
  <2>1. InUse(a, {})
    BY DEF InUse
  <2> QED
    BY <2>1, <1>1, FirstClusterIs
<1>3. /\ Typed(w) /\ w.cells = a.cells /\ w.cwd = a.cwd /\ c \in {FREE, PastEnd} /\ Spent(w)
      /\ w.table = a.table
  BY <1>2 DEF GivenOut
<1>4. Smeared(w, so, c)
  BY <1>3, SmearIs
<1>5. c \in Table!Entry
  BY <1>3, Numbers
<1>6. so \in WriteState
  BY <1>3, <1>5, FileWriteTyped
<1>7. so.size \in Nat /\ Typed(so.vol)
  BY <1>6 DEF WriteState
<1>8. e \in EntrySlot /\ e \in Slot /\ ~e.dir /\ e.cluster = c /\ e.name = e0.name
  BY <1>5, <1>7, EntryIsSlot DEF Entry
<1>9. e = [e0 EXCEPT !.cluster = c, !.size = so.size] /\ e0.kind = "entry"
  <2>1. ClosesTo(e0, c, so.size, Entry(e0.name, FALSE, c, so.size))
    BY ClosedEntry
  <2> QED
    BY <2>1 DEF ClosesTo
<1> HIDE DEF e
<1>10. Smudged(w, so.vol, p) /\ At(w, p) = e0
  <2>1. At(w, p) = At(a, p)
    BY <1>3 DEF At
  <2> QED
    BY <2>1, <1>1, <1>4 DEF Smeared
<1>20. /\ c = FREE => At(so.vol, <<ROOT, 1>>).kind = "data"
       /\ c = PastEnd => \A q \in Position : q[1] # PastEnd => At(so.vol, q) = At(w, q)
  BY <1>4 DEF Smeared, WentTo
<1>11. \E t \in Slot : /\ SlotPut(so.vol, z, p, t)
                       /\ \/ t = e /\ s = e0
                          \/ t.kind = "data" /\ s.kind = "data"
                          \/ p[1] = PastEnd /\ p[2] # 1 /\ t = EndMark
  <2>1. CASE s = e0
    <3>1. z = Put(so.vol, p, e)
      BY <2>1, <1>9 DEF FileClose
    <3>2. SlotPut(so.vol, z, p, e)
      BY <3>1, <1>7, <1>8, PutIs
    <3> QED
      BY <3>2, <2>1, <1>8
  <2>2. CASE s.kind = "data"
    <3> DEFINE t == [s EXCEPT !.piece = 0]
    <3>1. s \in Slot
      BY <1>7, AtIsSlot
    <3>2. t \in Slot /\ t.kind = "data"
      BY <3>1, <2>2 DEF EntrySlot, Slot, EndMark, Free, Label, Residue
    <3>3. z = Put(so.vol, p, t)
      BY <2>2 DEF FileClose
    <3> HIDE DEF t
    <3>4. SlotPut(so.vol, z, p, t)
      BY <3>2, <3>3, <1>7, PutIs
    <3> QED
      BY <3>2, <3>4, <2>2
  <2>3. CASE p[1] = PastEnd /\ p[2] # 1 /\ s = EndMark
    <3>1. z = so.vol
      BY <2>3 DEF FileClose, EndMark
    <3>2. z = Put(so.vol, p, s)
      BY <3>1, <1>7, PutSame
    <3>3. s \in Slot
      BY <1>7, AtIsSlot
    <3> HIDE DEF s
    <3>4. SlotPut(so.vol, z, p, s)
      BY <3>2, <3>3, <1>7, PutIs
    <3> QED
      BY <3>3, <3>4, <2>3
  <2> QED
    BY <2>1, <2>2, <2>3, <1>10 DEF Smudged
<1>12. PICK t \in Slot : /\ SlotPut(so.vol, z, p, t)
                         /\ \/ t = e /\ s = e0
                            \/ t.kind = "data" /\ s.kind = "data"
                            \/ p[1] = PastEnd /\ p[2] # 1 /\ t = EndMark
  BY <1>11
<1>13. /\ Typed(z) /\ z.table = so.vol.table /\ z.firstFree = so.vol.firstFree
       /\ z.cwd = so.vol.cwd /\ At(z, p) = t
       /\ \A q \in Position : q # p => At(z, q) = At(so.vol, q)
  BY <1>12 DEF SlotPut
<1>14. Spent(z) /\ z.table = u.table /\ z.cwd = u.cwd
  BY <1>1, <1>3, <1>4, <1>13 DEF Smeared, Spent, Full
<1>15. \A q \in Position : q # p => Smudged(u, z, q)
  <2> SUFFICES ASSUME NEW q \in Position, q # p
               PROVE  Smudged(u, z, q)
    OBVIOUS
  <2>1. Smudged(w, so.vol, q)
    BY <1>4 DEF Smeared
  <2>2. At(w, q) = At(u, q)
    BY <1>1, <1>3 DEF At
  <2>3. At(z, q) = At(so.vol, q)
    BY <1>13
  <2> QED
    BY <2>1, <2>2, <2>3 DEF Smudged
<1>16. c \notin Cluster
  OBVIOUS
<1>17. Blurred(u, z, p, e)
  BY <1>8, <1>12, <1>13, <1>14, <1>15, <1>16 DEF Blurred
<1>18. ASSUME c = FREE
       PROVE  At(z, <<ROOT, 1>>).kind = "data"
  <2>1. At(so.vol, <<ROOT, 1>>).kind = "data"
    BY <1>18, <1>20
  <2>2. CASE p = <<ROOT, 1>>
    <3>1. p[1] # PastEnd
      BY <2>2, Numbers
    <3>2. s.kind = "data" /\ s # e0
      BY <2>1, <2>2, <1>9
    <3> QED
      BY <2>2, <3>1, <3>2, <1>12, <1>13
  <2>3. CASE p # <<ROOT, 1>>
    <3>1. <<ROOT, 1>> \in Position
      BY RootSpot
    <3> QED
      BY <2>1, <2>3, <3>1, <1>13
  <2> QED
    BY <2>2, <2>3
<1>19. ASSUME c = PastEnd
       PROVE  /\ p[1] # PastEnd => At(z, p) = e
              /\ \A q \in Position : q # p /\ q[1] # PastEnd => At(z, q) = At(u, q)
  <2>1. ASSUME p[1] # PastEnd
        PROVE  At(z, p) = e
    <3>1. s = At(w, p)
      BY <2>1, <1>19, <1>20
    <3>2. s.kind # "data"
      BY <3>1, <1>9, <1>10
    <3> QED
      BY <2>1, <3>2, <1>12, <1>13
  <2>2. ASSUME NEW q \in Position, q # p, q[1] # PastEnd
        PROVE  At(z, q) = At(u, q)
    <3>1. At(so.vol, q) = At(w, q)
      BY <2>2, <1>19, <1>20
    <3>2. At(w, q) = At(u, q)
      BY <2>2, <1>1, <1>3 DEF At
    <3> QED
      BY <3>1, <3>2, <2>2, <1>13
  <2> QED
    BY <2>1, <2>2
<1>21. ClosedAt(u, z, p, e, c)
  BY <1>3, <1>18, <1>19 DEF ClosedAt
<1> QED
  BY <1>8, <1>17, <1>21

\* An orderly directory has one entry of a name.
LEMMA OneOfName ==
    ASSUME NEW v, NEW N, NEW R, Laid(v, N, R), NEW d \in Dirs(N),
           NEW a \in EntrySpots(v, R[d]), NEW b \in EntrySpots(v, R[d]),
           At(v, a).name = At(v, b).name
    PROVE  a = b
<1>1. Orderly(v, N, R, d) /\ PathsApart(N)
  BY DEF Laid
<1>2. PICK up : Neat(v, d, up, R[d])
  BY <1>1 DEF Orderly
<1>3. a \in Spots(R[d]) /\ b \in Spots(R[d]) /\ At(v, a).kind = "entry" /\ At(v, b).kind = "entry"
  BY DEF EntrySpots
<1>4. CASE ~IsDot(At(v, a))
  <2>1. ~IsDot(At(v, b))
    BY <1>3, <1>4 DEF IsDot
  <2>2. a \in NamedSpots(v, R[d]) /\ b \in NamedSpots(v, R[d])
    BY <1>4, <2>1 DEF NamedSpots
  <2>3. NodeAt(v, d, a) \in N /\ NodeAt(v, d, b) \in N
    BY <2>2, <1>1 DEF Orderly
  <2>4. NodeAt(v, d, a).path = NodeAt(v, d, b).path
    BY DEF NodeAt
  <2>5. NodeAt(v, d, a) = NodeAt(v, d, b)
    BY <2>3, <2>4, <1>1 DEF PathsApart
  <2>6. NodeAt(v, d, a).pos = a /\ NodeAt(v, d, b).pos = b
    BY DEF NodeAt
  <2> QED
    BY <2>5, <2>6
<1>5. CASE IsDot(At(v, a))
  <2>1. IsDot(At(v, b))
    BY <1>3, <1>5 DEF IsDot
  <2> DEFINE f == <<R[d][1], 1>>
             g == <<R[d][1], 2>>
  <2>2. d # Top /\ a \in {f, g} /\ b \in {f, g}
    BY <1>2, <1>3, <1>5, <2>1 DEF Neat
  <2>3. At(v, f).name = "." /\ At(v, g).name = ".."
    BY <1>2, <2>2 DEF Neat, Entry
  <2> HIDE DEF f, g
  <2> QED
    BY <2>2, <2>3
<1> QED
  BY <1>4, <1>5

\* What is found in a directory of z that has lost some of its entries.
Hit(s, n, more) == s.kind = "entry" /\ s.name = n /\ (more => s.dir)
Shrunk(v, z, c, n, more) ==
    Lookup(z, c, n, more).found => Lookup(z, c, n, more) = Lookup(v, c, n, more)
SlotsIn(z, c) == {Slots(z, c)[i] : i \in 1 .. Len(Slots(z, c))}
LEMMA LookupWithin ==
    ASSUME NEW v, Typed(v), NEW N, NEW R, Laid(v, N, R), NEW d \in Dirs(N), NEW n,
           NEW more \in BOOLEAN, NEW z, Typed(z),
           \A q \in SlotsIn(z, d.entry.cluster) :
                Hit(At(z, q), n, more) => q \in Spots(R[d]) /\ At(z, q) = At(v, q)
    PROVE  Shrunk(v, z, d.entry.cluster, n, more)
<1> SUFFICES Lookup(z, d.entry.cluster, n, more).found =>
                Lookup(z, d.entry.cluster, n, more) = Lookup(v, d.entry.cluster, n, more)
  BY DEF Shrunk
<1> DEFINE c == d.entry.cluster
           s == Slots(v, c)
           t == Slots(z, c)
           r == R[d]
<1>1. IsRun(v.table, r) /\ r[1] = c
  BY RunOfDir
<1>2. Spelled(r, Len(r), s)
  <2> HIDE DEF c, r
  <2> QED
    BY <1>1, SlotsOfRun DEF c
<1>3. PICK up : Neat(v, d, up, r)
  BY DEF Laid, Orderly
<1>4. Listed(v, s) = {i \in DOMAIN s : At(v, s[i]).kind = "entry"} /\ s \in Walks /\ DOMAIN s = 1 .. Len(s)
  <2> HIDE DEF r
  <2> QED
    BY <1>3, NeatListing
<1>5. t \in Walks /\ DOMAIN t = 1 .. Len(t)
  <2>1. c \in Table!Entry
    BY <1>1, RunFields
  <2>2. t \in Walks
    BY <2>1, SlotsTyped
  <2> HIDE DEF t
  <2> QED
    BY <2>2 DEF Walks
<1> DEFINE f == Lookup(z, c, n, more)
           g == Lookup(v, c, n, more)
           I == Hits(z, t, n, more)
           J == Hits(v, s, n, more)
<1>6. f = LookupIn(z, t, n, more) /\ g = LookupIn(v, s, n, more)
  BY DEF Lookup
<1>7. \A i \in I : \E j \in J : s[j] = t[i] /\ At(z, t[i]) = At(v, s[j])
  <2> SUFFICES ASSUME NEW i \in I
               PROVE  \E j \in J : s[j] = t[i] /\ At(z, t[i]) = At(v, s[j])
    OBVIOUS
  <2> DEFINE q == t[i]
  <2>1. /\ i \in 1 .. Len(t) /\ At(z, q).kind = "entry" /\ At(z, q).name = n
        /\ more => At(z, q).dir
    BY <1>5 DEF Hits, Listed
  <2>2. q \in SlotsIn(z, c)
    BY <2>1 DEF SlotsIn
  <2> HIDE DEF q
  <2>3. q \in Spots(r) /\ At(z, q) = At(v, q)
    <3>1. Hit(At(z, q), n, more)
      BY <2>1 DEF Hit
    <3> QED
      BY <3>1, <2>2
  <2>4. PICK j \in 1 .. Len(s) : s[j] = q
    BY <2>3, <1>2 DEF Spelled, Spots
  <2> HIDE DEF s
  <2>5. j \in J
    BY <2>1, <2>3, <2>4, <1>4 DEF Hits
  <2> QED
    BY <2>3, <2>4, <2>5 DEF q
<1>8. \A j, k \in J : s[j] = s[k]
  <2> SUFFICES ASSUME NEW j \in J, NEW k \in J
               PROVE  s[j] = s[k]
    OBVIOUS
  <2>1. /\ j \in 1 .. Len(s) /\ k \in 1 .. Len(s)
        /\ At(v, s[j]).kind = "entry" /\ At(v, s[k]).kind = "entry"
        /\ At(v, s[j]).name = n /\ At(v, s[k]).name = n
    BY <1>4 DEF Hits, Listed
  <2>2. s[j] \in Spots(r) /\ s[k] \in Spots(r)
    BY <2>1, <1>2 DEF Spelled, Spots
  <2>3. s[j] \in EntrySpots(v, r) /\ s[k] \in EntrySpots(v, r)
    BY <2>1, <2>2 DEF EntrySpots
  <2> HIDE DEF s
  <2> QED
    BY <2>1, <2>3, OneOfName
<1> HIDE DEF f, g, I, J, s, t, c, r
<1>9. f.found => f = g
  <2>1. CASE I = {}
    <3>1. f = NotFound
      BY <2>1, <1>5, <1>6, LookupInIs DEF I
    <3> QED
      BY <3>1 DEF NotFound
  <2>2. CASE I # {}
    <3>1. PICK i \in I : f = [found |-> TRUE, pos |-> t[i], entry |-> At(z, t[i])]
      BY <2>2, <1>5, <1>6, LookupInIs DEF I
    <3>2. PICK j \in J : s[j] = t[i] /\ At(z, t[i]) = At(v, s[j])
      BY <1>7
    <3>3. PICK k \in J : g = [found |-> TRUE, pos |-> s[k], entry |-> At(v, s[k])]
      BY <3>2, <1>4, <1>6, LookupInIs DEF J
    <3>4. s[k] = s[j]
      BY <1>8
    <3> QED
      BY <3>1, <3>2, <3>3, <3>4
  <2> QED
    BY <2>1, <2>2
<1> QED
  BY <1>9 DEF f, g, c

LEMMA LookupShrinks ==
    ASSUME NEW v, Typed(v), NEW N, NEW R, Laid(v, N, R), NEW d \in Dirs(N), NEW n,
           NEW more \in BOOLEAN, NEW z, Typed(z),
           \A c \in Members(R[d]) : z.table[c] = v.table[c],
           \A q \in Spots(R[d]) : Hit(At(z, q), n, more) => At(z, q) = At(v, q)
    PROVE  Shrunk(v, z, d.entry.cluster, n, more)
<1> DEFINE c == d.entry.cluster
           t == Slots(z, c)
           r == R[d]
<1>1. IsRun(z.table, r) /\ r[1] = c
  <2>1. IsRun(v.table, r) /\ r[1] = c
    BY RunOfDir
  <2> QED
    BY <2>1, RunSame
<1>2. Spelled(r, Len(r), t)
  <2> HIDE DEF c, r
  <2> QED
    BY <1>1, SlotsOfRun DEF c
<1>3. \A q \in SlotsIn(z, c) : q \in Spots(r)
  BY <1>2 DEF SlotsIn, Spelled, Spots
<1> QED
  BY <1>3, LookupWithin

\* In z the directories that v has on the way are found, or nothing is.
Steady(v, z, d) ==
    \A n : Lookup(v, d.entry.cluster, n, TRUE).found /\ Lookup(z, d.entry.cluster, n, TRUE).found
        => Lookup(z, d.entry.cluster, n, TRUE) = Lookup(v, d.entry.cluster, n, TRUE)

LEMMA NothingBelow ==
    ASSUME NEW v, NEW f, NEW n, NEW more, Below(v, f, n, more).found
    PROVE  f.found
<1>1. CASE ~f.found
  <2>1. Below(v, f, n, more) = NotFound
    BY <1>1 DEF Below
  <2>2. ~NotFound.found
    BY DEF NotFound
  <2> QED
    BY <2>1, <2>2
<1> QED
  BY <1>1

LooksFor(z, D, p) ==
    EntryFromPath(z, p).found => EntryFromPath(z, p) = Lookup(z, D.entry.cluster, Leaf(p), FALSE)
LEMMA LeafShrinks ==
    ASSUME NEW v, Typed(v), NEW N, NEW R, Laid(v, N, R), Stands(v, N), NEW z, Typed(z), z.cwd = v.cwd,
           \A d \in Dirs(N) : Steady(v, z, d),
           NEW p \in NewPaths, NEW D \in Dirs(N), D.path = TrailOf(v, N, p)[Len(p.names) - 1]
    PROVE  LooksFor(z, D, p)
<1> SUFFICES ASSUME EntryFromPath(z, p).found
             PROVE  EntryFromPath(z, p) = Lookup(z, D.entry.cluster, Leaf(p), FALSE)
  BY DEF LooksFor
<1> DEFINE L == Len(p.names)
           A(i) == Trail(v, p)[i]
           B(i) == Trail(z, p)[i]
           S == {i \in Nat : A(i).found /\ B(i).found => A(i) = B(i)}
<1>1. p \in Paths /\ L \in Nat /\ L >= 1 /\ L - 1 \in 0 .. L /\ Leaf(p) \in Names /\ p.names[L] = Leaf(p)
      /\ L \in 1 .. L /\ L - 1 < L /\ L - 1 \in Nat
  BY ParentTyped, PathFields DEF Leaf
<1>2. /\ A(0) = StartOf(v, p) /\ \A i \in 1 .. L : A(i) = Below(v, A(i - 1), p.names[i], i < L)
      /\ B(0) = StartOf(z, p) /\ \A i \in 1 .. L : B(i) = Below(z, B(i - 1), p.names[i], i < L)
  BY <1>1, TrailIs
<1>3. Navigable(v) /\ NodesOf(v) = N
  BY LaidIsNavigable
<1>4. 0 \in S
  <2>1. StartOf(v, p) = StartOf(z, p)
    BY DEF StartOf
  <2> QED
    BY <2>1, <1>2
<1>5. \A i \in 0 + 1 .. L - 1 : i - 1 \in S => i \in S
  <2> SUFFICES ASSUME NEW i \in 1 .. L - 1, i - 1 \in S, A(i).found, B(i).found
               PROVE  A(i) = B(i)
    BY <1>1
  <2>1. i \in 1 .. L /\ (i < L) = TRUE /\ i - 1 \in 0 .. L /\ (i - 1 < L \/ i - 1 = 0) = TRUE
    BY <1>1
  <2>2. A(i) = Below(v, A(i - 1), p.names[i], TRUE) /\ B(i) = Below(z, B(i - 1), p.names[i], TRUE)
    BY <2>1, <1>2
  <2> DEFINE g == A(i - 1)
             to == TreeTrail(TreeOf(v, NodesOf(v)), Here(v).path, p)[i - 1]
  <2>3. Leading(v, g, to, TRUE)
    <3>1. Leading(v, Trail(v, p)[i - 1], to, i - 1 < Len(p.names) \/ i - 1 = 0)
      BY <1>1, <1>3, <2>1, TrailFollows
    <3> QED
      BY <3>1, <2>1
  <2> HIDE DEF to
  <2>4. A(i - 1).found /\ B(i - 1).found
    <3>1. Below(v, A(i - 1), p.names[i], TRUE).found /\ Below(z, B(i - 1), p.names[i], TRUE).found
      BY <2>2
    <3> HIDE DEF A, B
    <3> QED
      BY <3>1, NothingBelow
  <2>5. B(i - 1) = g
    BY <2>4
  <2> HIDE DEF A, B, g
  <2>6. g.found /\ A(i) = Below(v, g, p.names[i], TRUE) /\ B(i) = Below(z, g, p.names[i], TRUE)
    BY <2>2, <2>4, <2>5 DEF g
  <2>7. PICK m \in N : Fits(m, TRUE) /\ m.entry.cluster = g.entry.cluster
    BY <2>3, <2>6, <1>3 DEF Leading
  <2>8. m \in Dirs(N)
    BY <2>7 DEF Fits, Dirs
  <2>9. Steady(v, z, m)
    BY <2>8
  <2>10. A(i) = Lookup(v, m.entry.cluster, p.names[i], TRUE) /\ B(i) = Lookup(z, m.entry.cluster, p.names[i], TRUE)
    BY <2>6, <2>7 DEF Below
  <2> QED
    BY <2>9, <2>10 DEF Steady
<1> HIDE DEF S
<1>6. 0 .. L - 1 \subseteq S
  <2>1. L - 1 \in Nat /\ 0 \in Nat
    BY <1>1
  <2> DEFINE m == L - 1
  <2> HIDE DEF L, m
  <2>2. m \in Nat /\ \A i \in 0 + 1 .. m : i - 1 \in S => i \in S
    BY <2>1, <1>5 DEF m
  <2>3. 0 .. m \subseteq S
    BY <2>1, <2>2, <1>4, UpTo
  <2> QED
    BY <2>3 DEF m
<1>7. A(L - 1).found => (B(L - 1).found => A(L - 1) = B(L - 1))
  <2>1. L - 1 \in S
    BY <1>1, <1>6
  <2> QED
    BY <2>1 DEF S
<1>8. Parent(v, p).found /\ Parent(v, p).entry.cluster = D.entry.cluster
  BY LeafOfPath
<1>9. Parent(v, p) = A(L - 1)
  BY DEF Parent, Resolve
<1>10. EntryFromPath(z, p) = B(L)
  BY NewIsNotRoot DEF EntryFromPath, Resolve
<1>11. B(L) = Below(z, B(L - 1), Leaf(p), FALSE)
  <2>1. (L < L) = FALSE
    BY <1>1
  <2>2. B(L) = Below(z, B(L - 1), p.names[L], L < L)
    BY <1>1, <1>2
  <2> QED
    BY <2>1, <2>2, <1>1
<1> HIDE DEF A, B, L
<1>12. B(L - 1).found
  <2>1. Below(z, B(L - 1), Leaf(p), FALSE).found
    BY <1>10, <1>11
  <2> QED
    BY <2>1, NothingBelow
<1>13. B(L - 1).entry.cluster = D.entry.cluster
  BY <1>7, <1>8, <1>9, <1>12
<1> QED
  BY <1>10, <1>11, <1>12, <1>13 DEF Below

\* Where no chain is freed, nothing is.
LEMMA NothingFreed ==
    ASSUME NEW z, Typed(z), Spent(z), NEW path \in Paths,
           EntryFromPath(z, path).found =>
                \/ EntryFromPath(z, path).entry.cluster \notin Cluster
                \/ ~MayDelete(z, EntryFromPath(z, path).entry)
    PROVE  Spent(DeleteFile(z, path).vol)
<1> DEFINE f == EntryFromPath(z, path)
           w == DeleteFile(z, path).vol
<1>1. f \in Found
  BY EntryFromPathTyped
<1>2. f.pos \in Position /\ f.entry.cluster \in Table!Entry
  BY <1>1 DEF Found, EntrySlot
<1>3. w = IF f.found THEN DeleteEntry(z, f).vol ELSE z
  BY DEF DeleteFile, DeleteFound, Answer
<1>4. w = z \/ (f.found /\ MayDelete(z, f.entry) /\ w = Put(Freed(z, f.entry.cluster), f.pos, Free))
  BY <1>3 DEF DeleteEntry
<1>5. CASE f.found /\ MayDelete(z, f.entry) /\ w = Put(Freed(z, f.entry.cluster), f.pos, Free)
  <2>1. f.entry.cluster \notin Cluster
    BY <1>5
  <2> HIDE DEF f, w
  <2>2. Freed(z, f.entry.cluster) = z
    BY <2>1, <1>2, FreedIs
  <2>3. SlotPut(z, w, f.pos, Free)
    BY <2>2, <1>2, <1>5, PutIs, MarksAreSlots
  <2>4. Spent(w)
    BY <2>3 DEF SlotPut, Spent, Full
  <2> QED
    BY <2>4 DEF w
<1> QED
  BY <1>4, <1>5

\* An entry of that name in the directory can only be the file's.
LEMMA OnlyTheFile ==
    ASSUME NEW v, NEW N, NEW R, Laid(v, N, R), NEW D \in Dirs(N), NEW e, e.name \in Names, NoNode(N, D, e),
           NEW q \in Spots(R[D]), At(v, q).kind = "entry"
    PROVE  At(v, q).name # e.name
<1> SUFFICES ASSUME At(v, q).name = e.name
             PROVE  FALSE
  OBVIOUS
<1>1. ~IsDot(At(v, q))
  BY NamesAreNotDots
<1>2. q \in NamedSpots(v, R[D])
  BY <1>1 DEF NamedSpots, EntrySpots
<1>3. NodeAt(v, D, q) \in N
  BY <1>2 DEF Laid, Orderly
<1>4. NodeAt(v, D, q).path = Append(D.path, e.name)
  BY DEF NodeAt
<1> QED
  BY <1>3, <1>4 DEF NoNode

\* What a lookup has found.
FoundIn(z, c, n, f, i) ==
    LET s == Slots(z, c)
    IN  /\ i \in Listed(z, s) /\ s[i] \in Position
        /\ At(z, s[i]).kind = "entry" /\ At(z, s[i]).name = n
        /\ f.pos = s[i] /\ f.entry = At(z, s[i])
LEMMA LookupFinds ==
    ASSUME NEW z, Typed(z), NEW c \in Table!Entry, NEW n, NEW more \in BOOLEAN,
           Lookup(z, c, n, more).found
    PROVE  \E i : FoundIn(z, c, n, Lookup(z, c, n, more), i)
<1> DEFINE s == Slots(z, c)
           f == Lookup(z, c, n, more)
           I == Hits(z, s, n, more)
<1>1. s \in Walks
  BY SlotsTyped
<1>2. f = LookupIn(z, s, n, more)
  BY DEF Lookup
<1>3. \A i \in I : i \in Listed(z, s) /\ At(z, s[i]).kind = "entry" /\ At(z, s[i]).name = n
  BY DEF Hits
<1> HIDE DEF s, f, I
<1>4. I # {}
  <2>1. CASE I = {}
    <3>1. f = NotFound
      BY <2>1, <1>1, <1>2, LookupInIs DEF I
    <3>2. ~NotFound.found /\ f.found
      BY DEF NotFound, f
    <3> QED
      BY <3>1, <3>2
  <2> QED
    BY <2>1
<1>5. PICK i \in I : s[i] \in Position /\ f = [found |-> TRUE, pos |-> s[i], entry |-> At(z, s[i])]
  BY <1>1, <1>2, <1>4, LookupInIs DEF I
<1>6. FoundIn(z, c, n, f, i)
  BY <1>3, <1>5 DEF FoundIn, s
<1> QED
  BY <1>6 DEF f

LEMMA DirShrinks ==
    ASSUME NEW v, Typed(v), NEW N, NEW R, Laid(v, N, R), NEW d \in Dirs(N), NEW z, Typed(z),
           \A c \in Members(R[d]) : z.table[c] = v.table[c],
           \A q \in Spots(R[d]) : At(z, q).kind = "entry" /\ At(z, q).dir => At(z, q) = At(v, q)
    PROVE  Steady(v, z, d)
<1>1. \A n : Shrunk(v, z, d.entry.cluster, n, TRUE)
  <2> TAKE n
  <2>1. \A q \in Spots(R[d]) : Hit(At(z, q), n, TRUE) => At(z, q) = At(v, q)
    BY DEF Hit
  <2>2. TRUE \in BOOLEAN
    OBVIOUS
  <2> QED
    BY <2>1, <2>2, LookupShrinks
<1> QED
  BY <1>1 DEF Shrunk, Steady

\* Such a file is deleted again, and the volume is still full.
LEMMA BlurredSettled ==
    ASSUME NEW v, NEW u, NEW N, NEW R, NEW Q, NEW D, NEW p, NEW e0, SettledFor(v, u, N, R, Q, D, p, e0),
           NEW z, NEW e, Blurred(u, z, p, e), e.name = e0.name,
           NEW path, LeadsInto(v, N, D, path, e)
    PROVE  Spent(DeleteFile(z, path).vol)
<1>1. /\ Typed(u) /\ Laid(u, N, Q) /\ D \in Dirs(N) /\ u.cwd = v.cwd /\ NoNode(N, D, e0) /\ e0.name \in Names
  BY DEF SettledFor, Settled
<1>2. /\ Typed(z) /\ z.table = u.table /\ z.cwd = u.cwd /\ Spent(z)
      /\ \A q \in Position : q # p => Smudged(u, z, q)
      /\ \/ At(z, p) = e
         \/ At(z, p).kind = "data"
         \/ p[1] = PastEnd /\ p[2] # 1 /\ At(z, p) = EndMark
      /\ e \in EntrySlot /\ ~e.dir /\ e.cluster \notin Cluster
  BY DEF Blurred
<1>3. path \in NewPaths /\ path \in Paths /\ Leaf(path) = e.name
  BY <1>1, ParentTyped DEF LeadsInto
<1>4. Stands(u, N) /\ D.path = TrailOf(u, N, path)[Len(path.names) - 1]
  BY <1>1, SameDirsOf
<1>5. \A q \in Position : At(z, q).kind = "entry" => (q = p /\ At(z, q) = e) \/ (q # p /\ At(z, q) = At(u, q))
  <2> SUFFICES ASSUME NEW q \in Position, At(z, q).kind = "entry"
               PROVE  (q = p /\ At(z, q) = e) \/ (q # p /\ At(z, q) = At(u, q))
    OBVIOUS
  <2>1. At(z, q).kind # "data" /\ At(z, q) # EndMark
    BY DEF EndMark
  <2> QED
    BY <2>1, <1>2 DEF Smudged
<1>6. \A d \in Dirs(N) : Steady(u, z, d)
  <2> SUFFICES ASSUME NEW d \in Dirs(N)
               PROVE  Steady(u, z, d)
    OBVIOUS
  <2>1. \A c \in Members(Q[d]) : z.table[c] = u.table[c]
    BY <1>2
  <2>2. \A q \in Spots(Q[d]) : At(z, q).kind = "entry" /\ At(z, q).dir => At(z, q) = At(u, q)
    <3>1. \A q \in Spots(Q[d]) : q \in Position
      BY SpotArea
    <3> QED
      BY <3>1, <1>2, <1>5
  <2> QED
    BY <2>1, <2>2, <1>1, <1>2, DirShrinks
<1> DEFINE f == EntryFromPath(z, path)
<1>7. ASSUME f.found
      PROVE  f.entry.cluster \notin Cluster
  <2>1. f = Lookup(z, D.entry.cluster, Leaf(path), FALSE)
    <3>1. LooksFor(z, D, path)
      BY <1>1, <1>2, <1>3, <1>4, <1>6, LeafShrinks
    <3> QED
      BY <3>1, <1>7 DEF LooksFor
  <2>2. IsRun(u.table, Q[D]) /\ Q[D][1] = D.entry.cluster /\ D.entry.cluster \in Table!Entry
    <3>1. IsRun(u.table, Q[D]) /\ Q[D][1] = D.entry.cluster
      BY <1>1, RunOfDir
    <3> QED
      BY <3>1, RunFields
  <2>3. PICK i : FoundIn(z, D.entry.cluster, Leaf(path), f, i)
    <3> HIDE DEF f
    <3>1. Lookup(z, D.entry.cluster, Leaf(path), FALSE).found
      BY <2>1, <1>7
    <3> QED
      BY <3>1, <2>1, <2>2, <1>2, LookupFinds
  <2> HIDE DEF f
  <2> DEFINE s == Slots(z, D.entry.cluster)
             q == s[i]
  <2>4. /\ i \in DOMAIN s /\ q \in Position /\ At(z, q).kind = "entry" /\ At(z, q).name = e.name
        /\ f.entry = At(z, q)
    BY <2>3, <1>3 DEF FoundIn, Listed
  <2>5. Spelled(Q[D], Len(Q[D]), s)
    <3>1. IsRun(z.table, Q[D])
      BY <2>2, <1>2
    <3> QED
      BY <3>1, <2>2, <1>2, SlotsOfRun
  <2>6. q \in Spots(Q[D])
    <3>1. i \in 1 .. Len(s)
      BY <2>4, <2>5 DEF Spelled, Walks
    <3> QED
      BY <3>1, <2>5 DEF Spelled, Spots
  <2> HIDE DEF s, q
  <2>7. CASE q = p /\ At(z, q) = e
    BY <2>7, <2>4, <1>2
  <2>8. CASE At(z, q) = At(u, q)
    <3>1. At(u, q).name # e0.name
      BY <2>4, <2>6, <2>8, <1>1, OnlyTheFile
    <3> QED
      BY <3>1, <2>4, <2>8
  <2> QED
    BY <2>4, <2>7, <2>8, <1>5
<1> QED
  BY <1>2, <1>3, <1>7, NothingFreed

LEMMA ConcatLast ==
    ASSUME NEW S, NEW s \in Seq(S), NEW t \in Seq(S), Len(t) >= 1
    PROVE  (s \o t)[Len(s \o t)] = t[Len(t)]
<1>1. Len(s) \in Nat /\ Len(t) \in Nat
  OBVIOUS
<1>2. Len(s \o t) = Len(s) + Len(t)
  OBVIOUS
<1>3. Len(s) + Len(t) \in 1 .. Len(s) + Len(t) /\ Len(s) + Len(t) > Len(s)
      /\ (Len(s) + Len(t)) - Len(s) = Len(t)
  BY <1>1
<1> QED
  BY <1>2, <1>3

\* The walk of a directory that goes on in the entry past the table: it leads from
\* there to the root directory.
WalksPast(r, z, s, t) ==
    /\ Spelled(r, Len(r), t)
    /\ s = (t \o AreaSlots(z, PastEnd)) \o AreaSlots(z, ROOT)

LEMMA WalkPast ==
    ASSUME NEW v, Typed(v), NEW r, IsRun(v.table, r), r[1] # ROOT, NEW z, Typed(z),
           z.table = [v.table EXCEPT ![LastOf(r)] = PastEnd]
    PROVE  \E t : WalksPast(r, z, Slots(z, r[1]), t)
<1> DEFINE n == Len(r)
           V(k) == Walk(v, r[1])[k]
           Z(k) == Walk(z, r[1])[k]
           S == {k \in Nat : k < n => Spelled(r, k + 1, V(k)) /\ Z(k) = V(k)}
<1>1. n \in Nat /\ n >= 1 /\ PastEnd \in Nat /\ r[1] \in Table!Entry
      /\ Area(r[1]) = r[1] /\ r[n] \in Areas /\ r[1] \in Areas
  BY RunFields, Numbers
<1>2. /\ Seg(v.table, r) /\ v.table[LastOf(r)] = EOF /\ LastOf(r) = r[n]
  BY RunFields DEF LastOf
<1>3. n + 2 <= PastEnd
  <2>1. n <= LastCluster - 1
    BY <1>2, SegSize
  <2> HIDE DEF n
  <2> QED
    BY <2>1, <1>1, Numbers
<1>4. /\ V(0) = AreaSlots(v, r[1]) /\ Z(0) = AreaSlots(z, r[1])
      /\ \A k \in 1 .. PastEnd : V(k) = Longer(v, V(k - 1))
      /\ \A k \in 1 .. PastEnd : Z(k) = Longer(z, Z(k - 1)) 
      /\ \A k \in 0 .. PastEnd : Z(k) \in Walks
  BY <1>1, WalkIs
<1>5. \A a \in Areas : AreaSlots(v, a) = AreaSlots(z, a)
  <2>1. \A a \in Areas : Len(v.cells[a]) = SlotsOf(a) /\ Len(z.cells[a]) = SlotsOf(a)
    BY VolumeFields
  <2> QED
    BY <2>1 DEF AreaSlots
<1> HIDE DEF V, Z
<1>6. 0 \in S
  <2>1. Spelled(r, 1, V(0))
    BY <1>4, FirstSpelled
  <2> QED
    BY <2>1, <1>1, <1>4, <1>5
<1>7. \A k \in 0 + 1 .. n - 1 : k - 1 \in S => k \in S
  <2> SUFFICES ASSUME NEW k \in 0 + 1 .. n - 1, k - 1 \in S
               PROVE  k \in S
    OBVIOUS
  <2>1. k \in Nat /\ k \in 1 .. PastEnd /\ k \in 1 .. n - 1 /\ (k - 1) + 1 = k /\ k - 1 < n /\ k \in 1 .. n /\ k # n
    BY <1>1, <1>3
  <2> DEFINE so == V(k - 1)
  <2>2. Spelled(r, k, so) /\ Z(k - 1) = so
    BY <2>1
  <2>3. V(k) = Longer(v, so) /\ Z(k) = Longer(z, so)
    BY <2>1, <2>2, <1>4
  <2> HIDE DEF so
  <2>4. Spelled(r, k + 1, Longer(v, so))
    <3> HIDE DEF n
    <3> QED BY <2>1, <2>2, NextSpelled DEF n
  <2>5. Last(so) = <<r[k], SlotsOf(r[k])>>
    BY <2>2 DEF Spelled, Last
  <2>6. r[k] \in Areas /\ r[k] # r[n] /\ r[k] \in Table!Entry
    BY <2>1, <1>1, RunFields
  <2> DEFINE l == Last(so)
  <2>7. l \in Position /\ l[1] = r[k]
    BY <2>5, <2>6, SlotsOfIsPositive, IsPosition
  <2> HIDE DEF l
  <2>8. z.table[l[1]] = v.table[l[1]]
    <3>1. v.table \in [Table!Entry -> Table!Value]
      BY VolumeFields
    <3> QED
      BY <3>1, <2>6, <2>7, <1>2
  <2>9. Ends(z, l) <=> Ends(v, l)
    BY <2>7, <2>8, EndsIs
  <2>10. Longer(z, so) = Longer(v, so)
    <3>1. CASE Ends(v, l)
      BY <3>1, <2>9 DEF Longer, l
    <3>2. CASE ~Ends(v, l)
      <4>1. Len(v.cells[l[1]]) = SlotsOf(l[1]) /\ l[2] = SlotsOf(l[1])
        BY <2>5, <2>6, <2>7, VolumeFields DEF l
      <4>2. l[1] # ROOT /\ v.table[l[1]] # EOF
        BY <3>2, <4>1, <2>7, EndsIs
      <4>3. Area(v.table[l[1]]) \in Areas
        BY <4>2, <2>7, OnwardArea
      <4> QED
        BY <3>2, <4>3, <2>8, <2>9, <1>5 DEF Longer, l
    <3> QED
      BY <3>1, <3>2
  <2> QED
    BY <2>1, <2>3, <2>4, <2>10
<1> HIDE DEF S
<1>8. 0 .. n - 1 \subseteq S
  <2>1. n - 1 \in Nat /\ 0 \in Nat
    BY <1>1
  <2> DEFINE m == n - 1
  <2> HIDE DEF n, m
  <2>2. m \in Nat /\ \A k \in 0 + 1 .. m : k - 1 \in S => k \in S
    BY <2>1, <1>7 DEF m
  <2>3. 0 .. m \subseteq S
    BY <2>1, <2>2, <1>6, UpTo
  <2> QED
    BY <2>3 DEF m
<1> DEFINE t == V(n - 1)
           A == AreaSlots(z, PastEnd)
           B == AreaSlots(z, ROOT)
<1>9. Spelled(r, n, t) /\ Z(n - 1) = t
  <2>1. n - 1 \in S /\ n - 1 < n /\ (n - 1) + 1 = n
    BY <1>1, <1>8
  <2> QED
    BY <2>1 DEF S
<1>10. /\ n \in 1 .. PastEnd /\ n + 1 \in 1 .. PastEnd /\ (n + 1) - 1 = n /\ n + 1 \in Nat
       /\ PastEnd \in Areas /\ ROOT \in Areas /\ PastEnd # ROOT /\ Area(PastEnd) = PastEnd /\ PastEnd # EOF
       /\ Area(FREE) = ROOT /\ FREE # EOF /\ PastEnd \in Table!Entry
  BY <1>1, <1>3, Numbers DEF Area
<1>11. z.table[r[n]] = PastEnd /\ z.table[PastEnd] = FREE
  <2>1. v.table \in [Table!Entry -> Table!Value] /\ r[n] \in Table!Entry
    BY <1>1, <1>2, SegFields, Numbers, VolumeFields
  <2>2. z.table[r[n]] = PastEnd
    BY <2>1, <1>2
  <2> QED
    BY <2>2, FirmVolume DEF Firm
<1>12. Z(n) = t \o A
  <2>1. Last(t) = <<r[n], SlotsOf(r[n])>>
    BY <1>9 DEF Spelled, Last
  <2> HIDE DEF t
  <2> DEFINE l == Last(t)
  <2>2. l \in Position /\ l[1] = r[n]
    BY <2>1, <1>1, SlotsOfIsPositive, IsPosition
  <2> HIDE DEF l
  <2>3. r[n] # ROOT
    BY <1>1, <1>2, SegFields, Numbers
  <2>4. ~Ends(z, l)
    <3>1. z.table[l[1]] = PastEnd /\ PastEnd # EOF /\ l[1] # ROOT
      BY <2>2, <2>3, <1>10, <1>11
    <3> QED
      BY <3>1, <2>2, EndsIs
  <2>5. Longer(z, t) = t \o A
    BY <2>2, <2>4, <1>10, <1>11 DEF Longer, l
  <2> QED
    BY <2>5, <1>4, <1>9, <1>10
<1>13. /\ A \in Walks /\ Len(A) = SlotsOf(PastEnd) /\ Len(A) \in Nat /\ Len(A) >= 2
       /\ \A i \in 1 .. Len(A) : A[i] = <<PastEnd, i>>
  BY <1>10, AreaSlotsTyped, SlotsOfIsPositive
<1>14. /\ B \in Walks /\ Len(B) = SlotsOf(ROOT) /\ Len(B) \in Nat /\ Len(B) >= 2
       /\ \A i \in 1 .. Len(B) : B[i] = <<ROOT, i>>
  BY <1>10, AreaSlotsTyped, SlotsOfIsPositive
<1>15. t \in Seq(Position) /\ A \in Seq(Position) /\ B \in Seq(Position)
  BY <1>9, <1>13, <1>14 DEF Spelled, Walks
<1> HIDE DEF t, A, B
<1>16. Z(n + 1) = (t \o A) \o B
  <2> DEFINE y == t \o A
             l == Last(y)
  <2>1. l = <<PastEnd, SlotsOf(PastEnd)>>
    <3>1. y[Len(y)] = A[Len(A)]
      BY <1>13, <1>15, ConcatLast
    <3> QED
      BY <3>1, <1>13 DEF Last
  <2>2. l \in Position /\ l[1] = PastEnd
    BY <2>1, <1>10, SlotsOfIsPositive, IsPosition
  <2> HIDE DEF l
  <2>3. ~Ends(z, l)
    BY <2>2, <1>10, <1>11, EndsIs
  <2>4. Longer(z, y) = y \o B
    BY <2>2, <2>3, <1>10, <1>11 DEF Longer, l, B
  <2> HIDE DEF y
  <2>5. Z(n) = y
    BY <1>12 DEF y
  <2>6. Z(n + 1) = Longer(z, Z((n + 1) - 1))
    BY <1>4, <1>10
  <2> QED
    BY <2>4, <2>5, <2>6, <1>10 DEF y
<1> DEFINE W == (t \o A) \o B
           T == {k \in Nat : Z(k) = W}
<1>17. \A k \in (n + 1) + 1 .. PastEnd : k - 1 \in T => k \in T
  <2> SUFFICES ASSUME NEW k \in (n + 1) + 1 .. PastEnd, k - 1 \in T
               PROVE  k \in T
    OBVIOUS
  <2>1. k \in Nat /\ k \in 1 .. PastEnd
    BY <1>1
  <2>2. Last(W) = <<ROOT, SlotsOf(ROOT)>>
    <3> DEFINE y == t \o A
    <3>1. y \in Seq(Position)
      BY <1>15
    <3> HIDE DEF y
    <3>2. (y \o B)[Len(y \o B)] = B[Len(B)]
      BY <3>1, <1>14, <1>15, ConcatLast
    <3>3. Last(y \o B) = <<ROOT, SlotsOf(ROOT)>>
      BY <3>2, <1>14 DEF Last
    <3> QED
      BY <3>3 DEF y
  <2> DEFINE l == Last(W)
  <2>3. l \in Position /\ l[1] = ROOT /\ l[2] = SlotsOf(ROOT)
    BY <2>2, <1>10, SlotsOfIsPositive, IsPosition
  <2> HIDE DEF l, W
  <2>4. Ends(z, l)
    BY <2>3, EndsIs
  <2>5. Longer(z, W) = W
    BY <2>4 DEF Longer, l
  <2> QED
    BY <2>1, <2>5, <1>4
<1>18. n + 1 \in T
  BY <1>10, <1>16
<1> HIDE DEF T
<1>19. n + 1 .. PastEnd \subseteq T
  <2> DEFINE m == n + 1
  <2> HIDE DEF n, m
  <2>1. m \in Nat /\ m \in T /\ \A k \in m + 1 .. PastEnd : k - 1 \in T => k \in T
    BY <1>10, <1>17, <1>18 DEF m
  <2>2. m .. PastEnd \subseteq T
    BY <2>1, <1>1, UpTo
  <2> QED
    BY <2>2 DEF m
<1>20. PastEnd \in T
  BY <1>1, <1>3, <1>10, <1>19
<1>21. Slots(z, r[1]) = W
  BY <1>20 DEF Slots, T, Z
<1>22. WalksPast(r, z, Slots(z, r[1]), t)
  BY <1>9, <1>21 DEF WalksPast, A, B
<1> QED
  BY <1>22

------------------------------------------------------------------------
(* A file of a directory that goes on in the entry past the table.         *)

\* The directory has been linked to that entry, and u has not the file's entry yet.
Strayed(v, u, N, R, D, p, e, z) ==
    /\ Typed(v) /\ Intact(v, N, R) /\ D \in Dirs(N)
    /\ Typed(u) /\ u.cwd = v.cwd /\ LinkedPast(v, u, R, D, p)
    /\ Blurred(u, z, p, e) /\ e.name \in Names /\ NoNode(N, D, e)

\* What z has of v.
PastFacts(v, z, r, p, e) ==
    /\ IsRun(v.table, r) /\ r[1] # ROOT /\ LastOf(r) \in Members(r) /\ Members(r) \subseteq Cluster
    /\ z.table = [v.table EXCEPT ![LastOf(r)] = PastEnd]
    /\ z.table[LastOf(r)] = PastEnd
    /\ \A a \in Table!Entry : a # LastOf(r) => z.table[a] = v.table[a]
    /\ Typed(z) /\ z.cwd = v.cwd /\ Spent(z)
    /\ p \in Position /\ (p = <<PastEnd, 1>> \/ p \in Spots(r))
    /\ At(z, p) = e \/ At(z, p).kind = "data"
    /\ e \in EntrySlot /\ ~e.dir /\ e.cluster \notin Cluster
    /\ \A q \in Position : At(z, q).kind = "entry" =>
            (q = p /\ At(z, q) = e) \/ (q # p /\ q[1] # PastEnd /\ At(z, q) = At(v, q))
    /\ \A q \in Position : At(z, q) = EndMark => q # p /\ (At(v, q) = EndMark \/ q[1] = PastEnd)
    /\ \A q \in Spots(r) : At(v, q).kind = "entry" => q # p /\ At(z, q) = At(v, q)

LEMMA StrayedFacts ==
    ASSUME NEW v, NEW u, NEW N, NEW R, NEW D, NEW p, NEW e, NEW z, Strayed(v, u, N, R, D, p, e, z)
    PROVE  PastFacts(v, z, R[D], p, e)
<1> DEFINE r == R[D]
           l == LastOf(R[D])
<1>1. /\ Typed(v) /\ Laid(v, N, R) /\ D \in Dirs(N) /\ Typed(u) /\ u.cwd = v.cwd
      /\ DOMAIN R = N
  BY DEF Strayed, Intact
<1>2. /\ D # Top /\ u.table = [v.table EXCEPT ![l] = PastEnd] /\ Cleared(v, u, PastEnd)
      /\ p = <<PastEnd, 1>> \/ (p[1] = l /\ Open(v, r, p))
  BY DEF Strayed, LinkedPast
<1>3. /\ Typed(z) /\ z.table = u.table /\ z.cwd = u.cwd /\ Spent(z)
      /\ \A q \in Position : q # p => Smudged(u, z, q)
      /\ \/ At(z, p) = e
         \/ At(z, p).kind = "data"
         \/ p[1] = PastEnd /\ p[2] # 1 /\ At(z, p) = EndMark
      /\ e \in EntrySlot /\ ~e.dir /\ e.cluster \notin Cluster /\ p \in Position
  BY DEF Strayed, Blurred
<1>4. /\ Seg(v.table, r) /\ v.table[r[Len(r)]] = EOF /\ r[1] = D.entry.cluster /\ D.entry.cluster \in Cluster
  <2>1. D \in DOMAIN R
    BY <1>1 DEF Dirs
  <2> QED
    BY <2>1, <1>1, <1>2, RunOf
<1>5. IsRun(v.table, r) /\ r[1] # ROOT /\ l \in Members(r) /\ Members(r) \subseteq Cluster
  <2>1. IsRun(v.table, r)
    BY <1>4 DEF IsRun
  <2>2. l \in Members(r) /\ Members(r) \subseteq Cluster
    BY <1>4, SegFields DEF LastOf
  <2>3. ROOT \notin Cluster
    BY Numbers
  <2> QED
    BY <2>1, <2>2, <2>3, <1>4
<1>6. /\ \A a \in Cluster : a \in Table!Entry /\ a # ROOT /\ a # PastEnd /\ a \in Areas
      /\ PastEnd # ROOT /\ PastEnd \in Areas /\ PastEnd \in Table!Entry
  BY Numbers
<1>7. v.table \in [Table!Entry -> Table!Value]
  BY <1>1, VolumeFields
<1> HIDE DEF r, l
<1>8. /\ z.table = [v.table EXCEPT ![l] = PastEnd]
      /\ z.table[l] = PastEnd
      /\ \A a \in Table!Entry : a # l => z.table[a] = v.table[a]
  BY <1>2, <1>3, <1>5, <1>6, <1>7
<1>9. p = <<PastEnd, 1>> \/ (p \in Spots(r) /\ At(v, p) \in {EndMark, Free})
  BY <1>2 DEF Open
<1>10. At(z, p) = e \/ At(z, p).kind = "data"
  BY <1>2, <1>3, <1>5, <1>6
<1>11. /\ \A q \in Position : q[1] # PastEnd => At(u, q) = At(v, q)
       /\ \A q \in Position : q[1] = PastEnd => At(u, q) = EndMark
  <2>1. \A q \in Position : q[1] \in Areas
    BY PositionFields
  <2> QED
    BY <2>1, <1>2 DEF Cleared, At
<1>12. EndMark.kind = "last" /\ Free.kind = "free" /\ e.kind = "entry"
  BY <1>3 DEF EndMark, Free, EntrySlot
<1>13. \A q \in Position : At(z, q).kind = "entry" =>
            (q = p /\ At(z, q) = e) \/ (q # p /\ q[1] # PastEnd /\ At(z, q) = At(v, q))
  <2> SUFFICES ASSUME NEW q \in Position, At(z, q).kind = "entry", q # p
               PROVE  q[1] # PastEnd /\ At(z, q) = At(v, q)
    BY <1>10
  <2>1. At(z, q).kind # "data" /\ At(z, q) # EndMark
    BY <1>12
  <2>2. At(z, q) = At(u, q)
    BY <2>1, <1>3 DEF Smudged
  <2> QED
    BY <2>1, <2>2, <1>11
<1>14. \A q \in Position : At(z, q) = EndMark => q # p /\ (At(v, q) = EndMark \/ q[1] = PastEnd)
  <2> SUFFICES ASSUME NEW q \in Position, At(z, q) = EndMark
               PROVE  q # p /\ (At(v, q) = EndMark \/ q[1] = PastEnd)
    OBVIOUS
  <2>1. q # p /\ At(z, q).kind # "data"
    BY <1>10, <1>12
  <2>2. At(z, q) = At(u, q) \/ q[1] = PastEnd
    BY <2>1, <1>3 DEF Smudged
  <2> QED
    BY <2>1, <2>2, <1>11
<1>15. \A q \in Spots(r) : At(v, q).kind = "entry" => q # p /\ At(z, q) = At(v, q)
  <2> SUFFICES ASSUME NEW q \in Spots(r), At(v, q).kind = "entry"
               PROVE  q # p /\ At(z, q) = At(v, q)
    OBVIOUS
  <2>1. q \in Position /\ q[1] \in Cluster
    BY <1>5, SpotArea
  <2>2. q # p
    BY <2>1, <1>6, <1>9, <1>12
  <2>3. At(z, q) = At(u, q)
    BY <2>1, <2>2, <1>3, <1>6 DEF Smudged
  <2> QED
    BY <2>1, <2>2, <2>3, <1>6, <1>11
<1> QED
  BY <1>1, <1>3, <1>5, <1>8, <1>9, <1>10, <1>13, <1>14, <1>15 DEF PastFacts, r, l

LEMMA ConcatAt ==
    ASSUME NEW S, NEW s \in Seq(S), NEW t \in Seq(S)
    PROVE  \A i \in 1 .. Len(t) : (s \o t)[Len(s) + i] = t[i]
<1> SUFFICES ASSUME NEW i \in 1 .. Len(t)
             PROVE  (s \o t)[Len(s) + i] = t[i]
  OBVIOUS
<1>1. Len(s) \in Nat /\ Len(t) \in Nat
  OBVIOUS
<1>2. Len(s) + i \in 1 .. Len(s) + Len(t) /\ Len(s) + i > Len(s) /\ (Len(s) + i) - Len(s) = i
  BY <1>1
<1> QED
  BY <1>2

\* The walk of that directory.
SlotsPast(z, s, t, r) ==
    /\ Spelled(r, Len(r), t) /\ Len(t) \in Nat
    /\ DOMAIN s = 1 .. Len(s) /\ Len(s) = Len(t) + ClusterSlots + RootSlots
    /\ \A i \in 1 .. Len(t) : s[i] = t[i]
    /\ \A i \in 1 .. ClusterSlots : s[Len(t) + i] = <<PastEnd, i>>
    /\ \A i \in 1 .. RootSlots : s[Len(t) + ClusterSlots + i] = <<ROOT, i>>

LEMMA SlotsPastIs ==
    ASSUME NEW z, Typed(z), NEW r, NEW s, NEW t, WalksPast(r, z, s, t)
    PROVE  SlotsPast(z, s, t, r)
<1> DEFINE A == AreaSlots(z, PastEnd)
           B == AreaSlots(z, ROOT)
<1>1. PastEnd \in Areas /\ ROOT \in Areas /\ SlotsOf(PastEnd) = ClusterSlots /\ SlotsOf(ROOT) = RootSlots
      /\ ClusterSlots \in Nat /\ RootSlots \in Nat
  BY Numbers DEF SlotsOf
<1>2. /\ Len(A) = ClusterSlots /\ \A i \in 1 .. ClusterSlots : A[i] = <<PastEnd, i>>
      /\ Len(B) = RootSlots /\ \A i \in 1 .. RootSlots : B[i] = <<ROOT, i>>
      /\ A \in Seq(Position) /\ B \in Seq(Position)
  <2>1. A \in Walks /\ Len(A) = SlotsOf(PastEnd) /\ \A i \in 1 .. SlotsOf(PastEnd) : A[i] = <<PastEnd, i>>
    BY <1>1, AreaSlotsTyped
  <2>2. B \in Walks /\ Len(B) = SlotsOf(ROOT) /\ \A i \in 1 .. SlotsOf(ROOT) : B[i] = <<ROOT, i>>
    BY <1>1, AreaSlotsTyped
  <2> QED
    BY <2>1, <2>2, <1>1 DEF Walks
<1>3. s = (t \o A) \o B /\ Spelled(r, Len(r), t) /\ t \in Seq(Position) /\ Len(t) \in Nat
  BY DEF WalksPast, Spelled, Walks
<1> HIDE DEF A, B
<1>4. /\ t \o A \in Seq(Position) /\ Len(t \o A) = Len(t) + ClusterSlots
      /\ \A i \in 1 .. Len(t) : (t \o A)[i] = t[i]
      /\ \A i \in 1 .. ClusterSlots : (t \o A)[Len(t) + i] = <<PastEnd, i>>
  <2>1. t \o A \in Seq(Position) /\ Len(t \o A) = Len(t) + Len(A)
    <3>1. t \in Seq(Position) /\ A \in Seq(Position)
      BY <1>2, <1>3
    <3> QED
      BY ONLY <3>1
  <2>2. \A i \in 1 .. Len(t) : (t \o A)[i] = t[i]
    BY <1>1, <1>2, <1>3
  <2>3. \A i \in 1 .. ClusterSlots : (t \o A)[Len(t) + i] = A[i]
    <3>1. \A i \in 1 .. Len(A) : (t \o A)[Len(t) + i] = A[i]
      BY <1>2, <1>3, ConcatAt
    <3> QED
      BY <3>1, <1>2
  <2> QED
    BY <2>1, <2>2, <2>3, <1>2
<1> DEFINE y == t \o A
<1> HIDE DEF y
<1>5. /\ y \o B \in Seq(Position) /\ Len(y \o B) = Len(y) + RootSlots
      /\ \A i \in 1 .. Len(y) : (y \o B)[i] = y[i]
      /\ \A i \in 1 .. RootSlots : (y \o B)[Len(y) + i] = <<ROOT, i>>
  <2>1. y \in Seq(Position)
    BY <1>4 DEF y
  <2>2. y \o B \in Seq(Position) /\ Len(y \o B) = Len(y) + Len(B)
    <3>1. y \in Seq(Position) /\ B \in Seq(Position)
      BY <2>1, <1>2
    <3> QED
      BY ONLY <3>1
  <2>3. \A i \in 1 .. Len(y) : (y \o B)[i] = y[i]
    BY <2>1, <1>1, <1>2
  <2>4. \A i \in 1 .. RootSlots : (y \o B)[Len(y) + i] = B[i]
    <3>1. \A i \in 1 .. Len(B) : (y \o B)[Len(y) + i] = B[i]
      BY <2>1, <1>2, ConcatAt
    <3> QED
      BY <3>1, <1>2
  <2> QED
    BY <2>2, <2>3, <2>4, <1>2
<1>6. s = y \o B /\ Len(y) = Len(t) + ClusterSlots
      /\ (\A i \in 1 .. Len(t) : y[i] = t[i]) /\ \A i \in 1 .. ClusterSlots : y[Len(t) + i] = <<PastEnd, i>>
  BY <1>3, <1>4 DEF y
<1>7. /\ \A i \in 1 .. Len(t) : i \in 1 .. Len(y)
      /\ \A i \in 1 .. ClusterSlots : Len(t) + i \in 1 .. Len(y)
  BY <1>1, <1>3, <1>6
<1>8. DOMAIN s = 1 .. Len(s)
  BY <1>5, <1>6
<1> QED
  BY <1>1, <1>3, <1>5, <1>6, <1>7, <1>8 DEF SlotsPast

\* The runs of other nodes are as they were.
LEMMA StrayedElsewhere ==
    ASSUME NEW v, NEW u, NEW N, NEW R, NEW D, NEW p, NEW e, NEW z, Strayed(v, u, N, R, D, p, e, z),
           NEW n \in N, n # D
    PROVE  /\ LastOf(R[D]) \notin Members(R[n])
           /\ \A c \in Members(R[n]) : z.table[c] = v.table[c]
           /\ IsRun(v.table, R[n]) /\ IsRun(z.table, R[n])
<1> DEFINE r == R[D]
<1>1. PastFacts(v, z, r, p, e)
  BY StrayedFacts
<1>2. Laid(v, N, R) /\ DOMAIN R = N /\ D \in N
  BY DEF Strayed, Intact, Dirs
<1>3. Members(r) \cap Members(R[n]) = {} /\ IsRun(v.table, R[n])
  BY <1>2 DEF Laid, RunsApart
<1> HIDE DEF r
<1>4. LastOf(r) \in Members(r) /\ \A a \in Table!Entry : a # LastOf(r) => z.table[a] = v.table[a]
  BY <1>1 DEF PastFacts
<1>5. \A c \in Members(R[n]) : c \in Table!Entry
  BY <1>3, RunFields DEF Members
<1>6. \A c \in Members(R[n]) : z.table[c] = v.table[c]
  BY <1>3, <1>4, <1>5
<1>7. IsRun(z.table, R[n])
  BY <1>3, <1>6, RunSame
<1> QED
  BY <1>3, <1>4, <1>6, <1>7 DEF r

\* A directory of D is found in z as it is in v.
LEMMA StrayedLookup ==
    ASSUME NEW v, NEW u, NEW N, NEW R, NEW D, NEW p, NEW e, NEW z, Strayed(v, u, N, R, D, p, e, z)
    PROVE  Steady(v, z, D)
<1> DEFINE r == R[D]
           c == D.entry.cluster
           s == Slots(v, c)
           w == Slots(z, c)
<1>1. PastFacts(v, z, r, p, e)
  BY StrayedFacts
<1>2. Typed(v) /\ Laid(v, N, R) /\ D \in Dirs(N)
  BY DEF Strayed, Intact
<1>3. PICK up : Neat(v, D, up, r)
  BY <1>2 DEF Laid, Orderly
<1>4. r[1] = c /\ c \in Table!Entry /\ IsRun(v.table, r)
  <2>1. r[1] = c /\ IsRun(v.table, r)
    BY <1>3 DEF Neat
  <2> QED
    BY <2>1, RunFields
<1> SUFFICES ASSUME NEW n, Lookup(v, c, n, TRUE).found
             PROVE  Lookup(z, c, n, TRUE) = Lookup(v, c, n, TRUE)
  BY DEF Steady
<1> HIDE DEF r, c
<1>5. /\ IsRun(v.table, r) /\ r[1] # ROOT /\ z.table = [v.table EXCEPT ![LastOf(r)] = PastEnd] /\ Typed(z)
      /\ e \in EntrySlot /\ ~e.dir
      /\ \A q \in Position : At(z, q).kind = "entry" =>
            (q = p /\ At(z, q) = e) \/ (q # p /\ q[1] # PastEnd /\ At(z, q) = At(v, q))
      /\ \A q \in Position : At(z, q) = EndMark => q # p /\ (At(v, q) = EndMark \/ q[1] = PastEnd)
      /\ \A q \in Spots(r) : At(v, q).kind = "entry" => q # p /\ At(z, q) = At(v, q)
  BY <1>1 DEF PastFacts
<1>6. PICK t : SlotsPast(z, w, t, r)
  <2>1. PICK t : WalksPast(r, z, Slots(z, r[1]), t)
    BY <1>2, <1>5, WalkPast
  <2>2. SlotsPast(z, Slots(z, r[1]), t, r)
    BY <2>1, <1>5, SlotsPastIs
  <2> QED
    BY <2>2, <1>4
<1>7. w \in Walks /\ s \in Walks
  BY <1>2, <1>4, <1>5, SlotsTyped
<1> HIDE DEF s, w
<1> DEFINE g == Lookup(v, c, n, TRUE)
           J == Hits(v, s, n, TRUE)
           I == Hits(z, w, n, TRUE)
<1>8. g = LookupIn(v, s, n, TRUE) /\ Lookup(z, c, n, TRUE) = LookupIn(z, w, n, TRUE)
  BY DEF Lookup, s, w
<1>9. PICK j \in J : g = [found |-> TRUE, pos |-> s[j], entry |-> At(v, s[j])]
  <2>1. J # {}
    <3>1. CASE J = {}
      <4>1. TRUE \in BOOLEAN
        OBVIOUS
      <4> HIDE DEF g
      <4>2. g = NotFound
        BY <3>1, <4>1, <1>2, <1>7, <1>8, LookupInIs
      <4>3. ~NotFound.found /\ g.found
        BY DEF NotFound, g
      <4> QED
        BY <4>2, <4>3
    <3> QED
      BY <3>1
  <2>2. TRUE \in BOOLEAN
    OBVIOUS
  <2> HIDE DEF g
  <2> QED
    BY <2>1, <2>2, <1>2, <1>7, <1>8, LookupInIs
<1> DEFINE q == s[j]
<1>10. j \in DOMAIN s /\ At(v, q).kind = "entry" /\ At(v, q).name = n /\ At(v, q).dir
  BY DEF Hits, Listed
<1>11. q \in Spots(r) /\ q \in Position
  <2>1. Spelled(r, Len(r), s)
    BY <1>2, <1>4, SlotsOfRun DEF s
  <2>2. j \in 1 .. Len(s)
    BY <1>7, <1>10 DEF Walks
  <2>3. q \in Spots(r)
    BY <2>1, <2>2 DEF Spelled, Spots
  <2> QED
    BY <2>3, SpotArea
<1> HIDE DEF q, g, J
<1>12. q # p /\ At(z, q) = At(v, q)
  BY <1>5, <1>10, <1>11
<1>13. /\ Spelled(r, Len(r), t) /\ Len(t) \in Nat /\ DOMAIN w = 1 .. Len(w)
       /\ Len(w) = Len(t) + ClusterSlots + RootSlots /\ \A i \in 1 .. Len(t) : w[i] = t[i]
  BY <1>6 DEF SlotsPast
<1>14. PICK i \in 1 .. Len(t) : t[i] = q
  BY <1>11, <1>13 DEF Spelled, Spots
<1>15. Len(w) \in Nat /\ Len(w) >= Len(t) /\ i \in DOMAIN w /\ w[i] = q
  BY <1>13, <1>14, Numbers
<1>16. \A m \in 1 .. Len(t) : t[m] \in Spots(r) /\ t[m] \in Position
  <2>1. \A m \in 1 .. Len(t) : t[m] \in Spots(r)
    BY <1>13 DEF Spelled, Spots
  <2> QED
    BY <2>1, SpotArea
<1>17. i \in I
  <2>1. \A m \in Marks(z, w) : i < m
    <3> SUFFICES ASSUME NEW m \in Marks(z, w), ~(i < m)
                 PROVE  FALSE
      OBVIOUS
    <3>1. m \in 1 .. Len(w) /\ At(z, w[m]) = EndMark
      BY <1>13 DEF Marks
    <3>2. m # i
      BY <3>1, <1>10, <1>12, <1>15 DEF EndMark
    <3>3. m \in 1 .. Len(t) /\ m < i
      BY <3>1, <3>2, <1>13, <1>14, <1>15
    <3>4. w[m] = t[m] /\ t[m] \in Spots(r) /\ t[m] \in Position /\ t[m][1] # PastEnd
      <4>1. t[m] \in Spots(r) /\ t[m] \in Position /\ w[m] = t[m]
        BY <3>3, <1>13, <1>16
      <4>2. t[m][1] \in Members(r) /\ Members(r) \subseteq Cluster /\ PastEnd \notin Cluster
        <5>1. PastEnd \notin Cluster
          BY Numbers
        <5>2. Members(r) \subseteq Cluster
          BY <1>1 DEF PastFacts
        <5> QED
          BY <5>1, <5>2, <4>1, SpotArea
      <4> QED
        BY <4>1, <4>2
    <3>5. At(v, t[m]) = EndMark
      BY <3>1, <3>4, <1>5
    <3>6. Before(r, t[m], q)
      BY <3>3, <1>13, <1>14 DEF Spelled
    <3>7. At(v, q) = EndMark
      BY <3>4, <3>5, <3>6, <1>3, <1>11 DEF Neat
    <3> QED
      BY <3>7, <1>10 DEF EndMark
  <2>2. i \in Listed(z, w)
    BY <2>1, <1>10, <1>12, <1>15 DEF Listed
  <2> QED
    BY <2>2, <1>10, <1>12, <1>15 DEF Hits
<1>18. PICK k \in I : /\ \A m \in I : k <= m
                      /\ LookupIn(z, w, n, TRUE) = [found |-> TRUE, pos |-> w[k], entry |-> At(z, w[k])]
  <2>1. TRUE \in BOOLEAN /\ I # {}
    BY <1>17
  <2> QED
    BY <2>1, <1>5, <1>7, LookupInIs
<1>19. k \in 1 .. Len(w) /\ At(z, w[k]).kind = "entry" /\ At(z, w[k]).name = n /\ At(z, w[k]).dir
  BY <1>13 DEF Hits, Listed
<1> HIDE DEF I
<1>20. k \in 1 .. Len(t) /\ w[k] = t[k]
  <2>1. k <= i
    BY <1>17, <1>18
  <2> QED
    BY <2>1, <1>13, <1>14, <1>15, <1>19
<1>21. t[k] \in Spots(r) /\ t[k] \in Position
  BY <1>16, <1>20
<1>22. At(z, t[k]) = At(v, t[k])
  BY <1>5, <1>19, <1>20, <1>21
<1>23. t[k] = q
  <2>1. t[k] \in EntrySpots(v, r) /\ q \in EntrySpots(v, r)
    BY <1>10, <1>11, <1>19, <1>20, <1>21, <1>22 DEF EntrySpots
  <2> QED
    BY <2>1, <1>2, <1>10, <1>19, <1>20, <1>22, OneOfName DEF r
<1>24. LookupIn(z, w, n, TRUE) = g
  BY <1>9, <1>12, <1>18, <1>20, <1>23 DEF q
<1> QED
  BY <1>8, <1>24 DEF g

LEMMA StrayedSteady ==
    ASSUME NEW v, NEW u, NEW N, NEW R, NEW D, NEW p, NEW e, NEW z, Strayed(v, u, N, R, D, p, e, z)
    PROVE  \A d \in Dirs(N) : Steady(v, z, d)
<1> TAKE d \in Dirs(N)
<1>1. CASE d = D
  BY <1>1, StrayedLookup
<1>2. CASE d # D
  <2>1. d \in N
    BY DEF Dirs
  <2>2. \A c \in Members(R[d]) : z.table[c] = v.table[c]
    BY <2>1, <1>2, StrayedElsewhere
  <2>3. PastFacts(v, z, R[D], p, e) /\ Typed(v) /\ Laid(v, N, R)
    BY StrayedFacts DEF Strayed, Intact
  <2>4. Typed(z) /\ ~e.dir /\ \A q \in Position : At(z, q).kind = "entry" =>
            (q = p /\ At(z, q) = e) \/ (q # p /\ q[1] # PastEnd /\ At(z, q) = At(v, q))
    BY <2>3 DEF PastFacts
  <2>5. \A q \in Spots(R[d]) : At(z, q).kind = "entry" /\ At(z, q).dir => At(z, q) = At(v, q)
    BY <2>4, SpotArea
  <2> QED
    BY <2>2, <2>3, <2>4, <2>5, DirShrinks
<1> QED
  BY <1>1, <1>2

\* What is found under the file's name is the file, or an entry of the root
\* directory behind it.
FoundPast(v, z, N, D, p, e, f) ==
    \/ f.entry = e /\ f.pos = p
    \/ \E n \in N : /\ n # Top /\ f.entry = n.entry /\ f.pos = n.pos
                    /\ n = D => /\ p \in Entries(z, D.entry.cluster) /\ ~IsDot(At(z, p))

LEMMA StrayedFound ==
    ASSUME NEW v, NEW u, NEW N, NEW R, NEW D, NEW p, NEW e, NEW z, Strayed(v, u, N, R, D, p, e, z),
           NEW f, NEW i, FoundIn(z, D.entry.cluster, e.name, f, i)
    PROVE  FoundPast(v, z, N, D, p, e, f)
<1> DEFINE r == R[D]
           c == D.entry.cluster
           w == Slots(z, c)
           q == w[i]
<1>1. PastFacts(v, z, r, p, e)
  BY StrayedFacts
<1>2. Typed(v) /\ Laid(v, N, R) /\ D \in Dirs(N) /\ NoNode(N, D, e) /\ e.name \in Names /\ DOMAIN R = N
  BY DEF Strayed, Intact
<1>3. r[1] = c
  BY <1>2, RunOfDir
<1>4. /\ i \in Listed(z, w) /\ q \in Position
      /\ At(z, q).kind = "entry" /\ At(z, q).name = e.name
      /\ f.entry = At(z, q) /\ f.pos = q
  BY DEF FoundIn
<1> HIDE DEF r, c
<1>5. /\ IsRun(v.table, r) /\ r[1] # ROOT /\ z.table = [v.table EXCEPT ![LastOf(r)] = PastEnd] /\ Typed(z)
      /\ e \in EntrySlot /\ p \in Position /\ (p = <<PastEnd, 1>> \/ p \in Spots(r))
      /\ At(z, p) = e \/ At(z, p).kind = "data"
      /\ \A x \in Position : At(z, x).kind = "entry" =>
            (x = p /\ At(z, x) = e) \/ (x # p /\ x[1] # PastEnd /\ At(z, x) = At(v, x))
  BY <1>1 DEF PastFacts
<1>6. PICK t : SlotsPast(z, w, t, r)
  <2>1. PICK t : WalksPast(r, z, Slots(z, r[1]), t)
    BY <1>2, <1>5, WalkPast
  <2>2. SlotsPast(z, Slots(z, r[1]), t, r)
    BY <2>1, <1>5, SlotsPastIs
  <2> QED
    BY <2>2, <1>3
<1> HIDE DEF w, q
<1>7. /\ Spelled(r, Len(r), t) /\ Len(t) \in Nat
      /\ DOMAIN w = 1 .. Len(w) /\ Len(w) = Len(t) + ClusterSlots + RootSlots
      /\ \A j \in 1 .. Len(t) : w[j] = t[j]
      /\ \A j \in 1 .. ClusterSlots : w[Len(t) + j] = <<PastEnd, j>>
      /\ \A j \in 1 .. RootSlots : w[Len(t) + ClusterSlots + j] = <<ROOT, j>>
  BY <1>6 DEF SlotsPast
<1>8. i \in 1 .. Len(w) /\ \A m \in Marks(z, w) : i < m
  BY <1>4, <1>7 DEF Listed
<1>9. ClusterSlots \in Nat /\ RootSlots \in Nat /\ ClusterSlots >= 2 /\ PastEnd # ROOT /\ ROOT # PastEnd
  BY Numbers
<1>10. ~IsDot(e) /\ e.kind = "entry"
  BY <1>2, <1>5, NamesAreNotDots DEF EntrySlot
<1>11. CASE q = p
  BY <1>4, <1>5, <1>10, <1>11 DEF FoundPast
<1>12. CASE q # p /\ i \in 1 .. Len(t)
  <2>1. q \in Spots(r)
    BY <1>7, <1>12 DEF Spelled, Spots, q
  <2>2. At(v, q) = At(z, q)
    BY <1>4, <1>5, <1>12
  <2>3. At(v, q).name # e.name
    BY <2>1, <2>2, <1>2, <1>4, OnlyTheFile DEF r
  <2> QED
    BY <2>2, <2>3, <1>4
<1>13. CASE q # p /\ i \in Len(t) + 1 .. Len(t) + ClusterSlots
  <2>1. i - Len(t) \in 1 .. ClusterSlots /\ Len(t) + (i - Len(t)) = i
    BY <1>7, <1>9, <1>13
  <2>2. q = <<PastEnd, i - Len(t)>>
    BY <2>1, <1>7 DEF q
  <2> QED
    BY <2>2, <1>4, <1>5, <1>13
<1>14. CASE q # p /\ i \in Len(t) + ClusterSlots + 1 .. Len(w)
  <2> DEFINE k == i - (Len(t) + ClusterSlots)
             n == NodeAt(v, Top, q)
  <2>1. k \in 1 .. RootSlots /\ Len(t) + ClusterSlots + k = i
    BY <1>7, <1>9, <1>14
  <2>2. q = <<ROOT, k>>
    <3> HIDE DEF k
    <3> QED BY <2>1, <1>7 DEF q
  <2>3. At(v, q) = At(z, q)
    BY <1>4, <1>5, <1>14
  <2>4. Top \in Dirs(N) /\ R[Top] = <<ROOT>>
    BY <1>2, RunOfTop, PathFacts DEF Laid
  <2>5. q \in Spots(<<ROOT>>)
    <3>1. Len(<<ROOT>>) = 1 /\ <<ROOT>>[1] = ROOT /\ q[1] = ROOT
      BY <2>2
    <3> QED
      BY <3>1, <1>4 DEF Spots, SpotsTo
  <2>6. ~IsDot(At(v, q))
    BY <2>3, <1>2, <1>4, NamesAreNotDots
  <2>7. q \in NamedSpots(v, R[Top])
    BY <2>3, <2>4, <2>5, <2>6, <1>4 DEF NamedSpots, EntrySpots
  <2>8. n \in N
    BY <2>4, <2>7, <1>2 DEF Laid, Orderly
  <2>9. n # Top
    <3>1. LiesIn(v, R, n, Top)
      BY <2>7 DEF LiesIn, NodeAt
    <3>2. ChildOf(v, R, n, Top)
      BY <3>1, <2>4, <2>8, <1>2, LiesInFacts DEF Laid, Dirs
    <3> QED
      BY <3>2 DEF ChildOf
  <2>10. f.entry = n.entry /\ f.pos = n.pos
    BY <2>3, <1>4 DEF NodeAt
  <2>11. p \in Entries(z, c)
    <3>1. PICK j \in 1 .. Len(t) + 1 : w[j] = p
      <4>1. CASE p = <<PastEnd, 1>>
        <5>1. 1 \in 1 .. ClusterSlots /\ Len(t) + 1 \in 1 .. Len(t) + 1
          BY <1>7, <1>9
        <5> QED
          BY <5>1, <4>1, <1>7
      <4>2. CASE p \in Spots(r)
        <5>1. PICK j \in 1 .. Len(t) : t[j] = p
          BY <4>2, <1>7 DEF Spelled, Spots
        <5>2. j \in 1 .. Len(t) + 1 /\ w[j] = p
          BY <5>1, <1>7
        <5> QED
          BY <5>2
      <4> QED
        BY <4>1, <4>2, <1>5
    <3>2. j \in 1 .. Len(w) /\ j < i
      BY <3>1, <1>7, <1>8, <1>9, <1>14
    <3>3. \A m \in Marks(z, w) : j < m
      <4>1. Marks(z, w) \subseteq 1 .. Len(w)
        BY <1>7 DEF Marks
      <4> QED
        BY <4>1, <3>2, <1>7, <1>8, <1>9
    <3>4. j \in Listed(z, w)
      BY <3>1, <3>2, <3>3, <1>5, <1>7, <1>10 DEF Listed
    <3> QED
      BY <3>1, <3>4 DEF Entries, EntriesOf, w
  <2>12. ~IsDot(At(z, p))
    BY <1>5, <1>10 DEF IsDot
  <2> HIDE DEF n
  <2> QED
    BY <2>8, <2>9, <2>10, <2>11, <2>12 DEF FoundPast, c
<1> QED
  BY <1>7, <1>8, <1>9, <1>11, <1>12, <1>13, <1>14

\* Such a file is deleted again, and the volume is still full or linked past the table.
LEMMA StrayedDeleted ==
    ASSUME NEW v, NEW u, NEW N, NEW R, NEW D, NEW p, NEW e, NEW z, Strayed(v, u, N, R, D, p, e, z),
           NEW path, LeadsInto(v, N, D, path, e)
    PROVE  FoundFull(DeleteFile(z, path).vol)
<1> DEFINE f == EntryFromPath(z, path)
           w == DeleteFile(z, path).vol
           l == LastOf(R[D])
<1>1. PastFacts(v, z, R[D], p, e)
  BY StrayedFacts
<1>2. Typed(v) /\ Intact(v, N, R) /\ Laid(v, N, R) /\ D \in Dirs(N) /\ Stands(v, N) /\ DOMAIN R = N
  BY DEF Strayed, Intact
<1>3. /\ Typed(z) /\ z.cwd = v.cwd /\ Spent(z) /\ z.table[l] = PastEnd /\ l \in Cluster /\ e.cluster \notin Cluster
  BY <1>1 DEF PastFacts
<1>4. path \in NewPaths /\ path \in Paths /\ Leaf(path) = e.name
      /\ D.path = TrailOf(v, N, path)[Len(path.names) - 1]
  BY <1>2, ParentTyped DEF LeadsInto
<1>5. LooksFor(z, D, path)
  <2>1. \A d \in Dirs(N) : Steady(v, z, d)
    BY StrayedSteady
  <2> QED
    BY <2>1, <1>2, <1>3, <1>4, LeafShrinks
<1>6. f.found => f = Lookup(z, D.entry.cluster, e.name, FALSE)
  BY <1>4, <1>5 DEF LooksFor
<1>7. D.entry.cluster \in Table!Entry
  BY <1>2, RunOfDir, RunFields
<1>8. f \in Found
  BY <1>3, <1>4, EntryFromPathTyped
<1>9. w = z \/ (f.found /\ MayDelete(z, f.entry) /\ w = Put(Freed(z, f.entry.cluster), f.pos, Free))
  BY DEF DeleteFile, DeleteFound, Answer, DeleteEntry
<1>10. CASE w = z
  BY <1>3, <1>10, SpentIsFull
<1>11. CASE f.found /\ MayDelete(z, f.entry) /\ w = Put(Freed(z, f.entry.cluster), f.pos, Free)
  <2>1. PICK i : FoundIn(z, D.entry.cluster, e.name, f, i)
    <3> HIDE DEF f
    <3>1. Lookup(z, D.entry.cluster, e.name, FALSE).found
      BY <1>6, <1>11
    <3> QED
      BY <3>1, <1>3, <1>6, <1>7, <1>11, LookupFinds
  <2> HIDE DEF f, w
  <2>2. FoundPast(v, z, N, D, p, e, f)
    BY <2>1, StrayedFound
  <2>3. f.pos \in Position /\ f.entry.cluster \in Table!Entry
    BY <1>8 DEF Found, EntrySlot
  <2>4. CASE f.entry = e
    <3>1. Spent(DeleteFile(z, path).vol)
      <4>1. EntryFromPath(z, path).entry.cluster \notin Cluster
        BY <2>4, <1>3 DEF f
      <4> QED
        BY <4>1, <1>3, <1>4, NothingFreed
    <3> QED
      BY <3>1, SpentIsFull
  <2>5. CASE \E n \in N : /\ n # Top /\ f.entry = n.entry /\ f.pos = n.pos
                          /\ n = D => /\ p \in Entries(z, D.entry.cluster) /\ ~IsDot(At(z, p))
    <3>1. PICK n \in N : /\ n # Top /\ f.entry = n.entry /\ f.pos = n.pos
                         /\ n = D => /\ p \in Entries(z, D.entry.cluster) /\ ~IsDot(At(z, p))
      BY <2>5
    <3>2. CASE n = D
      <4>1. D.entry.dir
        BY <1>2 DEF Dirs
      <4> QED
        BY <3>1, <3>2, <4>1, <1>11 DEF MayDelete
    <3>3. CASE n # D
      <4> DEFINE c == n.entry.cluster
      <4>1. l \notin Members(R[n]) /\ \A a \in Members(R[n]) : z.table[a] = v.table[a]
        BY <3>3, StrayedElsewhere
      <4>2. Seg(v.table, R[n]) /\ R[n][1] = c /\ v.table[R[n][Len(R[n])]] = EOF
        BY <3>1, <1>2, RunOf
      <4>3. Seg(z.table, R[n])
        <5>1. R[n][Len(R[n])] \in Members(R[n])
          BY <4>2, SegFields
        <5>2. z.table[R[n][Len(R[n])]] \notin Cluster
          BY <5>1, <4>1, <4>2 DEF Seg
        <5> QED
          BY <5>2, <4>1, <4>2, SegKept DEF LastOf
      <4>4. Clusters(z, c) = Members(R[n])
        BY <4>2, <4>3, SegChain DEF Clusters
      <4> HIDE DEF c
      <4> DEFINE x == Freed(z, c)
      <4>5. c = f.entry.cluster /\ c \in Table!Entry
        BY <3>1, <2>3 DEF c
      <4>6. FreedIn(z, x, Clusters(z, c))
        BY <4>5, <1>3, FreedIs
      <4> HIDE DEF x, l
      <4>7. Typed(x) /\ x.table[l] = PastEnd
        <5>1. l \in Table!Entry
          BY <1>3, Numbers
        <5> QED
          BY <5>1, <4>1, <4>4, <4>6, <1>3 DEF FreedIn
      <4>8. SlotPut(x, w, f.pos, Free)
        BY <4>5, <4>7, <2>3, <1>11, PutIs, MarksAreSlots DEF x
      <4>9. w.table[l] = PastEnd
        BY <4>7, <4>8 DEF SlotPut
      <4>10. FoundFull(w)
        BY <4>9, <1>3 DEF FoundFull
      <4> QED
        BY <4>10 DEF w
    <3> QED
      BY <3>2, <3>3
  <2> QED
    BY <2>2, <2>4, <2>5 DEF FoundPast
<1> QED
  BY <1>9, <1>10, <1>11

\* The directory that is linked out is none either when something else is deleted.
LEMMA LinkedOutStays ==
    ASSUME NEW v, Typed(v), NEW N, NEW R, Laid(v, N, R), DOMAIN R = N, NEW D \in Dirs(N), D # Top,
           NEW p, NEW z, Typed(z), LinkedOut(v, R, D, p, z),
           NEW n \in N, n # D, n # Top, MayDelete(z, n.entry)
    PROVE  ~Unharmed(Put(Freed(z, n.entry.cluster), n.pos, Free))
<1> DEFINE r == R[D]
           l == LastOf(r)
           c == n.entry.cluster
           G == Members(R[n])
           x == Freed(z, c)
           w == Put(x, n.pos, Free)
           t == Freed(v, c)
           v2 == Put(t, n.pos, Free)
           S == Without(R, n)
<1> SUFFICES ~Unharmed(w)
  OBVIOUS
<1>1. D \in DOMAIN R /\ IsRun(v.table, r) /\ Members(r) \subseteq Held(R)
  BY RunOfDir
<1>2. l \in Members(r) /\ Members(r) \cap G = {}
  <2>1. l \in Members(r)
    BY <1>1, RunFields DEF LastOf, Members
  <2> QED
    BY <2>1, <1>1 DEF Laid, RunsApart
<1>3. Seg(v.table, R[n]) /\ v.table[LastOf(R[n])] = EOF /\ R[n][1] = c /\ c \in Cluster
      /\ Clusters(v, c) = G /\ G \subseteq Held(R) /\ LastOf(R[n]) \in G
  <2>1. Seg(v.table, R[n]) /\ v.table[LastOf(R[n])] = EOF /\ R[n][1] = c /\ c \in Cluster /\ Clusters(v, c) = G
    BY RunOf DEF LastOf
  <2>2. LastOf(R[n]) \in G
    BY <2>1, SegFields DEF LastOf
  <2> QED
    BY <2>1, <2>2, HeldAre
<1> HIDE DEF r, l, c
<1>4. \A a \in Held(R) : a \in Table!Entry /\ a # PastEnd
  BY HeldIsUsed
<1>5. c \in Table!Entry /\ EOF \notin Cluster
  BY <1>3, Numbers
<1>6. /\ z.table = [v.table EXCEPT ![l] = PastEnd] /\ v.table \in [Table!Entry -> Table!Value]
      /\ (p[1] = PastEnd \/ p[1] = l)
      /\ \A q \in Position : q[1] \in Held(R) /\ q # p => At(z, q) = At(v, q)
  BY VolumeFields DEF LinkedOut, l, r
<1>7. l \in Table!Entry /\ l \notin G /\ z.table[l] = PastEnd
      /\ \A a \in Table!Entry : a # l => z.table[a] = v.table[a]
  BY <1>1, <1>2, <1>4, <1>6
<1>8. \A a \in G : z.table[a] = v.table[a]
  BY <1>3, <1>4, <1>7
<1>9. Clusters(z, c) = G
  <2>1. Seg(z.table, R[n])
    BY <1>3, <1>5, <1>8, SegKept
  <2> QED
    BY <2>1, <1>3, SegChain DEF Clusters
<1> HIDE DEF G
<1>10. \A q \in Spots(R[n]) : At(z, q) = At(v, q)
  <2>1. \A q \in Spots(R[n]) : q \in Position /\ q[1] \in G
    BY SpotArea DEF G
  <2>2. \A q \in Spots(R[n]) : q[1] \in Held(R) /\ q # p
    BY <2>1, <1>3, <1>4, <1>6, <1>7
  <2> QED
    BY <2>1, <2>2, <1>6
<1>11. n.entry.dir => NamedSpots(v, R[n]) = {}
  <2> SUFFICES ASSUME n.entry.dir
               PROVE  NamedSpots(v, R[n]) = {}
    OBVIOUS
  <2>1. n \in Dirs(N)
    BY DEF Dirs
  <2>2. PICK u \in N : Neat(v, n, u.entry.cluster, R[n])
    BY <2>1 DEF Laid, Orderly
  <2>3. Neat(z, n, u.entry.cluster, R[n]) /\ NamedSpots(z, R[n]) = NamedSpots(v, R[n])
    BY <2>2, <1>8, <1>10, NeatSame DEF G
  <2>4. Entries(z, n.entry.cluster) = EntrySpots(z, R[n])
    BY <2>3, NeatListing
  <2>5. NamedSpots(z, R[n]) = {}
    BY <2>4 DEF MayDelete, NamedSpots
  <2> QED
    BY <2>3, <2>5
<1>12. n.pos \in Position
  <2>1. PICK E \in Dirs(N) : LiesIn(v, R, n, E)
    BY DEF Laid
  <2>2. E \in N /\ PathsApart(N)
    BY <2>1 DEF Dirs, Laid
  <2> QED
    BY <2>1, <2>2, LiesInFacts DEF ChildOf
<1>13. Removed(v, N, R, v2, n)
  <2>1. Own(v, R, n)
    BY RunIsOwn
  <2>2. Removed(v, N, R, Put(Freed(v, n.entry.cluster), n.pos, Free), n)
    BY <2>1, <1>11, EntryRemoved
  <2> QED
    BY <2>2 DEF c
<1>14. FreedIn(v, t, G)
  BY <1>3, <1>5, FreedIs
<1>15. FreedIn(z, x, G)
  BY <1>5, <1>9, FreedIs
<1>16. SlotPut(t, v2, n.pos, Free)
  BY <1>12, <1>14, PutIs, MarksAreSlots DEF FreedIn
<1>17. SlotPut(x, w, n.pos, Free)
  BY <1>12, <1>15, PutIs, MarksAreSlots DEF FreedIn
<1> HIDE DEF x, w, t, v2
<1>18. Typed(v2) /\ Laid(v2, N \ {n}, S)
  BY <1>13 DEF Removed
<1>19. Typed(w)
  BY <1>17 DEF SlotPut
<1>20. D \in Dirs(N \ {n}) /\ S[D] = r
  BY <1>1 DEF Dirs, Without, r
<1>21. LinkedOut(v2, S, D, p, w)
  <2>1. \A a \in Table!Entry : v2.table[a] = IF a \in G THEN FREE ELSE v.table[a]
    BY <1>14, <1>16 DEF FreedIn, SlotPut
  <2>2. \A a \in Table!Entry : w.table[a] = IF a \in G THEN FREE ELSE z.table[a]
    BY <1>15, <1>17 DEF FreedIn, SlotPut
  <2>3. v2.table \in [Table!Entry -> Table!Value] /\ w.table \in [Table!Entry -> Table!Value]
    BY <1>18, <1>19, VolumeFields
  <2>4. w.table = [v2.table EXCEPT ![l] = PastEnd]
    <3> DEFINE f == [v2.table EXCEPT ![l] = PastEnd]
    <3>1. DOMAIN f = Table!Entry /\ DOMAIN w.table = Table!Entry
      BY <2>3
    <3>2. \A a \in Table!Entry : w.table[a] = f[a]
      BY <2>1, <2>2, <2>3, <1>7
    <3>3. f = [a \in Table!Entry |-> f[a]] /\ w.table = [a \in Table!Entry |-> w.table[a]]
      BY <2>3
    <3> HIDE DEF f
    <3>4. w.table = f
      BY <3>1, <3>2, <3>3
    <3> QED
      BY <3>4 DEF f
  <2>5. Held(S) \subseteq Held(R)
    BY DEF Held, Without
  <2>6. \A q \in Position : q[1] \in Held(S) /\ q # p => At(w, q) = At(v2, q)
    <3> SUFFICES ASSUME NEW q \in Position, q[1] \in Held(R), q # p
                 PROVE  At(w, q) = At(v2, q)
      BY <2>5
    <3>1. At(z, q) = At(v, q)
      BY <1>6
    <3>2. At(x, q) = At(z, q) /\ At(t, q) = At(v, q)
      BY <1>14, <1>15 DEF FreedIn, At
    <3>3. CASE q = n.pos
      BY <3>3, <1>16, <1>17 DEF SlotPut
    <3>4. CASE q # n.pos
      BY <3>1, <3>2, <3>4, <1>16, <1>17 DEF SlotPut
    <3> QED
      BY <3>3, <3>4
  <2> HIDE DEF S
  <2> QED
    BY <2>4, <2>6, <1>6, <1>20 DEF LinkedOut, l
<1> HIDE DEF S
<1> QED
  BY <1>18, <1>19, <1>20, <1>21, LinkedOutBreaks

\* What z is to v when the file had the number past the table.
LEMMA StrayedOut ==
    ASSUME NEW v, NEW u, NEW N, NEW R, NEW D, NEW p, NEW e, NEW z, Strayed(v, u, N, R, D, p, e, z),
           ClosedAt(u, z, p, e, PastEnd)
    PROVE  LinkedOut(v, R, D, p, z) /\ D # Top
<1>1. /\ Typed(v) /\ Laid(v, N, R) /\ D # Top /\ z.table = u.table /\ Cleared(v, u, PastEnd)
      /\ u.table = [v.table EXCEPT ![LastOf(R[D])] = PastEnd]
      /\ p = <<PastEnd, 1>> \/ (p[1] = LastOf(R[D]) /\ Open(v, R[D], p))
  BY DEF Strayed, Intact, LinkedPast, Blurred
<1>2. \A q \in Position : q # p /\ q[1] # PastEnd => At(z, q) = At(u, q)
  BY DEF ClosedAt
<1>3. \A q \in Position : q[1] # PastEnd => At(u, q) = At(v, q)
  <2>1. \A q \in Position : q[1] \in Areas
    BY PositionFields
  <2> QED
    BY <2>1, <1>1 DEF Cleared, At
<1>4. \A a \in Held(R) : a # PastEnd
  BY <1>1, HeldIsUsed
<1>5. p[1] \in {PastEnd, LastOf(R[D])}
  BY <1>1
<1> QED
  BY <1>1, <1>2, <1>3, <1>4, <1>5 DEF LinkedOut

\* The file is deleted again, and the directory is still linked out.
LEMMA StrayedBreaks ==
    ASSUME NEW v, NEW u, NEW N, NEW R, NEW D, NEW p, NEW e, NEW z, Strayed(v, u, N, R, D, p, e, z),
           ClosedAt(u, z, p, e, PastEnd),
           NEW path, LeadsInto(v, N, D, path, e)
    PROVE  ~Unharmed(DeleteFile(z, path).vol)
<1> DEFINE f == EntryFromPath(z, path)
           w == DeleteFile(z, path).vol
<1>1. PastFacts(v, z, R[D], p, e)
  BY StrayedFacts
<1>2. Typed(v) /\ Intact(v, N, R) /\ Laid(v, N, R) /\ D \in Dirs(N) /\ Stands(v, N) /\ DOMAIN R = N
  BY DEF Strayed, Intact
<1>3. Typed(z) /\ z.cwd = v.cwd /\ e.cluster \notin Cluster /\ p \in Position
  BY <1>1 DEF PastFacts
<1>4. path \in NewPaths /\ path \in Paths /\ Leaf(path) = e.name
      /\ D.path = TrailOf(v, N, path)[Len(path.names) - 1]
  BY <1>2, ParentTyped DEF LeadsInto
<1>5. LooksFor(z, D, path)
  <2>1. \A d \in Dirs(N) : Steady(v, z, d)
    BY StrayedSteady
  <2> QED
    BY <2>1, <1>2, <1>3, <1>4, LeafShrinks
<1>6. f.found => f = Lookup(z, D.entry.cluster, e.name, FALSE)
  BY <1>4, <1>5 DEF LooksFor
<1>7. D.entry.cluster \in Table!Entry
  BY <1>2, RunOfDir, RunFields
<1>8. LinkedOut(v, R, D, p, z) /\ D # Top
  BY StrayedOut
<1>9. w = z \/ (f.found /\ MayDelete(z, f.entry) /\ w = Put(Freed(z, f.entry.cluster), f.pos, Free))
  BY DEF DeleteFile, DeleteFound, Answer, DeleteEntry
<1>10. CASE w = z
  <2>1. ~Unharmed(z)
    BY <1>2, <1>3, <1>8, LinkedOutBreaks
  <2> QED
    BY <2>1, <1>10
<1>11. CASE f.found /\ MayDelete(z, f.entry) /\ w = Put(Freed(z, f.entry.cluster), f.pos, Free)
  <2>1. PICK i : FoundIn(z, D.entry.cluster, e.name, f, i)
    <3> HIDE DEF f
    <3>1. Lookup(z, D.entry.cluster, e.name, FALSE).found
      BY <1>6, <1>11
    <3> QED
      BY <3>1, <1>3, <1>6, <1>7, <1>11, LookupFinds
  <2>2. f.entry.cluster \in Table!Entry
    <3>1. f \in Found
      BY <1>3, <1>4, EntryFromPathTyped
    <3> QED
      BY <3>1 DEF Found, EntrySlot
  <2> SUFFICES ~Unharmed(w)
    OBVIOUS
  <2> HIDE DEF f, w
  <2>3. FoundPast(v, z, N, D, p, e, f)
    BY <2>1, StrayedFound
  <2>4. CASE f.entry = e /\ f.pos = p
    <3>1. Freed(z, f.entry.cluster) = z
      BY <2>2, <2>4, <1>3, FreedIs
    <3>2. w = Put(z, p, Free)
      BY <3>1, <2>4, <1>11
    <3>3. SlotPut(z, w, p, Free)
      BY <3>2, <1>3, PutIs, MarksAreSlots
    <3>4. LinkedOut(v, R, D, p, w) /\ Typed(w)
      BY <3>3, <1>8 DEF SlotPut, LinkedOut
    <3> QED
      BY <3>4, <1>2, <1>8, LinkedOutBreaks
  <2>5. CASE \E n \in N : /\ n # Top /\ f.entry = n.entry /\ f.pos = n.pos
                          /\ n = D => /\ p \in Entries(z, D.entry.cluster) /\ ~IsDot(At(z, p))
    <3>1. PICK n \in N : /\ n # Top /\ f.entry = n.entry /\ f.pos = n.pos
                         /\ n = D => /\ p \in Entries(z, D.entry.cluster) /\ ~IsDot(At(z, p))
      BY <2>5
    <3>2. CASE n = D
      <4>1. D.entry.dir
        BY <1>2 DEF Dirs
      <4> QED
        BY <3>1, <3>2, <4>1, <1>11 DEF MayDelete
    <3>3. CASE n # D
      <4>1. MayDelete(z, n.entry) /\ w = Put(Freed(z, n.entry.cluster), n.pos, Free)
        BY <3>1, <1>11
      <4>2. ~Unharmed(Put(Freed(z, n.entry.cluster), n.pos, Free))
        BY <3>1, <3>3, <4>1, <1>2, <1>3, <1>8, LinkedOutStays
      <4> QED
        BY <4>1, <4>2
    <3> QED
      BY <3>2, <3>3
  <2> QED
    BY <2>3, <2>4, <2>5 DEF FoundPast
<1> QED
  BY <1>9, <1>10, <1>11

\* What is written over the root directory is not deleted.
LEMMA RootDataStays ==
    ASSUME NEW z, Typed(z), At(z, <<ROOT, 1>>).kind = "data", NEW path \in NewPaths
    PROVE  At(DeleteFile(z, path).vol, <<ROOT, 1>>).kind = "data"
<1> DEFINE f == EntryFromPath(z, path)
           w == DeleteFile(z, path).vol
           L == Len(path.names)
           g == Trail(z, path)[L - 1]
           more == L < L
<1>1. path \in Paths /\ L >= 1 /\ ~IsRoot(z, path) /\ L \in Nat /\ L \in 0 .. L /\ L - 1 \in 0 .. L /\ L \in 1 .. L
  <2>1. path \in Paths /\ L >= 1 /\ L \in Nat
    BY ParentTyped, PathFields
  <2>2. ~IsRoot(z, path)
    BY NewIsNotRoot
  <2> HIDE DEF L
  <2> QED
    BY <2>1, <2>2
<1>2. f = Below(z, g, path.names[L], more) /\ g \in Found
  BY <1>1, TrailIs DEF EntryFromPath, Resolve
<1>3. f \in Found /\ more \in BOOLEAN
  BY <1>1, EntryFromPathTyped
<1>4. w = z \/ (f.found /\ w = Put(Freed(z, f.entry.cluster), f.pos, Free))
  BY DEF DeleteFile, DeleteFound, Answer, DeleteEntry
<1> SUFFICES At(w, <<ROOT, 1>>).kind = "data"
  OBVIOUS
<1>5. CASE w = z
  BY <1>5
<1>6. CASE f.found /\ w = Put(Freed(z, f.entry.cluster), f.pos, Free)
  <2> HIDE DEF f, g, more, w, L
  <2>1. g.found /\ f = Lookup(z, g.entry.cluster, path.names[L], more)
    BY <1>2, <1>6 DEF Below, NotFound
  <2>2. g.entry.cluster \in Table!Entry /\ f.entry.cluster \in Table!Entry /\ f.pos \in Position
    BY <1>2, <1>3 DEF Found, EntrySlot
  <2>3. PICK i : FoundIn(z, g.entry.cluster, path.names[L], f, i)
    <3>1. Lookup(z, g.entry.cluster, path.names[L], more).found
      BY <2>1, <1>6
    <3> QED
      BY <3>1, <2>1, <2>2, <1>3, LookupFinds
  <2>4. At(z, f.pos).kind = "entry"
    BY <2>3 DEF FoundIn
  <2>5. f.pos # <<ROOT, 1>>
    BY <2>4
  <2> DEFINE y == Freed(z, f.entry.cluster)
  <2>6. FreedIn(z, y, Clusters(z, f.entry.cluster))
    BY <2>2, FreedIs
  <2> HIDE DEF y
  <2>7. SlotPut(y, w, f.pos, Free) /\ y.cells = z.cells
    <3>1. Typed(y) /\ y.cells = z.cells
      BY <2>6 DEF FreedIn
    <3> QED
      BY <3>1, <2>2, <1>6, PutIs, MarksAreSlots DEF y
  <2>8. At(w, <<ROOT, 1>>) = At(y, <<ROOT, 1>>)
    BY <2>5, <2>7, RootSpot DEF SlotPut
  <2>9. At(y, <<ROOT, 1>>) = At(z, <<ROOT, 1>>)
    BY <2>7 DEF At
  <2> QED
    BY <2>8, <2>9
<1> QED
  BY <1>4, <1>5, <1>6

\* The file gets its first cluster, is written and closed, and deleted again when
\* it could not be written.
Writes(a, x, path, w, c, so, z, r) ==
    /\ w = LinkFree(a.vol, FREE).vol /\ c = LinkFree(a.vol, FREE).cluster
    /\ so = FileWrite(w, c, x) /\ z = FileClose(so.vol, a.pos, c, so.size)
    /\ r = IF so.ok THEN Answer(TRUE, z) ELSE Answer(FALSE, DeleteFile(z, path).vol)

\* A file that was given no cluster leaves a full volume.
LEMMA FileIsBlurred ==
    ASSUME NEW v, Typed(v), NEW N, NEW R, Intact(v, N, R), NEW D \in Dirs(N),
           NEW e0 \in EntrySlot, ~e0.dir, e0.name \in Names,
           NEW a, NEW u, AddedTo(v, u, N, R, D, e0, a), a.pos \in Position,
           NEW x \in Contents, NEW path, LeadsInto(v, N, D, path, e0),
           NEW w, NEW c, c \notin Cluster, NEW so, NEW z, NEW r, Writes(a, x, path, w, c, so, z, r)
    PROVE  FoundFull(r.vol)
<1> DEFINE p == a.pos
<1>0. /\ w = LinkFree(a.vol, FREE).vol /\ c = LinkFree(a.vol, FREE).cluster
      /\ so = FileWrite(w, c, x) /\ z = FileClose(so.vol, a.pos, c, so.size)
      /\ r = IF so.ok THEN Answer(TRUE, z) ELSE Answer(FALSE, DeleteFile(z, path).vol)
  BY DEF Writes
<1>1. /\ Typed(u) /\ u.cwd = v.cwd /\ SlotPut(u, a.vol, p, e0) /\ NoNode(N, D, e0)
      /\ (\E Q : Settled(v, u, N, R, Q, D, p)) \/ LinkedPast(v, u, R, D, p)
  BY DEF AddedTo
<1>2. PICK e : Blurred(u, z, p, e) /\ e.name = e0.name
  BY <1>0, <1>1, BlurredIs
<1>3. Spent(z)
  BY <1>2 DEF Blurred
<1>4. LeadsInto(v, N, D, path, e) /\ NoNode(N, D, e)
  BY <1>1, <1>2 DEF LeadsInto, NoNode
<1>5. FoundFull(DeleteFile(z, path).vol)
  <2>1. CASE \E Q : Settled(v, u, N, R, Q, D, p)
    <3>1. PICK Q : Settled(v, u, N, R, Q, D, p)
      BY <2>1
    <3>2. SettledFor(v, u, N, R, Q, D, p, e0)
      BY <3>1, <1>1 DEF SettledFor
    <3> HIDE DEF p
    <3>3. Spent(DeleteFile(z, path).vol)
      BY <3>2, <1>2, <1>4, BlurredSettled
    <3> QED
      BY <3>3, SpentIsFull
  <2>2. CASE LinkedPast(v, u, R, D, p)
    <3>1. Strayed(v, u, N, R, D, p, e, z)
      BY <2>2, <1>1, <1>2, <1>4 DEF Strayed
    <3> QED
      BY <3>1, <1>4, StrayedDeleted
  <2> QED
    BY <2>1, <2>2, <1>1
<1>6. r.vol = z \/ r.vol = DeleteFile(z, path).vol
  BY <1>0 DEF Answer
<1> QED
  BY <1>3, <1>5, <1>6, SpentIsFull

\* Areas with the same slots.
LEMMA CellsSame ==
    ASSUME NEW u, Typed(u), NEW z, Typed(z), NEW a \in Areas,
           \A q \in Position : q[1] = a => At(z, q) = At(u, q)
    PROVE  z.cells[a] = u.cells[a]
<1>1. /\ u.cells[a] \in Seq(Slot) /\ z.cells[a] \in Seq(Slot)
      /\ Len(u.cells[a]) = SlotsOf(a) /\ Len(z.cells[a]) = SlotsOf(a)
  BY VolumeFields
<1>2. \A i \in 1 .. SlotsOf(a) : z.cells[a][i] = u.cells[a][i]
  <2> SUFFICES ASSUME NEW i \in 1 .. SlotsOf(a)
               PROVE  z.cells[a][i] = u.cells[a][i]
    OBVIOUS
  <2>1. <<a, i>> \in Position /\ <<a, i>>[1] = a /\ <<a, i>>[2] = i
    BY IsPosition
  <2> QED
    BY <2>1 DEF At
<1> QED
  BY <1>1, <1>2

\* The file had the number past the table: nothing was written where nodes are but
\* its entry.
LEMMA ClosedPast ==
    ASSUME NEW u, Typed(u), NEW z, NEW p, NEW e, Blurred(u, z, p, e), ClosedAt(u, z, p, e, PastEnd)
    PROVE  EntryWritten(u, z, p, e, PastEnd)
<1>1. Typed(z) /\ z.table = u.table /\ z.cwd = u.cwd /\ p \in Position
  BY DEF Blurred
<1>2. /\ p[1] # PastEnd => At(z, p) = e
      /\ \A q \in Position : q # p /\ q[1] # PastEnd => At(z, q) = At(u, q)
  BY DEF ClosedAt
<1>3. \A a \in Areas : a # p[1] /\ a # PastEnd => z.cells[a] = u.cells[a]
  <2> SUFFICES ASSUME NEW a \in Areas, a # p[1], a # PastEnd
               PROVE  z.cells[a] = u.cells[a]
    OBVIOUS
  <2>1. \A q \in Position : q[1] = a => At(z, q) = At(u, q)
    BY <1>2
  <2> QED
    BY <2>1, <1>1, CellsSame
<1> QED
  BY <1>1, <1>2, <1>3 DEF EntryWritten

\* No cluster for the file, and what has become of it.
LEMMA BlurredOutcome ==
    ASSUME NEW v, Typed(v), NEW N, NEW R, Intact(v, N, R), NEW D \in Dirs(N),
           NEW e0 \in EntrySlot, ~e0.dir, e0.name \in Names,
           NEW a, NEW u, AddedTo(v, u, N, R, D, e0, a), a.pos \in Position,
           NEW x \in Contents, NEW path, LeadsInto(v, N, D, path, e0),
           NEW w, NEW c, c \notin Cluster, NEW so, NEW z, NEW r, Writes(a, x, path, w, c, so, z, r)
    PROVE  (Kept(v, N, r.vol) \/ Broke(r.vol)) /\ Ended(r)
<1> DEFINE p == a.pos
           y == DeleteFile(z, path).vol
<1>0. /\ w = LinkFree(a.vol, FREE).vol /\ c = LinkFree(a.vol, FREE).cluster
      /\ so = FileWrite(w, c, x) /\ z = FileClose(so.vol, a.pos, c, so.size)
      /\ r = IF so.ok THEN Answer(TRUE, z) ELSE Answer(FALSE, DeleteFile(z, path).vol)
  BY DEF Writes
<1>1. /\ Typed(u) /\ u.cwd = v.cwd /\ SlotPut(u, a.vol, p, e0) /\ NoNode(N, D, e0)
      /\ (\E Q : Settled(v, u, N, R, Q, D, p)) \/ LinkedPast(v, u, R, D, p)
  BY DEF AddedTo
<1>2. PICK e : Blurred(u, z, p, e) /\ ClosedAt(u, z, p, e, c) /\ e.name = e0.name
  <2> DEFINE b == a.vol
  <2>1. /\ SlotPut(u, b, p, e0) /\ w = LinkFree(b, FREE).vol /\ c = LinkFree(b, FREE).cluster
        /\ so = FileWrite(w, c, x) /\ z = FileClose(so.vol, p, c, so.size) /\ p \in Position
    BY <1>0, <1>1
  <2> HIDE DEF b, p
  <2> QED
    BY <2>1, <1>1, BlurredIs
<1>3. Typed(z) /\ Spent(z) /\ e.cluster \notin Cluster /\ e \in EntrySlot /\ ~e.dir /\ e.kind = "entry" /\ p \in Position
  BY <1>2 DEF Blurred, EntrySlot
<1>4. LeadsInto(v, N, D, path, e) /\ NoNode(N, D, e) /\ path \in NewPaths /\ path \in Paths /\ Leaf(path) = e0.name
  <2>1. LeadsInto(v, N, D, path, e) /\ NoNode(N, D, e) /\ path \in NewPaths /\ Leaf(path) = e0.name
    BY <1>1, <1>2 DEF LeadsInto, NoNode
  <2> QED
    BY <2>1, ParentTyped
<1>5. Typed(y)
  BY <1>3, <1>4, DeleteFileTyped DEF AnswerTyped
<1>6. (r.ok /\ r.vol = z) \/ (~r.ok /\ r.vol = y)
  BY <1>0 DEF Answer
<1>7. FoundFull(r.vol)
  BY FileIsBlurred
<1>8. Typed(r.vol)
  BY <1>3, <1>5, <1>6
<1>9. Ended(r)
  BY <1>3, <1>6, SpentMeets DEF Ended
<1> SUFFICES Kept(v, N, r.vol) \/ Broke(r.vol)
  BY <1>9
<1> HIDE DEF p, y
<1>10. ASSUME ~Unharmed(r.vol)
       PROVE  Broke(r.vol)
  BY <1>7, <1>8, <1>10, FullBreaks
<1>11. c \in {FREE, PastEnd}
  BY <1>2 DEF ClosedAt
<1>12. CASE c = FREE
  <2>1. At(z, <<ROOT, 1>>).kind = "data"
    BY <1>2, <1>12 DEF ClosedAt
  <2>2. At(y, <<ROOT, 1>>).kind = "data"
    BY <2>1, <1>3, <1>4, RootDataStays DEF y
  <2>3. At(r.vol, <<ROOT, 1>>).kind = "data"
    BY <2>1, <2>2, <1>6
  <2>4. ~Unharmed(r.vol)
    BY <2>3, <1>8, BadRoot
  <2> QED
    BY <2>4, <1>10
<1>13. CASE c = PastEnd
  <2>1. ClosedAt(u, z, p, e, PastEnd)
    BY <1>2, <1>13
  <2>2. CASE LinkedPast(v, u, R, D, p)
    <3>1. Strayed(v, u, N, R, D, p, e, z)
      BY <2>2, <1>1, <1>2, <1>4 DEF Strayed
    <3>2. ~Unharmed(y)
      BY <2>1, <3>1, <1>4, StrayedBreaks DEF y
    <3>3. LinkedOut(v, R, D, p, z) /\ D # Top
      BY <2>1, <3>1, StrayedOut
    <3>4. Laid(v, N, R)
      BY DEF Intact
    <3>5. ~Unharmed(z)
      BY <3>3, <3>4, <1>3, LinkedOutBreaks
    <3>6. ~Unharmed(r.vol)
      BY <3>2, <3>5, <1>6
    <3> QED
      BY <3>6, <1>10
  <2>3. CASE \E Q : Settled(v, u, N, R, Q, D, p)
    <3>1. PICK Q : Settled(v, u, N, R, Q, D, p)
      BY <2>3
    <3>2. SettledFor(v, u, N, R, Q, D, p, e0)
      BY <3>1, <1>1 DEF SettledFor
    <3>3. EntryWritten(u, z, p, e, PastEnd) /\ SettledFor(v, u, N, R, Q, D, p, e)
      <4>1. EntryWritten(u, z, p, e, PastEnd)
        BY <2>1, <1>1, <1>2, ClosedPast
      <4>2. SettledFor(v, u, N, R, Q, D, p, e)
        BY <3>2, <1>2, <1>3, <1>4 DEF SettledFor
      <4> QED
        BY <4>1, <4>2
    <3>4. Laid(u, N, Q) /\ PastEnd \notin Held(Q)
      <4>1. Laid(u, N, Q)
        BY <3>1 DEF Settled
      <4> QED
        BY <4>1, <1>1, HeldIsUsed
    <3>5. CASE Open(u, Q[D], p)
      <4>1. p \in Spots(Q[D]) /\ p[1] # PastEnd
        <5>1. p \in Spots(Q[D]) /\ Members(Q[D]) \subseteq Held(Q)
          BY <3>4, <3>5, RunOfDir DEF Open
        <5> QED
          BY <5>1, <3>4, SpotArea
      <4>2. FileAt(u, z, Held(Q), p, e)
        <5>1. \A b \in Held(Q) : b \in Areas /\ b # PastEnd
          BY <3>4, <1>1, HeldIsUsed
        <5>2. SameBut(u, z, Held(Q), p)
          BY <3>3, <4>1, <5>1 DEF SameBut, EntryWritten
        <5> QED
          BY <5>2, <3>3, <4>1, <1>3 DEF FileAt, EntryWritten
      <4>3. CASE r.ok
        <5>1. SameBut(u, z, Held(Q), p) /\ At(z, p) = e
          BY <4>2 DEF FileAt
        <5>2. At(z, p).kind = "entry" /\ At(z, p).name \in Names /\ At(z, p).cluster \notin Cluster
          BY <5>1, <1>2, <1>3
        <5>3. ~Unharmed(z)
          BY <5>1, <5>2, <4>1, <3>4, <1>1, <1>3, BadEntry
        <5>4. ~Unharmed(r.vol)
          BY <5>3, <4>3, <1>6
        <5> QED
          BY <5>4, <1>10
      <4>4. CASE ~r.ok
        <5>1. Clusters(z, e.cluster) = {}
          BY <1>3, NoChain DEF Clusters
        <5>2. Clusters(z, e.cluster) \cap Held(Q) = {}
          BY <5>1
        <5>3. Kept(v, N, y)
          BY <5>2, <4>2, <3>2, <1>2, <1>4, FailedFile DEF y
        <5> QED
          BY <5>3, <4>4, <1>6
      <4> QED
        BY <4>3, <4>4
    <3>6. CASE Unseen(u, Q, p)
      <4>1. Intact(z, N, Q)
        BY <3>3, <3>4, <3>6, UnseenEntry
      <4>2. FilesKeep(v, z, N)
        BY <3>3, <3>4, FilesUnmoved
      <4>3. Kept(v, N, z)
        BY <4>1, <4>2 DEF Kept
      <4>4. y = z
        <5>1. Laid(z, N, Q) /\ z.cwd = u.cwd
          BY <4>1, <1>2 DEF Intact, Blurred
        <5>2. LeafIs(N, D, path, EntryFromPath(z, path))
          BY <5>1, <3>2, <1>3, <1>4, SameDirsOf
        <5>3. ~EntryFromPath(z, path).found
          BY <5>2, <1>1, <1>4 DEF LeafIs, NoNode
        <5> QED
          BY <5>3 DEF y, DeleteFile, DeleteFound, Answer
      <4> QED
        BY <4>3, <4>4, <1>6, <1>9
    <3> QED
      BY <3>1, <3>5, <3>6 DEF Settled
  <2> QED
    BY <2>2, <2>3, <1>1
<1> QED
  BY <1>11, <1>12, <1>13

\* An entry for a file was added, and the file is written.
LEMMA AddedFile ==
    ASSUME NEW v, Typed(v), NEW N, NEW R, Intact(v, N, R), NEW D \in Dirs(N),
           NEW e0 \in EntrySlot, ~e0.dir, e0.name \in Names,
           NEW a, NEW u, AddedTo(v, u, N, R, D, e0, a), a.pos \in Position,
           NEW x \in Contents, NEW path, LeadsInto(v, N, D, path, e0),
           NEW w, NEW c, NEW so, NEW z, NEW r, Writes(a, x, path, w, c, so, z, r)
    PROVE  WroteInto(v, N, D, e0.name, x, r)
<1> DEFINE p == a.pos
<1>0. /\ w = LinkFree(a.vol, FREE).vol /\ c = LinkFree(a.vol, FREE).cluster
      /\ so = FileWrite(w, c, x) /\ z = FileClose(so.vol, a.pos, c, so.size)
      /\ r = IF so.ok THEN Answer(TRUE, z) ELSE Answer(FALSE, DeleteFile(z, path).vol)
  BY DEF Writes
<1>1. /\ Typed(u) /\ u.cwd = v.cwd /\ SlotPut(u, a.vol, p, e0) /\ NoNode(N, D, e0)
      /\ (\E Q : Settled(v, u, N, R, Q, D, p)) \/ LinkedPast(v, u, R, D, p)
  BY DEF AddedTo
<1>2. CASE c \notin Cluster
  <2>1. (Kept(v, N, r.vol) \/ Broke(r.vol)) /\ Ended(r)
    <3>1. c \notin Cluster
      BY <1>2
    <3> QED
      BY <3>1, BlurredOutcome
  <2> QED
    BY <2>1 DEF WroteInto
<1>3. CASE c \in Cluster
  <2>1. ~LinkedPast(v, u, R, D, p)
    <3> SUFFICES ASSUME LinkedPast(v, u, R, D, p)
                 PROVE  FALSE
      OBVIOUS
    <3>1. Full(a.vol)
      BY <1>1 DEF LinkedPast, SlotPut, Full
    <3>2. InUse(a.vol, {}) /\ Typed(a.vol)
      BY <1>1 DEF InUse, SlotPut
    <3>3. GivenOut(a.vol, {}, w, c)
      BY <3>2, <1>0, FirstClusterIs
    <3>4. c \notin {FREE, PastEnd}
      BY <1>3, Numbers
    <3> QED
      BY <3>1, <3>3, <3>4, <1>3 DEF GivenOut, Full
  <2>2. PICK Q : Settled(v, u, N, R, Q, D, p)
    BY <2>1, <1>1
  <2>3. SettledFor(v, u, N, R, Q, D, p, e0)
    BY <2>2, <1>1 DEF SettledFor
  <2> HIDE DEF p
  <2>4. PICK H : Prepared(v, u, N, R, Q, D, p, e0, H, w, c)
    <3> DEFINE b == a.vol
    <3>1. SlotPut(u, b, p, e0) /\ w = LinkFree(b, FREE).vol /\ c = LinkFree(b, FREE).cluster
      BY <1>0, <1>1
    <3> HIDE DEF b
    <3> QED
      BY <3>1, <2>3, <1>3, FileIsPrepared
  <2>5. z = FileClose(so.vol, p, c, so.size)
    BY <1>0 DEF p
  <2> QED
    BY <2>4, <2>5, <1>0, FileIsWritten
<1> QED
  BY <1>2, <1>3

------------------------------------------------------------------------
(* What writefile comes to.                                                *)

LEMMA KeptSelf ==
    ASSUME NEW v, NEW N, NEW R, Intact(v, N, R), NEW w, w.table = v.table, w.cells = v.cells,
           w.cwd = v.cwd
    PROVE  Kept(v, N, w)
<1>1. Same(v, w, Held(R))
  BY DEF Same
<1> QED
  BY <1>1, SameKept

\* The file is made anew in the directory above.
WroteIn(v, N, p, x, r) ==
    \/ ~r.ok /\ Kept(v, N, r.vol)
    \/ \E D : AtParent(v, N, p, D) /\ WroteInto(v, N, D, Leaf(p), x, r)

LEMMA WriteInIs ==
    ASSUME NEW v, Typed(v), NEW N, NEW R, Intact(v, N, R), NEW p \in NewPaths, NEW x \in Contents,
           NEW r, r = WriteInto(CreateIn(v, p, Parent(v, p)), p, x)
    PROVE  WroteIn(v, N, p, x, r)
<1> DEFINE parent == Parent(v, p)
<1>1. CASE ~IsDirectory(parent)
  <2>1. r = Answer(FALSE, v)
    BY <1>1 DEF CreateIn, WriteInto, Answer
  <2>2. ~r.ok /\ r.vol = v
    BY <2>1 DEF Answer
  <2> QED
    BY <2>2, KeptSelf DEF WroteIn
<1>2. CASE IsDirectory(parent)
  <2>1. PICK D : AtParent(v, N, p, D)
    BY <1>2, ParentIs
  <2> DEFINE e0 == Entry(Leaf(p), FALSE, 0, 0)
             a == AddEntry(v, D.entry.cluster, e0)
             file == WithCluster(a)
  <2>2. r = WriteInto(file, p, x)
    BY <1>2, <2>1 DEF CreateIn, AtParent
  <2>3. /\ e0 \in EntrySlot /\ e0.name = Leaf(p) /\ e0.name \in Names /\ ~e0.dir
    <3>1. Leaf(p) \in Names
      BY DEF NewPaths
    <3>2. 0 \in Table!Entry /\ FALSE \in BOOLEAN
      BY Numbers
    <3>3. e0 \in EntrySlot
      BY <3>2, PathLeaf
    <3> QED
      BY <3>1, <3>3 DEF Entry
  <2>4. D \in Dirs(N) /\ Laid(v, N, R)
    BY <2>1 DEF AtParent, Intact
  <2> HIDE DEF e0
  <2>5. AddOutcome(v, N, R, D, e0, a)
    BY <2>3, <2>4, AddEntryIs
  <2> HIDE DEF a
  <2>6. /\ Typed(a.vol) /\ a.vol.cwd = v.cwd /\ a.ok \in BOOLEAN /\ a.pos \in Position
        /\ \/ ~a.ok /\ a.vol.table = v.table /\ a.vol.cells = v.cells
           \/ a.ok /\ \E u : AddedTo(v, u, N, R, D, e0, a)
    BY <2>5 DEF AddOutcome
  <2>7. CASE ~a.ok
    <3>1. r = Answer(FALSE, a.vol)
      BY <2>2, <2>7 DEF WithCluster, WriteInto, Answer
    <3>2. ~r.ok /\ r.vol = a.vol
      BY <3>1 DEF Answer
    <3> QED
      BY <2>6, <2>7, <3>2, KeptSelf DEF WroteIn
  <2>8. CASE a.ok
    <3> DEFINE new == LinkFree(a.vol, FREE)
               w == new.vol
               c == new.cluster
               so == FileWrite(w, c, x)
               z == FileClose(so.vol, a.pos, c, so.size)
    <3>1. PICK u : AddedTo(v, u, N, R, D, e0, a)
      BY <2>6, <2>8
    <3>2. file = Opened(a.pos, new)
      BY <2>8 DEF WithCluster
    <3> HIDE DEF new, file
    <3>3. file.ok /\ file.pos = a.pos /\ file.cluster = c /\ file.vol = w
      BY <3>2 DEF Opened
    <3>4. r = CloseWritten(file, p, so)
      BY <2>2, <3>3 DEF WriteInto
    <3>5. Closed(file, so) = z
      BY <3>3 DEF Closed
    <3>6. r = IF so.ok THEN Answer(TRUE, z) ELSE Answer(FALSE, DeleteFile(z, p).vol)
      BY <3>4, <3>5 DEF CloseWritten
    <3>7. Writes(a, x, p, w, c, so, z, r)
      BY <3>6 DEF Writes, new
    <3>8. LeadsInto(v, N, D, p, e0)
      BY <2>1, <2>3 DEF LeadsInto, AtParent, TrailOf
    <3> HIDE DEF w, c, so, z
    <3>9. WroteInto(v, N, D, e0.name, x, r)
      BY <3>1, <3>7, <3>8, <2>3, <2>4, <2>6, AddedFile
    <3> QED
      BY <3>9, <2>1, <2>3 DEF WroteIn
  <2> QED
    BY <2>6, <2>7, <2>8
<1> QED
  BY <1>1, <1>2

\* The file y, which p leads to, has been taken away.
Replaced(v, N, p, w, y) ==
    /\ y \in N /\ y # Top /\ ~y.entry.dir /\ Typed(w) /\ w.cwd = v.cwd
    /\ EntryFromPath(v, p).found
    /\ y.entry = EntryFromPath(v, p).entry /\ y.pos = EntryFromPath(v, p).pos
    /\ FilesKeep(v, w, N \ {y}) /\ \E Q : Intact(w, N \ {y}, Q)

WriteOutcome(v, N, p, x, r) ==
    \/ ~r.ok /\ Kept(v, N, r.vol)
    \/ ~EntryFromPath(v, p).found /\ WroteIn(v, N, p, x, r)
    \/ \E w, y : Replaced(v, N, p, w, y) /\ ((~r.ok /\ r.vol = w) \/ WroteIn(w, N \ {y}, p, x, r))

LEMMA WriteFileIs ==
    ASSUME NEW v, Typed(v), NEW N, NEW R, Intact(v, N, R), NEW p \in NewPaths, NEW x \in Contents
    PROVE  WriteOutcome(v, N, p, x, WriteFile(v, p, x))
<1> DEFINE old == EntryFromPath(v, p)
           r == WriteFile(v, p, x)
<1>1. r = WriteInto(CreateInstead(v, p, old), p, x)
  BY DEF WriteFile, FileCreate
<1>2. ~IsRoot(v, p) /\ p \in Paths
  BY NewIsNotRoot, ParentTyped
<1> HIDE DEF r
<1>3. CASE IsDirectory(old)
  <2>1. r = Answer(FALSE, v)
    BY <1>1, <1>3 DEF CreateInstead, WriteInto, Answer
  <2>2. ~r.ok /\ r.vol = v
    BY <2>1 DEF Answer
  <2>3. Kept(v, N, r.vol)
    BY <2>2, KeptSelf
  <2> QED
    BY <2>2, <2>3 DEF WriteOutcome, r
<1>4. CASE ~old.found
  <2>1. CreateInstead(v, p, old) = CreateIn(v, p, Parent(v, p))
    <3>1. ~IsDirectory(old)
      BY <1>4 DEF IsDirectory
    <3>2. CreateInstead(v, p, old) = CreateAfter(Answer(TRUE, v), p)
      BY <1>4, <3>1 DEF CreateInstead
    <3> QED
      BY <3>2 DEF CreateAfter, Answer
  <2>2. WroteIn(v, N, p, x, r)
    BY <1>1, <2>1, WriteInIs
  <2> QED
    BY <1>4, <2>2 DEF WriteOutcome, r
<1>5. CASE old.found /\ ~IsDirectory(old)
  <2> DEFINE gone == DeleteEntry(v, old)
             w == gone.vol
  <2>1. CreateInstead(v, p, old) = CreateAfter(gone, p) /\ ~old.entry.dir
    BY <1>5 DEF CreateInstead, IsDirectory
  <2>2. Laid(v, N, R) /\ DOMAIN R = N
    BY DEF Intact
  <2>3. EndsInNode(N, old)
    <3>1. ~EndsInDot(v, N, R, old)
      <4> SUFFICES ASSUME EndsInDot(v, N, R, old)
                   PROVE  FALSE
        OBVIOUS
      <4>1. PICK D \in Dirs(N) : /\ D # Top /\ old.pos \in {<<R[D][1], 1>>, <<R[D][1], 2>>}
                                 /\ old.entry = At(v, old.pos)
        BY DEF EndsInDot
      <4>2. PICK up : Neat(v, D, up, R[D])
        BY <2>2 DEF Laid, Orderly
      <4>3. At(v, old.pos).dir
        BY <4>1, <4>2 DEF Neat, Entry
      <4> QED
        BY <4>1, <4>3, <2>1
    <3> HIDE DEF old
    <3>2. EntryFromPath(v, p).found
      BY <1>5 DEF old
    <3>3. EndsInNode(N, old) \/ EndsInDot(v, N, R, old)
      BY <3>2, <1>2, PathEnds DEF old
    <3> QED
      BY <3>1, <3>3
  <2>4. PICK y \in N : y # Top /\ old.entry = y.entry /\ old.pos = y.pos
    BY <2>3 DEF EndsInNode
  <2>5. ~y.entry.dir
    BY <2>1, <2>4
  <2>6. Removed(v, N, R, w, y)
    <3>1. Own(v, R, y)
      BY <2>2, <2>4, RunIsOwn
    <3> HIDE DEF old
    <3>2. Removed(v, N, R, w, y) \/ (w = v /\ y.entry.dir)
      BY <2>2, <2>4, <3>1, DeleteNodeIs
    <3> QED
      BY <3>2, <2>5
  <2> HIDE DEF old, w
  <2>7. FilesKeep(v, w, N \ {y}) /\ Intact(w, N \ {y}, Without(R, y))
    <3>1. /\ FilesKeep(v, w, N \ {y})
          /\ Intact(w, N \ {y}, Without(R, y)) \/ (y.entry.dir /\ Fallen(w))
      BY <2>4, <2>6, IntactRemoved
    <3> QED
      BY <2>5, <3>1
  <2>8. Typed(w) /\ w.cwd = v.cwd
    BY <2>6 DEF Removed
  <2>9. Replaced(v, N, p, w, y)
    BY <1>5, <2>4, <2>5, <2>7, <2>8 DEF Replaced, old
  <2>10. CASE ~gone.ok
    <3>1. r = Answer(FALSE, w)
      BY <1>1, <2>1, <2>10 DEF CreateAfter, WriteInto, Answer, w, old
    <3>2. ~r.ok /\ r.vol = w
      BY <3>1 DEF Answer
    <3> QED
      BY <2>9, <3>2 DEF WriteOutcome, r
  <2>11. CASE gone.ok
    <3>1. r = WriteInto(CreateIn(w, p, Parent(w, p)), p, x)
      BY <1>1, <2>1, <2>11 DEF CreateAfter, w, old
    <3>2. WroteIn(w, N \ {y}, p, x, r)
      BY <3>1, <2>7, <2>8, WriteInIs
    <3> QED
      BY <2>9, <3>2 DEF WriteOutcome, r
  <2> QED
    BY <2>10, <2>11
<1> QED
  BY <1>3, <1>4, <1>5

------------------------------------------------------------------------
(* Each call is a step of the tree.                                        *)

\* The steps of FileTree from the tree t to the tree u, and no step.
Moves(t, u) ==
    \/ u = t
    \/ \E p \in DOMAIN t, n \in Names :
        /\ IsDirAt(t, p)
        /\ \/ Append(p, n) \notin DOMAIN t /\ Grafted(t, u, Append(p, n), "dir")
           \/ ~IsDirAt(t, Append(p, n)) /\ \E x \in Contents : Grafted(t, u, Append(p, n), x)
    \/ \E p \in DOMAIN t :
        /\ p # <<>> /\ (t[p] # "dir" \/ \A n \in Names : Append(p, n) \notin DOMAIN t)
        /\ Pruned(t, u, p)

\* The volume w shows such a tree, or what has befallen it has a name.
Yields(t, w) == (\E M, Q : Intact(w, M, Q) /\ Moves(t, TreeOf(w, M))) \/ Fallen(w)

LEMMA KeptYields ==
    ASSUME NEW v, NEW N, NEW R, Intact(v, N, R), NEW w, Kept(v, N, w)
    PROVE  Yields(TreeOf(v, N), w)
<1>1. PICK Q : Intact(w, N, Q) /\ FilesKeep(v, w, N)
  BY DEF Kept
<1>2. TreeOf(w, N) = TreeOf(v, N)
  <2>1. PathsApart(N)
    BY DEF Intact, Laid
  <2> QED
    BY <1>1, <2>1, TreeKept
<1>3. Moves(TreeOf(v, N), TreeOf(w, N))
  BY <1>2 DEF Moves
<1> QED
  BY <1>1, <1>3 DEF Yields

\* What the tree has at the path of a node.
ShownIn(v, N, t) ==
    /\ DOMAIN t = {n.path : n \in N}
    /\ \A n \in N : t[n.path] = IF n.entry.dir THEN "dir" ELSE ReadsAs(v, n)
    /\ \A n \in N : ~n.entry.dir => t[n.path] # "dir"

LEMMA TreeShows ==
    ASSUME NEW v, NEW N, PathsApart(N)
    PROVE  ShownIn(v, N, TreeOf(v, N))
<1> DEFINE t == TreeOf(v, N)
<1>1. DOMAIN t = {n.path : n \in N} /\ \A n \in N : t[n.path] = Shows(v, n)
  BY TreeOfNodes
<1> HIDE DEF t
<1>2. \A n \in N : t[n.path] = IF n.entry.dir THEN "dir" ELSE ReadsAs(v, n)
  BY <1>1 DEF Shows
<1>3. \A n \in N : ReadsAs(v, n) # "dir"
  <2>1. "dir" \notin Contents \cup {"garbled"}
    BY SlotsAssumption
  <2> QED
    BY <2>1, ReadsAsContents
<1>4. ShownIn(v, N, t)
  BY <1>1, <1>2, <1>3 DEF ShownIn
<1> QED
  BY <1>4 DEF t

LEMMA MadeYields ==
    ASSUME NEW v, NEW N, NEW R, Intact(v, N, R), NEW p \in NewPaths, NEW w, NEW D, NEW y,
           Made(v, N, p, w, D, y)
    PROVE  Yields(TreeOf(v, N), w)
<1> DEFINE t == TreeOf(v, N)
           M == N \cup {y}
           u == TreeOf(w, M)
           name == Leaf(p)
<1>1. /\ D \in N /\ D.entry.dir /\ y.path = Append(D.path, name) /\ y.entry.dir /\ name \in Names
      /\ \A n \in N : n.path # y.path
      /\ FilesKeep(v, w, N)
  BY DEF Made, AtParent, Dirs, NewPaths
<1>2. PICK P : Intact(w, M, P)
  BY DEF Made
<1>3. PathsApart(N) /\ PathsApart(M)
  BY <1>2 DEF Intact, Laid
<1>4. Grafted(t, u, y.path, Shows(w, y))
  BY <1>1, <1>3, TreeGrafted
<1>5. ShownIn(v, N, t)
  BY <1>3, TreeShows
<1>6. Shows(w, y) = "dir"
  BY <1>1 DEF Shows
<1> HIDE DEF t, u, M, name
<1>7. /\ D.path \in DOMAIN t /\ IsDirAt(t, D.path)
      /\ Append(D.path, name) \notin DOMAIN t /\ Grafted(t, u, Append(D.path, name), "dir")
  BY <1>1, <1>4, <1>5, <1>6 DEF ShownIn, IsDirAt
<1>8. Moves(t, u)
  BY <1>1, <1>7 DEF Moves
<1> QED
  BY <1>2, <1>8 DEF Yields, t, u

\* The contents a file was written with are recognised: every piece tells whose it is.
LEMMA WholeIsRecognised ==
    ASSUME NEW x \in Contents, NEW r, r = [ok |-> TRUE, data |-> Whole(x)]
    PROVE  Recognised(r) = x
<1> DEFINE as == {y \in Contents : r.ok /\ r.data = Whole(y)}
<1>1. ASSUME NEW y \in Contents, Whole(x) = Whole(y)
      PROVE  y = x
  <2>1. 1 \in 1 .. Length[x] /\ 1 \in 1 .. Length[y]
    BY LengthIs
  <2>2. Whole(x)[1] = Piece(x, 1) /\ Whole(y)[1] = Piece(y, 1)
    BY <2>1 DEF Whole
  <2>3. Piece(x, 1).of = x /\ Piece(y, 1).of = y
    BY DEF Piece
  <2> QED
    BY <1>1, <2>2, <2>3
<1>2. as = {x}
  <2>1. r.ok /\ r.data = Whole(x)
    OBVIOUS
  <2> QED
    BY <1>1, <2>1
<1>3. Recognised(r) = IF as = {} THEN "garbled" ELSE CHOOSE y \in as : TRUE
  BY DEF Recognised
<1> HIDE DEF as
<1> QED
  BY <1>2, <1>3

\* There is one file more, or another one at its path.
LEMMA FileYields ==
    ASSUME NEW v, NEW N, NEW R, Intact(v, N, R), NEW M \in SUBSET N, NEW D \in Dirs(N),
           NEW name \in Names, NEW x \in Contents, NEW w, FilesKeep(v, w, M), NEW y,
           y.path = Append(D.path, name), ~y.entry.dir, y.entry.size = Length[x],
           \A n \in M : n.path # y.path,
           \A n \in N : n \in M \/ (n.path = y.path /\ ~n.entry.dir),
           NEW P, Intact(w, M \cup {y}, P),
           FileRead(w, y.entry.cluster, Length[x]) = [ok |-> TRUE, data |-> Whole(x)]
    PROVE  Yields(TreeOf(v, N), w)
<1> DEFINE t == TreeOf(v, N)
           u == TreeOf(w, M \cup {y})
<1>1. PathsApart(N) /\ PathsApart(M \cup {y})
  BY DEF Intact, Laid
<1>2. Grafted(t, u, y.path, Shows(w, y))
  BY <1>1, TreeGrafted
<1>3. ShownIn(v, N, t)
  BY <1>1, TreeShows
<1>4. Shows(w, y) = x
  <2>1. ReadsAs(w, y) = Recognised(FileRead(w, y.entry.cluster, Length[x]))
    BY DEF ReadsAs
  <2>2. Recognised(FileRead(w, y.entry.cluster, Length[x])) = x
    BY WholeIsRecognised
  <2> QED
    BY <2>1, <2>2 DEF Shows
<1> HIDE DEF t, u
<1>5. D \in N /\ D.entry.dir
  BY DEF Dirs
<1>6. D.path \in DOMAIN t /\ IsDirAt(t, D.path) /\ ~IsDirAt(t, Append(D.path, name))
  <2>1. D.path \in DOMAIN t /\ IsDirAt(t, D.path)
    BY <1>3, <1>5 DEF ShownIn, IsDirAt
  <2>2. ~IsDirAt(t, Append(D.path, name))
    BY <1>3 DEF ShownIn, IsDirAt
  <2> QED
    BY <2>1, <2>2
<1>7. Grafted(t, u, Append(D.path, name), x)
  BY <1>2, <1>4
<1>8. Moves(t, u)
  BY <1>6, <1>7 DEF Moves
<1> QED
  BY <1>8 DEF Yields, t, u

\* There is one node less.
LEMMA ShrunkYields ==
    ASSUME NEW v, NEW N, NEW R, Intact(v, N, R), NEW w, NEW y \in N, y # Top,
           FilesKeep(v, w, N \ {y}), NEW Q, Intact(w, N \ {y}, Q),
           y.entry.dir => \A n \in N : n = y \/ Front(n.path) # y.path
    PROVE  Yields(TreeOf(v, N), w)
<1> DEFINE t == TreeOf(v, N)
           u == TreeOf(w, N \ {y})
<1>1. PathsApart(N) /\ PathsApart(N \ {y})
  BY DEF Intact, Laid
<1>2. Pruned(t, u, y.path)
  BY <1>1, TreePruned
<1>3. ShownIn(v, N, t)
  BY <1>1, TreeShows
<1>4. y \in NodeSet /\ y.path # <<>> /\ y.path \in Seq(Names)
  <2>1. y \in NodeSet /\ y.path # <<>>
    BY <1>1, PathFacts
  <2> QED
    BY <2>1 DEF NodeSet
<1> HIDE DEF t, u
<1>5. y.path \in DOMAIN t
  BY <1>3 DEF ShownIn
<1>6. ASSUME y.entry.dir, NEW n \in Names, Append(y.path, n) \in DOMAIN t
      PROVE  FALSE
  <2>1. PICK m \in N : m.path = Append(y.path, n)
    BY <1>3, <1>6 DEF ShownIn
  <2>2. Front(m.path) = y.path
    BY <1>4, <2>1, FrontOfAppend
  <2>3. m.path # y.path
    <3>1. Len(Append(y.path, n)) = Len(y.path) + 1 /\ Len(y.path) \in Nat
      BY <1>4
    <3> QED
      BY <2>1, <3>1
  <2> QED
    BY <1>6, <2>2, <2>3
<1>7. t[y.path] # "dir" \/ \A n \in Names : Append(y.path, n) \notin DOMAIN t
  BY <1>3, <1>6 DEF ShownIn
<1>8. Moves(t, u)
  BY <1>2, <1>4, <1>5, <1>7 DEF Moves
<1> QED
  BY <1>8 DEF Yields, t, u

LEMMA MkDirYields ==
    ASSUME NEW v, Typed(v), NEW N, NEW R, Intact(v, N, R), NEW p \in NewPaths
    PROVE  Typed(MkDir(v, p).vol) /\ Yields(TreeOf(v, N), MkDir(v, p).vol)
<1> DEFINE r == MkDir(v, p)
<1>1. MkDirOutcome(v, N, p, r)
  BY MkDirIs
<1> DEFINE w == r.vol
<1>2. /\ Typed(w)
      /\ Kept(v, N, w) \/ (\E D, y : Made(v, N, p, w, D, y)) \/ Broke(w)
  BY <1>1 DEF MkDirOutcome
<1> HIDE DEF r, w
<1>3. Yields(TreeOf(v, N), w)
  <2>1. CASE Kept(v, N, w)
    BY <2>1, KeptYields
  <2>2. CASE \E D, y : Made(v, N, p, w, D, y)
    BY <2>2, MadeYields
  <2>3. CASE Broke(w)
    BY <2>3 DEF Broke, Yields
  <2> QED
    BY <1>2, <2>1, <2>2, <2>3
<1> QED
  BY <1>2, <1>3 DEF w, r

\* The file is new, or the one it replaces is gone already.
FileGone(v, N, p, w, M) ==
    /\ M \in SUBSET N /\ FilesKeep(v, w, M) /\ Dirs(M) = Dirs(N)
    /\ \A D \in Dirs(M) : D.path = TrailOf(w, M, p)[Len(p.names) - 1] =>
            \A n \in N : n \in M \/ (n.path = Append(D.path, Leaf(p)) /\ ~n.entry.dir)

LEMMA WroteInYields ==
    ASSUME NEW v, NEW N, NEW R, Intact(v, N, R), NEW p \in NewPaths, NEW x \in Contents,
           NEW u, NEW M, FileGone(v, N, p, u, M),
           NEW r, \E D : AtParent(u, M, p, D) /\ WroteInto(u, M, D, Leaf(p), x, r),
           \A w : Kept(u, M, w) => Yields(TreeOf(v, N), w)
    PROVE  Yields(TreeOf(v, N), r.vol)
<1> DEFINE w == r.vol
<1>1. PICK D : AtParent(u, M, p, D) /\ WroteInto(u, M, D, Leaf(p), x, r)
  OBVIOUS
<1>2. Kept(u, M, w) \/ FileAdded(u, M, w, D, Leaf(p), x) \/ Broke(w)
  BY <1>1 DEF WroteInto
<1>3. Leaf(p) \in Names /\ D \in Dirs(M) /\ D.path = TrailOf(u, M, p)[Len(p.names) - 1]
  BY <1>1 DEF NewPaths, AtParent, TrailOf
<1>4. /\ M \in SUBSET N /\ D \in Dirs(N) /\ FilesKeep(v, u, M)
      /\ \A n \in N : n \in M \/ (n.path = Append(D.path, Leaf(p)) /\ ~n.entry.dir)
  BY <1>3 DEF FileGone
<1> HIDE DEF w
<1>5. CASE Kept(u, M, w)
  BY <1>5 DEF w
<1>6. CASE FileAdded(u, M, w, D, Leaf(p), x)
  <2>1. PICK y : /\ y.path = Append(D.path, Leaf(p)) /\ ~y.entry.dir /\ y.entry.size = Length[x]
                 /\ \A n \in M : n.path # y.path
                 /\ FilesKeep(u, w, M) /\ \E P : Intact(w, M \cup {y}, P)
                 /\ FileRead(w, y.entry.cluster, Length[x]) = [ok |-> TRUE, data |-> Whole(x)]
    BY <1>6 DEF FileAdded
  <2>2. FilesKeep(v, w, M)
    BY <1>4, <2>1 DEF FilesKeep
  <2>3. PICK P : Intact(w, M \cup {y}, P)
    BY <2>1
  <2>4. \A n \in N : n \in M \/ (n.path = y.path /\ ~n.entry.dir)
    BY <1>4, <2>1
  <2>5. Yields(TreeOf(v, N), w)
    BY <1>3, <1>4, <2>1, <2>2, <2>3, <2>4, FileYields
  <2> QED
    BY <2>5 DEF w
<1>7. CASE Broke(w)
  BY <1>7 DEF Broke, Yields, w
<1> QED
  BY <1>2, <1>5, <1>6, <1>7

\* What p leads to is the file of that name in the directory above.
LEMMA ReplacedIsGone ==
    ASSUME NEW v, Typed(v), NEW N, NEW R, Intact(v, N, R), NEW p \in NewPaths, NEW w, NEW y,
           Replaced(v, N, p, w, y)
    PROVE  FileGone(v, N, p, w, N \ {y})
<1> DEFINE M == N \ {y}
           f == EntryFromPath(v, p)
<1>1. /\ y \in N /\ y # Top /\ ~y.entry.dir /\ Typed(w) /\ w.cwd = v.cwd /\ f.found
      /\ y.entry = f.entry /\ FilesKeep(v, w, M)
  BY DEF Replaced
<1>2. PICK Q : Intact(w, M, Q)
  BY DEF Replaced
<1>3. Dirs(M) = Dirs(N)
  BY <1>1 DEF Dirs
<1>4. Laid(v, N, R) /\ Stands(v, N) /\ Laid(w, M, Q)
  BY <1>2 DEF Intact
<1>5. p \in Paths /\ Len(p.names) - 1 \in 0 .. Len(p.names)
  <2>1. p \in Paths /\ Len(p.names) \in Nat /\ Len(p.names) >= 1
    BY ParentTyped, PathFields
  <2> QED
    BY <2>1
<1> HIDE DEF M, f
<1>6. TrailOf(w, M, p)[Len(p.names) - 1] = TrailOf(v, N, p)[Len(p.names) - 1]
  BY <1>1, <1>3, <1>4, <1>5, SameDirs
<1>7. ASSUME NEW D \in Dirs(M), D.path = TrailOf(w, M, p)[Len(p.names) - 1], NEW n \in N, n \notin M
      PROVE  n.path = Append(D.path, Leaf(p)) /\ ~n.entry.dir
  <2>1. D \in Dirs(N) /\ D.path = TrailOf(v, N, p)[Len(p.names) - 1]
    BY <1>3, <1>6, <1>7
  <2>2. LeafIs(N, D, p, f)
    BY <1>4, <2>1, LeafOfPath DEF f
  <2>3. PICK m \in N : m.path = Append(D.path, Leaf(p)) /\ m.entry = f.entry
    BY <1>1, <2>2 DEF LeafIs
  <2>4. m = y
    BY <1>1, <2>3, OneNode
  <2>5. n = y
    BY <1>7 DEF M
  <2> QED
    BY <1>1, <2>3, <2>4, <2>5
<1>8. M \in SUBSET N
  BY DEF M
<1>9. FileGone(v, N, p, w, M)
  BY <1>1, <1>3, <1>7, <1>8 DEF FileGone
<1> QED
  BY <1>9 DEF M

LEMMA WriteFileYields ==
    ASSUME NEW v, Typed(v), NEW N, NEW R, Intact(v, N, R), NEW p \in NewPaths, NEW x \in Contents
    PROVE  Typed(WriteFile(v, p, x).vol) /\ Yields(TreeOf(v, N), WriteFile(v, p, x).vol)
<1> DEFINE r == WriteFile(v, p, x)
<1>1. WriteOutcome(v, N, p, x, r) /\ Typed(r.vol)
  BY WriteFileIs, WriteFileTyped
<1> HIDE DEF r
<1>2. CASE Kept(v, N, r.vol)
  BY <1>1, <1>2, KeptYields DEF r
<1>3. CASE \E D : AtParent(v, N, p, D) /\ WroteInto(v, N, D, Leaf(p), x, r)
  <2>1. FileGone(v, N, p, v, N)
    BY DEF FileGone, FilesKeep
  <2>2. \A w : Kept(v, N, w) => Yields(TreeOf(v, N), w)
    BY KeptYields
  <2>3. Yields(TreeOf(v, N), r.vol)
    BY <1>3, <2>1, <2>2, WroteInYields
  <2> QED
    BY <1>1, <2>3 DEF r
<1>4. CASE \E w, y : Replaced(v, N, p, w, y) /\ ((~r.ok /\ r.vol = w) \/ WroteIn(w, N \ {y}, p, x, r))
  <2>1. PICK w, y : Replaced(v, N, p, w, y) /\ ((~r.ok /\ r.vol = w) \/ WroteIn(w, N \ {y}, p, x, r))
    BY <1>4
  <2> DEFINE M == N \ {y}
  <2>2. y \in N /\ y # Top /\ ~y.entry.dir /\ FilesKeep(v, w, M)
    BY <2>1 DEF Replaced
  <2>3. ASSUME NEW z, Kept(w, M, z)
        PROVE  Yields(TreeOf(v, N), z)
    <3>1. PICK Q : Intact(z, M, Q) /\ FilesKeep(w, z, M)
      BY <2>3 DEF Kept
    <3>2. FilesKeep(v, z, M)
      BY <2>2, <3>1 DEF FilesKeep
    <3> QED
      BY <2>2, <3>1, <3>2, ShrunkYields
  <2>4. FileGone(v, N, p, w, M)
    BY <2>1, ReplacedIsGone
  <2>5. Kept(w, M, w)
    <3>1. PICK Q : Intact(w, M, Q)
      BY <2>1 DEF Replaced
    <3> QED
      BY <3>1 DEF Kept, FilesKeep
  <2>6. \/ Kept(w, M, r.vol)
        \/ \E D : AtParent(w, M, p, D) /\ WroteInto(w, M, D, Leaf(p), x, r)
    BY <2>1, <2>5 DEF WroteIn
  <2> HIDE DEF M
  <2>7. Yields(TreeOf(v, N), r.vol)
    <3>1. CASE Kept(w, M, r.vol)
      BY <2>3, <3>1
    <3>2. CASE \E D : AtParent(w, M, p, D) /\ WroteInto(w, M, D, Leaf(p), x, r)
      BY <2>3, <2>4, <3>2, WroteInYields
    <3> QED
      BY <2>6, <3>1, <3>2
  <2> QED
    BY <1>1, <2>7 DEF r
<1> QED
  BY <1>1, <1>2, <1>3, <1>4 DEF WriteOutcome, WroteIn

LEMMA DeleteFileYields ==
    ASSUME NEW v, Typed(v), NEW N, NEW R, Intact(v, N, R), NEW p \in Paths
    PROVE  Typed(DeleteFile(v, p).vol) /\ Yields(TreeOf(v, N), DeleteFile(v, p).vol)
<1> DEFINE w == DeleteFile(v, p).vol
<1>1. DeleteOutcome(v, N, EntryFromPath(v, p), w)
  BY DeleteFileIs
<1>2. Typed(w)
  BY DeleteFileTyped DEF AnswerTyped
<1> HIDE DEF w
<1>3. CASE Kept(v, N, w)
  BY <1>2, <1>3, KeptYields DEF w
<1>4. CASE \E y : Deleted(v, N, w, y)
  <2>1. PICK y : Deleted(v, N, w, y)
    BY <1>4
  <2>2. CASE \E Q : Intact(w, N \ {y}, Q)
    <3>1. PICK Q : Intact(w, N \ {y}, Q)
      BY <2>2
    <3>2. /\ y \in N /\ y # Top /\ FilesKeep(v, w, N \ {y})
          /\ y.entry.dir => \A n \in N : n = y \/ Front(n.path) # y.path
      BY <2>1 DEF Deleted
    <3>3. Yields(TreeOf(v, N), w)
      BY <3>1, <3>2, ShrunkYields
    <3> QED
      BY <1>2, <3>3 DEF w
  <2>3. CASE Fallen(w)
    BY <1>2, <2>3 DEF Yields, w
  <2> QED
    BY <2>1, <2>2, <2>3 DEF Deleted
<1>5. CASE Fallen(w)
  BY <1>2, <1>5 DEF Yields, w
<1> QED
  BY <1>1, <1>3, <1>4, <1>5 DEF DeleteOutcome

\* What a call makes of a sound volume.
LEMMA CallYields ==
    ASSUME Typed(vol), Sound(vol, NodesOf(vol)), Call
    PROVE  \E w : Typed(w) /\ Yields(TreeOf(vol, NodesOf(vol)), w) /\ Becomes(w)
<1> DEFINE N == NodesOf(vol)
           Done == \E w : Typed(w) /\ Yields(TreeOf(vol, N), w) /\ Becomes(w)
<1>1. PICK R : Intact(vol, N, R)
  BY SoundIsIntact
<1> SUFFICES Done
  OBVIOUS
<1> HIDE DEF N
<1>2. ASSUME NEW p \in NewPaths, mkdir(p)
      PROVE  Done
  BY <1>1, <1>2, MkDirYields DEF mkdir
<1>3. ASSUME NEW p \in NewPaths, NEW x \in Contents, writefile(p, x)
      PROVE  Done
  BY <1>1, <1>3, WriteFileYields DEF writefile
<1>4. ASSUME NEW p \in Paths, cd(p)
      PROVE  Done
  <2>1. Kept(vol, N, Cd(vol, p).vol) /\ Typed(Cd(vol, p).vol)
    BY <1>1, CdIs, CdTyped DEF AnswerTyped
  <2>2. Yields(TreeOf(vol, N), Cd(vol, p).vol)
    BY <1>1, <2>1, KeptYields
  <2> QED
    BY <2>1, <2>2, <1>4 DEF cd
<1>5. ASSUME NEW p \in Paths, deletefile(p)
      PROVE  Done
  BY <1>1, <1>5, DeleteFileYields DEF deletefile
<1>6. ASSUME mount
      PROVE  Done
  <2>1. Kept(vol, N, Mounted(vol)) /\ Typed(Mounted(vol))
    BY <1>1, MountedIs, MountedTyped
  <2>2. Yields(TreeOf(vol, N), Mounted(vol))
    BY <1>1, <2>1, KeptYields
  <2> QED
    BY <2>1, <2>2, <1>6 DEF mount
<1> QED
  BY <1>2, <1>3, <1>4, <1>5, <1>6 DEF Call

------------------------------------------------------------------------
(* No sequence of calls makes a volume unsound.                            *)

\* A volume that is in order shows its tree.
LEMMA IntactShows ==
    ASSUME NEW w, Typed(w), NEW M, NEW Q, Intact(w, M, Q)
    PROVE  ShownBy(Forget(w)) = TreeOf(w, M) /\ TreeOf(w, M) # Tree!Broken
<1> DEFINE f == Forget(w)
<1>1. Typed(f)
  BY ForgetTyped
<1>2. Intact(f, M, Q) /\ TreeOf(f, M) = TreeOf(w, M)
  BY ForgetIntact
<1> HIDE DEF f
<1>3. Sound(f, NodesOf(f)) /\ NodesOf(f) = M
  BY <1>1, <1>2, IntactIsSound
<1>4. ShownBy(f) = TreeOf(w, M)
  BY <1>2, <1>3 DEF ShownBy, ShownAs
<1>5. PathsApart(M) /\ Top \in M
  BY DEF Intact, Laid, PathsApart
<1>6. TreeOf(w, M)[Top.path] = "dir"
  <2>1. TreeOf(w, M)[Top.path] = Shows(w, Top)
    BY <1>5, TreeOfNodes
  <2> QED
    BY <2>1 DEF Shows, Top, RootEntry, Entry
<1>7. Tree!Broken[Top.path] = "broken"
  BY DEF Tree!Broken, Top
<1> QED
  BY <1>4, <1>6, <1>7 DEF f

LEMMA AlwaysShown == Spec => []Shown
<1>1. Init => Shown
  BY CreatedIsSound DEF Init, Shown
<1>2. Shown /\ [Next]_fatfsVars => Shown'
  <2> SUFFICES ASSUME Shown, [Next]_fatfsVars
               PROVE  Shown'
    OBVIOUS
  <2>1. ASSUME NEW new, BecomesExactly(new)
        PROVE  Shown'
    <3>1. CASE new = vol
      BY <2>1, <3>1 DEF BecomesExactly, Shown
    <3>2. CASE new # vol
      BY <2>1, <3>2 DEF BecomesExactly, Shown, ShownBy, ShownAs
    <3> QED
      BY <3>1, <3>2
  <2>2. CASE Next
    BY <2>1, <2>2 DEF Next, Call, mkdir, cd, writefile, deletefile, mount, Becomes
  <2>3. CASE UNCHANGED fatfsVars
    BY <2>3 DEF fatfsVars, Shown
  <2> QED
    BY <2>2, <2>3
<1> QED
  BY <1>1, <1>2, PTL DEF Spec

\* What a call makes of the tree: a step of it, or nothing that can be shown, of
\* a volume that has met one of the three excuses.
LEMMA CallMoves ==
    ASSUME Typed(vol), Shown, Next
    PROVE  \/ tree' # Tree!Broken /\ Moves(tree, tree')
           \/ tree' = Tree!Broken /\ Excused(vol')
<1>1. tree # Tree!Broken /\ Call /\ Sound(vol, NodesOf(vol)) /\ tree = TreeOf(vol, NodesOf(vol))
  BY DEF Next, Shown
<1>2. PICK w : Typed(w) /\ Yields(tree, w) /\ Becomes(w)
  BY <1>1, CallYields
<1> DEFINE new == Forget(w)
<1>3. vol' = new /\ tree' = IF new = vol THEN tree ELSE ShownBy(new)
  BY <1>2 DEF Becomes, BecomesExactly
<1>4. CASE new = vol
  BY <1>1, <1>3, <1>4 DEF Moves
<1>5. CASE new # vol /\ \E M, Q : Intact(w, M, Q) /\ Moves(tree, TreeOf(w, M))
  <2>1. PICK M, Q : Intact(w, M, Q) /\ Moves(tree, TreeOf(w, M))
    BY <1>5
  <2>2. ShownBy(new) = TreeOf(w, M) /\ TreeOf(w, M) # Tree!Broken
    BY <1>2, <2>1, IntactShows
  <2> QED
    BY <1>3, <1>5, <2>1, <2>2
<1>6. CASE new # vol /\ Fallen(w)
  <2>1. ~Sound(new, NodesOf(new)) /\ Excused(new)
    BY <1>2, <1>6, SoundIsUnharmed DEF Fallen
  <2>2. ShownBy(new) = Tree!Broken
    BY <2>1 DEF ShownBy, ShownAs
  <2> QED
    BY <1>3, <1>6, <2>1, <2>2
<1> QED
  BY <1>2, <1>4, <1>5, <1>6 DEF Yields

\* No sequence of calls makes a volume unsound, unless it was extended from the
\* last cluster, found full, or a directory in use was freed: chains of files and
\* directories stay separate, end, and are as long as the sizes say, and every
\* directory keeps to its clusters, its references and its end mark.
THEOREM NoCallBreaksTheVolume == Spec => []SoundUnlessExcused
<1>1. Init => SoundUnlessExcused
  <2> SUFFICES ASSUME Init
               PROVE  tree # Tree!Broken
    BY DEF SoundUnlessExcused
  <2>1. Tree!Empty[<<>>] = "dir" /\ Tree!Broken[<<>>] = "broken"
    BY DEF Tree!Empty, Tree!Broken
  <2> QED
    BY <2>1 DEF Init
<1>2. Typed(vol) /\ Shown /\ SoundUnlessExcused /\ [Next]_fatfsVars => SoundUnlessExcused'
  <2> SUFFICES ASSUME Typed(vol), Shown, SoundUnlessExcused, [Next]_fatfsVars
               PROVE  SoundUnlessExcused'
    OBVIOUS
  <2>1. CASE Next
    BY <2>1, CallMoves DEF SoundUnlessExcused
  <2>2. CASE UNCHANGED fatfsVars
    BY <2>2 DEF fatfsVars, SoundUnlessExcused
  <2> QED
    BY <2>1, <2>2
<1> QED
  BY <1>1, <1>2, AlwaysTyped, AlwaysShown, PTL DEF Spec

\* Moves are steps of the tree.
LEMMA MovesAreSteps ==
    ASSUME NEW v, NEW N, PathsApart(N), tree = TreeOf(v, N), Moves(tree, tree')
    PROVE  [Tree!Next]_tree
<1>1. Tree!IsDir(<<>>)
  <2>1. Top \in N /\ Top.path = <<>> /\ Top.entry.dir
    BY DEF PathsApart, Top, RootEntry, Entry
  <2>2. ShownIn(v, N, tree)
    BY TreeShows
  <2> QED
    BY <2>1, <2>2 DEF ShownIn, Tree!IsDir
<1>2. CASE \E p \in DOMAIN tree, n \in Names :
              /\ IsDirAt(tree, p)
              /\ \/ Append(p, n) \notin DOMAIN tree /\ Grafted(tree, tree', Append(p, n), "dir")
                 \/ /\ ~IsDirAt(tree, Append(p, n))
                    /\ \E x \in Contents : Grafted(tree, tree', Append(p, n), x)
  <2>1. PICK p \in DOMAIN tree, n \in Names :
              /\ IsDirAt(tree, p)
              /\ \/ Append(p, n) \notin DOMAIN tree /\ Grafted(tree, tree', Append(p, n), "dir")
                 \/ /\ ~IsDirAt(tree, Append(p, n))
                    /\ \E x \in Contents : Grafted(tree, tree', Append(p, n), x)
    BY <1>2
  <2>2. CASE Append(p, n) \notin DOMAIN tree /\ Grafted(tree, tree', Append(p, n), "dir")
    <3>1. Tree!MakeDir(p, n)
      BY <2>1, <2>2 DEF Tree!MakeDir, Tree!IsDir, Tree!With, IsDirAt, Grafted
    <3> QED
      BY <1>1, <3>1 DEF Tree!Next
  <2>3. ASSUME ~IsDirAt(tree, Append(p, n)), NEW x \in Contents, Grafted(tree, tree', Append(p, n), x)
        PROVE  Tree!Next
    <3>1. Tree!WriteFile(p, n, x)
      BY <2>1, <2>3 DEF Tree!WriteFile, Tree!IsDir, Tree!With, IsDirAt, Grafted
    <3> QED
      BY <1>1, <3>1 DEF Tree!Next
  <2> QED
    BY <2>1, <2>2, <2>3
<1>3. CASE \E p \in DOMAIN tree :
              /\ p # <<>> /\ (tree[p] # "dir" \/ \A n \in Names : Append(p, n) \notin DOMAIN tree)
              /\ Pruned(tree, tree', p)
  <2>1. PICK p \in DOMAIN tree :
              /\ p # <<>> /\ (tree[p] # "dir" \/ \A n \in Names : Append(p, n) \notin DOMAIN tree)
              /\ Pruned(tree, tree', p)
    BY <1>3
  <2>2. Tree!Remove(p)
    BY <2>1 DEF Tree!Remove, Tree!IsDir, Tree!IsFile, Tree!IsLeaf, Pruned
  <2> QED
    BY <1>1, <2>2 DEF Tree!Next
<1> QED
  BY <1>2, <1>3 DEF Moves

\* The calls implement the tree: each makes a directory, writes one file, removes
\* a file or an empty directory, or leaves all files and directories as they are,
\* and every other file reads back as it did; only what SoundUnlessExcused excuses
\* is a Break.
THEOREM CallsImplementTheTree == Spec => ImplementsFileTree
<1>1. Init => Tree!Init
  BY DEF Init, Tree!Init
<1>2. Typed(vol) /\ Shown /\ [Next]_fatfsVars => [Tree!Next]_tree
  <2> SUFFICES ASSUME Typed(vol), Shown, [Next]_fatfsVars
               PROVE  [Tree!Next]_tree
    OBVIOUS
  <2>1. CASE Next
    <3>1. Sound(vol, NodesOf(vol)) /\ tree = TreeOf(vol, NodesOf(vol))
      BY <2>1 DEF Next, Shown
    <3>2. PathsApart(NodesOf(vol))
      BY <3>1, SoundIsIntact DEF Intact, Laid
    <3>3. CASE Moves(tree, tree')
      BY <3>1, <3>2, <3>3, MovesAreSteps
    <3>4. CASE tree' = Tree!Broken
      <4>1. Tree!IsDir(<<>>)
        <5>1. ShownIn(vol, NodesOf(vol), tree)
          BY <3>1, <3>2, TreeShows
        <5>2. Top \in NodesOf(vol) /\ Top.path = <<>> /\ Top.entry.dir
          BY <3>2 DEF PathsApart, Top, RootEntry, Entry
        <5> QED
          BY <5>1, <5>2 DEF ShownIn, Tree!IsDir
      <4> QED
        BY <3>4, <4>1 DEF Tree!Next, Tree!Break
    <3> QED
      BY <2>1, <3>3, <3>4, CallMoves
  <2>2. CASE UNCHANGED fatfsVars
    BY <2>2 DEF fatfsVars
  <2> QED
    BY <2>1, <2>2
<1> QED
  BY <1>1, <1>2, AlwaysTyped, AlwaysShown, PTL DEF Spec, ImplementsFileTree, Tree!Spec

------------------------------------------------------------------------
(* What the calls answer is so.                                            *)

\* What p leads to is the node y.
LeadsTo(z, p, y) == EntryFromPath(z, p).found /\ EntryFromPath(z, p).entry = y.entry

LEMMA NewLeaf ==
    ASSUME NEW z, Typed(z), NEW M, NEW Q, Intact(z, M, Q), NEW p \in NewPaths, NEW D \in Dirs(M),
           D.path = TrailOf(z, M, p)[Len(p.names) - 1], NEW y \in M, y.path = Append(D.path, Leaf(p))
    PROVE  LeadsTo(z, p, y)
<1> DEFINE f == EntryFromPath(z, p)
<1>1. Laid(z, M, Q) /\ Stands(z, M) /\ PathsApart(M)
  BY DEF Intact, Laid
<1>2. LeafIs(M, D, p, f)
  BY <1>1, LeafOfPath
<1> HIDE DEF f
<1>3. f.found
  BY <1>2 DEF LeafIs
<1>4. PICK m \in M : m.path = Append(D.path, Leaf(p)) /\ m.entry = f.entry
  BY <1>2, <1>3 DEF LeafIs
<1>5. m = y
  BY <1>1, <1>4 DEF PathsApart
<1> QED
  BY <1>3, <1>4, <1>5 DEF LeadsTo, f

\* A path to a directory of t leads there in u too, which has all directories of t.
LEMMA LongerTrail ==
    ASSUME NEW t, NEW u, \A at : IsDirAt(t, at) => IsDirAt(u, at), ~IsDirAt(t, Nowhere),
           NEW cwd \in Seq(Names), NEW p \in Paths, NEW i \in 0 .. Len(p.names),
           IsDirAt(t, TreeTrail(t, cwd, p)[i])
    PROVE  TreeTrail(u, cwd, p)[i] = TreeTrail(t, cwd, p)[i]
<1> DEFINE L == Len(p.names)
           T(k) == TreeTrail(t, cwd, p)[k]
           U(k) == TreeTrail(u, cwd, p)[k]
           S == {k \in 0 .. L : IsDirAt(t, T(k)) => U(k) = T(k)}
<1>1. L \in Nat /\ 0 \in Nat
  BY PathFields
<1>2. 0 \in S
  BY <1>1, TreeTrailIs
<1>3. \A k \in 0 + 1 .. L : k - 1 \in S => k \in S
  <2> SUFFICES ASSUME NEW k \in 1 .. L, k - 1 \in S, IsDirAt(t, T(k))
               PROVE  U(k) = T(k)
    BY <1>1
  <2>1. T(k) = StepInTree(t, T(k - 1), p.names[k]) /\ U(k) = StepInTree(u, U(k - 1), p.names[k])
    BY TreeTrailIs
  <2>2. IsDirAt(t, T(k - 1)) => U(k - 1) = T(k - 1)
    OBVIOUS
  <2> HIDE DEF T, U
  <2>3. IsDirAt(t, T(k - 1))
    <3>1. CASE ~IsDirAt(t, T(k - 1))
      <4>1. T(k) = Nowhere
        BY <2>1, <3>1 DEF StepInTree, IsDirAt
      <4> QED
        BY <4>1
    <3> QED
      BY <3>1
  <2>4. IsDirAt(u, T(k - 1)) /\ U(k - 1) = T(k - 1)
    BY <2>2, <2>3
  <2> QED
    BY <2>1, <2>3, <2>4 DEF StepInTree, IsDirAt
<1> HIDE DEF S, L
<1>4. 0 .. L \subseteq S
  BY <1>1, <1>2, <1>3, UpTo
<1> QED
  BY <1>4 DEF S, L

LEMMA NowhereIsNoDir ==
    ASSUME NEW v, Typed(v), NEW N, NEW R, Laid(v, N, R)
    PROVE  ~IsDirAt(TreeOf(v, N), Nowhere)
<1>1. NodesOf(v) = N
  BY LaidNodes
<1>2. \A d \in Dirs(N) : d.path # Nowhere
  BY <1>1, NowhereIsNoNode DEF Dirs
<1> QED
  BY <1>2, DirsInTree

\* The current directory is the same node.
LEMMA SameHere ==
    ASSUME NEW v, Typed(v), NEW N, NEW R, Intact(v, N, R), NEW w, Typed(w), NEW M, NEW Q, Intact(w, M, Q),
           w.cwd = v.cwd, \/ Dirs(N) \subseteq Dirs(M)
                          \/ Dirs(M) \subseteq Dirs(N)
    PROVE  Here(w) = Here(v) /\ Here(v).path \in Seq(Names)
<1>1. Laid(v, N, R) /\ Stands(v, N) /\ Laid(w, M, Q) /\ Stands(w, M)
  BY DEF Intact
<1>2. Here(v) \in Dirs(N) /\ Here(v).entry.cluster = v.cwd /\ Here(v).path \in Seq(Names)
  BY <1>1, LaidIsNavigable
<1>3. Here(w) \in Dirs(M) /\ Here(w).entry.cluster = w.cwd
  BY <1>1, LaidIsNavigable
<1>4. CASE Dirs(N) \subseteq Dirs(M)
  <2>1. Here(v) \in Dirs(M)
    BY <1>2, <1>4
  <2> QED
    BY <1>1, <1>2, <1>3, <2>1, OneDir
<1>5. CASE Dirs(M) \subseteq Dirs(N)
  <2>1. Here(w) \in Dirs(N)
    BY <1>3, <1>5
  <2> QED
    BY <1>1, <1>2, <1>3, <2>1, OneDir
<1> QED
  BY <1>4, <1>5

\* A directory that was made is found, entered and listed.
LEMMA MkDirTells ==
    ASSUME NEW v, Typed(v), NEW N, NEW R, Intact(v, N, R), NEW p \in NewPaths
    PROVE  MkDirIsTrue(p, MkDir(v, p))
<1> DEFINE r == MkDir(v, p)
           w == r.vol
<1>1. MkDirOutcome(v, N, p, r)
  BY MkDirIs
<1> SUFFICES ASSUME r.ok
             PROVE  (GetType(w, p) = "dir" /\ Cd(w, p).ok /\ Dir(w, p)) \/ MetTheEnd(w)
  BY DEF MkDirIsTrue
<1>2. /\ Typed(w)
      /\ MetTheEnd(w) \/ \E D, y : Made(v, N, p, w, D, y)
  BY <1>1 DEF MkDirOutcome, Ended
<1> HIDE DEF r, w
<1>3. ASSUME NEW D, NEW y, Made(v, N, p, w, D, y)
      PROVE  GetType(w, p) = "dir" /\ Cd(w, p).ok /\ Dir(w, p)
  <2> DEFINE M == N \cup {y}
             t == TreeOf(v, N)
             u == TreeOf(w, M)
             k == Len(p.names) - 1
  <2>1. /\ D \in Dirs(N) /\ D.path = TreeTrail(t, Here(v).path, p)[k]
        /\ y.path = Append(D.path, Leaf(p)) /\ y.entry.dir /\ w.cwd = v.cwd
    BY <1>3 DEF Made, AtParent
  <2>2. PICK P : Intact(w, M, P)
    BY <1>3 DEF Made
  <2>3. Laid(v, N, R) /\ Laid(w, M, P) /\ PathsApart(M)
    BY <2>2 DEF Intact, Laid
  <2>4. Dirs(N) \subseteq Dirs(M) /\ y \in Dirs(M) /\ D \in Dirs(M) /\ y \in M
    BY <2>1 DEF Dirs
  <2>5. p \in Paths /\ k \in 0 .. Len(p.names) /\ Leaf(p) \in Names
    <3>1. p \in Paths /\ Len(p.names) \in Nat /\ Len(p.names) >= 1
      BY ParentTyped, PathFields
    <3> QED
      BY <3>1 DEF NewPaths
  <2> HIDE DEF M, k
  <2>6. Here(w) = Here(v) /\ Here(v).path \in Seq(Names)
    BY <1>2, <2>1, <2>2, <2>4, SameHere
  <2>7. \A at : IsDirAt(t, at) => IsDirAt(u, at)
    BY <1>2, <2>3, <2>4, DirsInTree
  <2>8. IsDirAt(t, D.path) /\ ~IsDirAt(t, Nowhere)
    BY <2>1, <2>3, DirsInTree, NowhereIsNoDir
  <2> HIDE DEF t, u
  <2>9. TreeTrail(u, Here(v).path, p)[k] = D.path
    BY <2>1, <2>5, <2>6, <2>7, <2>8, LongerTrail
  <2>10. D.path = TrailOf(w, M, p)[Len(p.names) - 1]
    BY <2>6, <2>9 DEF TrailOf, u, k
  <2>11. LeadsTo(w, p, y)
    BY <1>2, <2>1, <2>2, <2>4, <2>10, NewLeaf
  <2> DEFINE f == EntryFromPath(w, p)
  <2>12. f.found /\ f.entry = y.entry
    BY <2>11 DEF LeadsTo
  <2>13. Entries(w, y.entry.cluster) # {}
    <3>1. PICK up : Neat(w, y, up, P[y])
      BY <2>3, <2>4 DEF Laid, Orderly
    <3>2. y # Top
      <4>1. D.path \in Seq(Names)
        BY <2>3, <2>4, PathFacts, NodeFields DEF Dirs
      <4> QED
        BY <4>1, <2>1, <2>5, FrontOfAppend DEF Top
    <3>3. IsRun(w.table, P[y]) /\ At(w, <<P[y][1], 1>>).kind = "entry"
      BY <3>1, <3>2 DEF Neat, Entry
    <3>4. <<P[y][1], 1>> \in EntrySpots(w, P[y])
      BY <3>3, FirstSpots DEF EntrySpots
    <3>5. Entries(w, y.entry.cluster) = EntrySpots(w, P[y])
      BY <1>2, <3>1, NeatListing
    <3> QED
      BY <3>4, <3>5
  <2> HIDE DEF f
  <2>14. TypeOf(f) = "dir" /\ IsDirectory(f) /\ ListOf(w, f)
    BY <2>1, <2>12, <2>13 DEF TypeOf, IsDirectory, ListOf
  <2>15. CdTo(w, f).ok
    BY <2>14 DEF CdTo, Answer
  <2> QED
    BY <2>14, <2>15 DEF GetType, Cd, Dir, f
<1> QED
  BY <1>2, <1>3

\* A file that was written has its size and reads back.
ReadsBack(z, p, x) ==
    /\ ReadFile(z, p) = [ok |-> TRUE, data |-> Whole(x)] /\ GetFileSize(z, p) = Length[x]

LEMMA AddedReadsBack ==
    ASSUME NEW v, Typed(v), NEW N, NEW R, Intact(v, N, R), NEW p \in NewPaths, NEW x \in Contents,
           NEW D, AtParent(v, N, p, D), NEW w, Typed(w), FileAdded(v, N, w, D, Leaf(p), x)
    PROVE  ReadsBack(w, p, x)
<1>1. PICK y : /\ y.path = Append(D.path, Leaf(p)) /\ ~y.entry.dir /\ y.entry.size = Length[x]
               /\ \E P : Intact(w, N \cup {y}, P)
               /\ FileRead(w, y.entry.cluster, Length[x]) = [ok |-> TRUE, data |-> Whole(x)]
               /\ w.cwd = v.cwd
  BY DEF FileAdded
<1> DEFINE M == N \cup {y}
<1>2. PICK P : Intact(w, M, P)
  BY <1>1
<1>3. Dirs(M) = Dirs(N) /\ y \in M
  BY <1>1 DEF Dirs
<1>4. Laid(v, N, R) /\ Stands(v, N) /\ Laid(w, M, P)
  BY <1>2 DEF Intact
<1>5. p \in Paths /\ Len(p.names) - 1 \in 0 .. Len(p.names)
  <2>1. p \in Paths /\ Len(p.names) \in Nat /\ Len(p.names) >= 1
    BY ParentTyped, PathFields
  <2> QED
    BY <2>1
<1> HIDE DEF M
<1>6. TrailOf(w, M, p)[Len(p.names) - 1] = TrailOf(v, N, p)[Len(p.names) - 1]
  BY <1>1, <1>3, <1>4, <1>5, SameDirs
<1>7. D \in Dirs(M) /\ D.path = TrailOf(w, M, p)[Len(p.names) - 1]
  BY <1>3, <1>6 DEF AtParent, TrailOf
<1>8. LeadsTo(w, p, y)
  BY <1>1, <1>2, <1>3, <1>7, NewLeaf
<1> DEFINE f == EntryFromPath(w, p)
<1>9. f.found /\ f.entry = y.entry
  BY <1>8 DEF LeadsTo
<1> HIDE DEF f
<1>10. TypeOf(f) = "file"
  BY <1>1, <1>9 DEF TypeOf
<1>11. GetFileSize(w, p) = Length[x]
  BY <1>1, <1>9, <1>10 DEF GetFileSize, GetType, f
<1>12. ReadFile(w, p) = [ok |-> TRUE, data |-> Whole(x)]
  <2>1. Readable(f).ok /\ Readable(f).cluster = y.entry.cluster /\ Readable(f).size = Length[x]
    BY <1>1, <1>9 DEF Readable
  <2>2. ReadOpened(w, Readable(f)) = [ok |-> TRUE, data |-> Whole(x)]
    BY <1>1, <2>1 DEF ReadOpened
  <2> QED
    BY <2>2 DEF ReadFile, FileOpenForRead, f
<1> QED
  BY <1>11, <1>12 DEF ReadsBack

LEMMA WriteFileTells ==
    ASSUME NEW v, Typed(v), NEW N, NEW R, Intact(v, N, R), NEW p \in NewPaths, NEW x \in Contents
    PROVE  WriteFileIsTrue(p, x, WriteFile(v, p, x))
<1> DEFINE r == WriteFile(v, p, x)
<1>1. WriteOutcome(v, N, p, x, r) /\ Typed(r.vol)
  BY WriteFileIs, WriteFileTyped
<1> SUFFICES ASSUME r.ok
             PROVE  ReadsBack(r.vol, p, x) \/ MetTheEnd(r.vol)
  BY DEF WriteFileIsTrue, ReadsBack
<1> HIDE DEF r
<1>2. ASSUME NEW u, Typed(u), NEW M, NEW Q, Intact(u, M, Q), WroteIn(u, M, p, x, r)
      PROVE  ReadsBack(r.vol, p, x) \/ MetTheEnd(r.vol)
  <2>1. PICK D : AtParent(u, M, p, D) /\ WroteInto(u, M, D, Leaf(p), x, r)
    BY <1>2 DEF WroteIn
  <2>2. MetTheEnd(r.vol) \/ FileAdded(u, M, r.vol, D, Leaf(p), x)
    BY <2>1 DEF WroteInto, Ended
  <2> QED
    BY <1>1, <1>2, <2>1, <2>2, AddedReadsBack
<1>3. CASE WroteIn(v, N, p, x, r)
  BY <1>2, <1>3
<1>4. CASE \E w, y : Replaced(v, N, p, w, y) /\ WroteIn(w, N \ {y}, p, x, r)
  <2>1. PICK w, y : Replaced(v, N, p, w, y) /\ WroteIn(w, N \ {y}, p, x, r)
    BY <1>4
  <2>2. Typed(w) /\ \E Q : Intact(w, N \ {y}, Q)
    BY <2>1 DEF Replaced
  <2> QED
    BY <1>2, <2>1, <2>2
<1> QED
  BY <1>1, <1>3, <1>4 DEF WriteOutcome

\* A directory whose first cluster is free is walked to the end of that cluster and
\* on through the root directory.
LEMMA WalkFromFree ==
    ASSUME NEW z, Typed(z), NEW c \in Cluster, z.table[c] = FREE
    PROVE  \A i \in DOMAIN Slots(z, c) : Slots(z, c)[i][1] \in {c, ROOT}
<1> DEFINE Z(k) == Walk(z, c)[k]
           Stays(s) == s \in Walks /\ \A i \in DOMAIN s : s[i][1] \in {c, ROOT}
           S == {k \in Nat : Stays(Z(k))}
<1>1. /\ c \in Table!Entry /\ Area(c) = c /\ c \in Areas /\ ROOT \in Areas /\ Area(FREE) = ROOT
      /\ FREE # EOF /\ PastEnd \in Nat /\ 0 \in Nat /\ 0 <= PastEnd
  BY Numbers DEF Area
<1>2. /\ Z(0) = AreaSlots(z, c) /\ \A k \in 1 .. PastEnd : Z(k) = Longer(z, Z(k - 1))
  BY <1>1, WalkIs
<1> HIDE DEF Z
<1>3. \A a \in {c, ROOT} : Stays(AreaSlots(z, a))
  <2> SUFFICES ASSUME NEW a \in {c, ROOT}
               PROVE  Stays(AreaSlots(z, a))
    OBVIOUS
  <2> DEFINE A == AreaSlots(z, a)
  <2>1. a \in Areas
    BY <1>1
  <2>2. A \in Walks /\ Len(A) = SlotsOf(a) /\ \A i \in 1 .. SlotsOf(a) : A[i] = <<a, i>>
    BY <2>1, AreaSlotsTyped
  <2> HIDE DEF A
  <2>3. DOMAIN A = 1 .. SlotsOf(a)
    BY <2>2 DEF Walks
  <2> QED
    BY <2>2, <2>3 DEF A
<1>4. ASSUME NEW so, Stays(so)
      PROVE  Stays(Longer(z, so))
  <2> DEFINE l == Last(so)
             B == AreaSlots(z, ROOT)
  <2>1. so \in Seq(Position) /\ Len(so) \in Nat /\ Len(so) \in DOMAIN so /\ l \in Position /\ l[1] \in {c, ROOT}
        /\ l[2] = SlotsOf(l[1]) /\ DOMAIN so = 1 .. Len(so)
    BY <1>4 DEF Walks, Last
  <2>2. CASE Ends(z, l)
    BY <2>2, <1>4 DEF Longer
  <2>3. CASE ~Ends(z, l)
    <3>1. l[1] = c /\ Area(z.table[l[1]]) = ROOT
      BY <2>1, <2>3, <1>1, EndsIs
    <3>2. Longer(z, so) = so \o B
      BY <3>1, <2>3 DEF Longer
    <3>3. Stays(B)
      BY <1>3
    <3>4. Longer(z, so) \in Walks
      BY <1>4, LongerTyped
    <3>5. B \in Seq(Position) /\ Len(B) \in Nat /\ DOMAIN B = 1 .. Len(B)
      BY <3>3 DEF Walks
    <3> HIDE DEF B, l
    <3>6. DOMAIN (so \o B) = 1 .. Len(so) + Len(B)
          /\ \A i \in 1 .. Len(so) + Len(B) : (so \o B)[i] = IF i <= Len(so) THEN so[i] ELSE B[i - Len(so)]
      BY <2>1, <3>5
    <3>7. \A i \in 1 .. Len(so) + Len(B) : (so \o B)[i][1] \in {c, ROOT}
      <4> TAKE i \in 1 .. Len(so) + Len(B)
      <4>1. CASE i <= Len(so)
        <5>1. i \in DOMAIN so /\ (so \o B)[i] = so[i]
          BY <4>1, <3>6, <2>1
        <5> QED
          BY <5>1, <1>4
      <4>2. CASE ~(i <= Len(so))
        <5>1. i - Len(so) \in DOMAIN B /\ (so \o B)[i] = B[i - Len(so)]
          BY <4>2, <3>5, <3>6, <2>1
        <5> QED
          BY <5>1, <3>3
      <4> QED
        BY <4>1, <4>2
    <3> QED
      BY <3>2, <3>4, <3>6, <3>7
  <2> QED
    BY <2>2, <2>3
<1> HIDE DEF Stays
<1>5. 0 \in S
  BY <1>1, <1>2, <1>3
<1>6. \A k \in 0 + 1 .. PastEnd : k - 1 \in S => k \in S
  BY <1>1, <1>2, <1>4
<1> HIDE DEF S
<1>7. 0 .. PastEnd \subseteq S
  BY <1>1, <1>5, <1>6, UpTo
<1>8. Stays(Z(PastEnd))
  <2>1. PastEnd \in 0 .. PastEnd
    BY <1>1
  <2> QED
    BY <2>1, <1>7 DEF S
<1> QED
  BY <1>8 DEF Stays, Slots, Z

\* Whatever both find under a name is the same.
Agrees(v, z, c, n, more) ==
    Lookup(v, c, n, more).found /\ Lookup(z, c, n, more).found => Lookup(z, c, n, more) = Lookup(v, c, n, more)
Finds(v, z, c) == \A n \in PathNames : Agrees(v, z, c, n, TRUE) /\ Agrees(v, z, c, n, FALSE)

LEMMA ShrunkAgrees ==
    ASSUME NEW v, NEW z, NEW c,
           \A n \in PathNames : Shrunk(v, z, c, n, TRUE) /\ Shrunk(v, z, c, n, FALSE)
    PROVE  Finds(v, z, c)
  BY DEF Finds, Agrees, Shrunk

\* In z slots have been freed.
Lessened(v, z) ==
    /\ Typed(z) /\ z.cwd = v.cwd
    /\ \A q \in Position : At(z, q) = At(v, q) \/ At(z, q) = Free

\* In a directory that was empty only its references are found when it is freed.
LEMMA FreedFinds ==
    ASSUME NEW v, Typed(v), NEW N, NEW R, Laid(v, N, R), NEW D \in Dirs(N), D # Top,
           NamedSpots(v, R[D]) = {}, NEW z, Lessened(v, z), z.table[D.entry.cluster] = FREE
    PROVE  Finds(v, z, D.entry.cluster)
<1> DEFINE c == D.entry.cluster
           r == R[D]
<1>1. PICK up : Neat(v, D, up, r)
  BY DEF Laid, Orderly
<1>2. /\ IsRun(v.table, r) /\ r[1] = c /\ c \in Cluster /\ c \in Table!Entry /\ c \in Areas
      /\ 1 \in 1 .. Len(r) /\ D.entry.cluster = c
  <2>1. D \in DOMAIN R /\ IsRun(v.table, r) /\ r[1] = c
    BY RunOfDir
  <2>2. c \in Cluster
    BY <2>1, RunOf
  <2>3. 1 \in 1 .. Len(r)
    BY <2>1, RunFields
  <2> QED
    BY <2>1, <2>2, <2>3, Numbers
<1>3. Top \in Dirs(N) /\ \A q \in Position : q[1] = ROOT => ~IsDot(At(v, q))
  <2>1. Top \in Dirs(N) /\ R[Top] = <<ROOT>>
    BY RunOfTop, PathFacts DEF Laid
  <2>2. PICK e : Neat(v, Top, e, R[Top])
    BY <2>1 DEF Laid, Orderly
  <2>3. \A q \in Position : q[1] = ROOT => q \in Spots(R[Top])
    BY <2>1 DEF Spots, SpotsTo
  <2> QED
    BY <2>1, <2>2, <2>3 DEF Neat
<1>4. /\ Typed(z) /\ Free.kind = "free"
      /\ \A q \in Position : At(z, q).kind = "entry" => At(z, q) = At(v, q)
  BY DEF Lessened, Free
<1>5. \A q \in SlotsIn(z, c) : q \in Position /\ q[1] \in {c, ROOT}
  <2> DEFINE t == Slots(z, c)
  <2>1. t \in Walks
    BY <1>2, <1>4, SlotsTyped
  <2>2. \A i \in DOMAIN t : t[i][1] \in {c, ROOT}
    BY <1>2, <1>4, WalkFromFree
  <2> HIDE DEF t
  <2>3. \A i \in 1 .. Len(t) : t[i] \in Position /\ t[i][1] \in {c, ROOT}
    BY <2>1, <2>2 DEF Walks
  <2> QED
    BY <2>3 DEF SlotsIn, t
<1>6. Entries(v, c) = EntrySpots(v, r)
  BY <1>1, NeatListing
<1>7. ASSUME NEW n \in PathNames, NEW more \in BOOLEAN
      PROVE  Agrees(v, z, c, n, more)
  <2>1. CASE n \in Names
    <3>1. ~Lookup(v, c, n, more).found
      <4> SUFFICES ASSUME Lookup(v, c, n, more).found
                   PROVE  FALSE
        OBVIOUS
      <4>1. PICK i : FoundIn(v, c, n, Lookup(v, c, n, more), i)
        BY <1>2, LookupFinds
      <4> DEFINE q == Slots(v, c)[i]
      <4>2. q \in Entries(v, c) /\ At(v, q).kind = "entry" /\ At(v, q).name = n
        BY <4>1 DEF FoundIn, Entries, EntriesOf
      <4> HIDE DEF q
      <4>3. ~IsDot(At(v, q))
        BY <4>2, <2>1, SlotsAssumption DEF IsDot
      <4> QED
        BY <4>2, <4>3, <1>6 DEF NamedSpots
    <3> QED
      BY <3>1 DEF Agrees
  <2>2. CASE n \notin Names
    <3> HIDE DEF c, r
    <3>1. \A q \in SlotsIn(z, c) : Hit(At(z, q), n, more) => q \in Spots(r) /\ At(z, q) = At(v, q)
      <4> SUFFICES ASSUME NEW q \in SlotsIn(z, c), Hit(At(z, q), n, more)
                   PROVE  q \in Spots(r) /\ At(z, q) = At(v, q)
        OBVIOUS
      <4>1. q \in Position /\ q[1] \in {c, ROOT} /\ At(z, q).kind = "entry" /\ At(z, q).name = n
        BY <1>5 DEF Hit
      <4>2. At(z, q) = At(v, q) /\ IsDot(At(v, q))
        BY <4>1, <1>4, <2>2 DEF IsDot, PathNames
      <4>3. q[1] = c
        BY <4>1, <4>2, <1>3
      <4>4. q \in Spots(r)
        BY <4>1, <4>3, <1>2 DEF Spots, SpotsTo
      <4> QED
        BY <4>2, <4>4
    <3>2. Shrunk(v, z, c, n, more)
      BY <3>1, <1>4, LookupWithin DEF c, r
    <3> QED
      BY <3>2 DEF Shrunk, Agrees
  <2> QED
    BY <2>1, <2>2
<1> HIDE DEF c
<1>8. Finds(v, z, c)
  BY <1>7 DEF Finds
<1> QED
  BY <1>8 DEF c

\* The other directories are as they were but for a freed slot.
LEMMA LessenedFinds ==
    ASSUME NEW v, Typed(v), NEW N, NEW R, Laid(v, N, R), NEW d \in Dirs(N), NEW z, Lessened(v, z),
           \A c \in Members(R[d]) : z.table[c] = v.table[c]
    PROVE  Finds(v, z, d.entry.cluster)
<1>1. Typed(z) /\ \A q \in Position : At(z, q).kind = "entry" => At(z, q) = At(v, q)
  BY DEF Lessened, Free
<1>2. ASSUME NEW n, NEW more \in BOOLEAN
      PROVE  Shrunk(v, z, d.entry.cluster, n, more)
  <2>1. \A q \in Spots(R[d]) : Hit(At(z, q), n, more) => At(z, q) = At(v, q)
    BY <1>1, SpotArea DEF Hit
  <2> QED
    BY <2>1, <1>1, LookupShrinks
<1>3. \A n : Shrunk(v, z, d.entry.cluster, n, TRUE) /\ Shrunk(v, z, d.entry.cluster, n, FALSE)
  BY <1>2
<1> QED
  BY <1>3, ShrunkAgrees

\* So whatever a path still leads to is what it has led to.
Retraces(v, z, p) ==
    EntryFromPath(v, p).found /\ EntryFromPath(z, p).found => EntryFromPath(z, p) = EntryFromPath(v, p)
LEMMA PathShrinks ==
    ASSUME NEW v, Typed(v), NEW N, NEW R, Laid(v, N, R), Stands(v, N), NEW z, Lessened(v, z),
           \A d \in Dirs(N) : Finds(v, z, d.entry.cluster), NEW p \in Paths, ~IsRoot(v, p)
    PROVE  Retraces(v, z, p)
<1> DEFINE L == Len(p.names)
           A(i) == Trail(v, p)[i]
           B(i) == Trail(z, p)[i]
           S == {i \in Nat : A(i).found /\ B(i).found => A(i) = B(i)}
<1>1. /\ L \in Nat /\ 0 \in Nat /\ L \in 0 .. L /\ Typed(z) /\ z.cwd = v.cwd
      /\ \A i \in 1 .. L : p.names[i] \in PathNames
  BY PathFields DEF PathNames, Lessened
<1>2. /\ A(0) = StartOf(v, p) /\ \A i \in 1 .. L : A(i) = Below(v, A(i - 1), p.names[i], i < L)
      /\ B(0) = StartOf(z, p) /\ \A i \in 1 .. L : B(i) = Below(z, B(i - 1), p.names[i], i < L)
  BY <1>1, TrailIs
<1>3. Navigable(v) /\ NodesOf(v) = N
  BY LaidIsNavigable
<1>4. 0 \in S
  <2>1. StartOf(v, p) = StartOf(z, p)
    BY <1>1 DEF StartOf
  <2> QED
    BY <2>1, <1>2
<1>5. \A i \in 0 + 1 .. L : i - 1 \in S => i \in S
  <2> SUFFICES ASSUME NEW i \in 1 .. L, i - 1 \in S, A(i).found, B(i).found
               PROVE  A(i) = B(i)
    BY <1>1
  <2> DEFINE more == i < L
             n == p.names[i]
  <2>1. i - 1 \in 0 .. L /\ (i - 1 < L \/ i - 1 = 0) = TRUE /\ more \in BOOLEAN /\ n \in PathNames
    BY <1>1
  <2>2. A(i) = Below(v, A(i - 1), n, more) /\ B(i) = Below(z, B(i - 1), n, more)
    BY <2>1, <1>2
  <2> HIDE DEF more, n
  <2> DEFINE g == A(i - 1)
             to == TreeTrail(TreeOf(v, NodesOf(v)), Here(v).path, p)[i - 1]
  <2>3. Leading(v, g, to, TRUE)
    <3>1. Leading(v, Trail(v, p)[i - 1], to, i - 1 < Len(p.names) \/ i - 1 = 0)
      BY <1>3, <2>1, TrailFollows
    <3> QED
      BY <3>1, <2>1
  <2> HIDE DEF to
  <2>4. A(i - 1).found /\ B(i - 1).found
    <3>1. Below(v, A(i - 1), n, more).found /\ Below(z, B(i - 1), n, more).found
      BY <2>2
    <3> HIDE DEF A, B
    <3> QED
      BY <3>1, NothingBelow
  <2>5. B(i - 1) = g
    BY <2>4
  <2> HIDE DEF A, B, g
  <2>6. g.found /\ A(i) = Below(v, g, n, more) /\ B(i) = Below(z, g, n, more)
    BY <2>2, <2>4, <2>5 DEF g
  <2>7. PICK m \in N : Fits(m, TRUE) /\ m.entry.cluster = g.entry.cluster
    BY <2>3, <2>6, <1>3 DEF Leading
  <2>8. m \in Dirs(N)
    BY <2>7 DEF Fits, Dirs
  <2>9. Agrees(v, z, m.entry.cluster, n, more)
    <3>1. Agrees(v, z, m.entry.cluster, n, TRUE) /\ Agrees(v, z, m.entry.cluster, n, FALSE)
      BY <2>1, <2>8 DEF Finds
    <3>2. more = TRUE \/ more = FALSE
      BY <2>1
    <3>3. CASE more = TRUE
      BY <3>1, <3>3
    <3>4. CASE more = FALSE
      BY <3>1, <3>4
    <3> QED
      BY <3>2, <3>3, <3>4
  <2>10. A(i) = Lookup(v, m.entry.cluster, n, more) /\ B(i) = Lookup(z, m.entry.cluster, n, more)
    BY <2>6, <2>7 DEF Below
  <2> QED
    BY <2>9, <2>10 DEF Agrees
<1> HIDE DEF S, L
<1>6. 0 .. L \subseteq S
  BY <1>1, <1>4, <1>5, UpTo
<1>7. A(L).found /\ B(L).found => A(L) = B(L)
  <2>1. L \in S
    BY <1>1, <1>6
  <2> QED
    BY <2>1 DEF S
<1>8. ~IsRoot(z, p)
  BY <1>1 DEF IsRoot
<1>9. EntryFromPath(v, p) = A(L) /\ EntryFromPath(z, p) = B(L)
  BY <1>8 DEF EntryFromPath, Resolve, L
<1> QED
  BY <1>7, <1>9 DEF Retraces

\* What a path leads to is an entry.
LEMMA FoundSlot ==
    ASSUME NEW z, Typed(z), NEW p \in Paths, ~IsRoot(z, p), EntryFromPath(z, p).found
    PROVE  At(z, EntryFromPath(z, p).pos).kind = "entry"
<1> DEFINE L == Len(p.names)
           n == p.names[L]
           more == L < L
           g == Trail(z, p)[L - 1]
           c == g.entry.cluster
<1>1. L \in Nat /\ L >= 1 /\ L \in 1 .. L /\ L - 1 \in 0 .. L /\ more = FALSE
  <2>1. L \in Nat /\ (p.names = <<>> => p = Root) /\ p.names \in Seq(Names \cup {".", ".."})
    BY PathFields
  <2>2. p.names # <<>>
    BY <2>1 DEF IsRoot
  <2> QED
    BY <2>1, <2>2
<1>2. g \in Found /\ Trail(z, p)[L] = Below(z, g, n, more)
  BY <1>1, TrailIs
<1>3. EntryFromPath(z, p) = Below(z, g, n, FALSE)
  BY <1>1, <1>2 DEF EntryFromPath, Resolve
<1> HIDE DEF g, n, more, c, L
<1>4. g.found
  <2>1. Below(z, g, n, FALSE).found
    BY <1>3
  <2> QED
    BY <2>1, NothingBelow
<1>5. EntryFromPath(z, p) = Lookup(z, c, n, FALSE) /\ c \in Table!Entry
  BY <1>2, <1>3, <1>4 DEF Below, Found, EntrySlot, c
<1>6. Lookup(z, c, n, FALSE).found
  BY <1>5
<1>7. PICK i : FoundIn(z, c, n, Lookup(z, c, n, FALSE), i)
  <2>1. FALSE \in BOOLEAN
    OBVIOUS
  <2> QED
    BY <2>1, <1>5, <1>6, LookupFinds
<1> QED
  BY <1>5, <1>7 DEF FoundIn

\* The chain of a node is freed, and a slot.
ChainFreed(v, N, z, q) ==
    /\ Lessened(v, z) /\ At(z, q) = Free
    /\ \A d \in Dirs(N) : Finds(v, z, d.entry.cluster)
LEMMA NodeFreed ==
    ASSUME NEW v, Typed(v), NEW N, NEW R, Laid(v, N, R), DOMAIN R = N, NEW y \in N, y # Top,
           y.entry.dir => NamedSpots(v, R[y]) = {}, NEW q \in Position
    PROVE  ChainFreed(v, N, Put(Freed(v, y.entry.cluster), q, Free), q)
<1> DEFINE c == y.entry.cluster
           u == Freed(v, c)
           z == Put(u, q, Free)
           G == Members(R[y])
<1>1. /\ Clusters(v, c) = G /\ c \in Cluster /\ c \in G
  <2>1. Seg(v.table, R[y]) /\ R[y][1] = c /\ Clusters(v, c) = Members(R[y]) /\ c \in Cluster
    BY RunOf
  <2>2. R[y][1] \in Members(R[y])
    BY <2>1, SegFields
  <2> QED
    BY <2>1, <2>2
<1>2. c \in Table!Entry /\ y \in DOMAIN R
  BY <1>1, Numbers
<1>3. FreedIn(v, u, G)
  BY <1>1, <1>2, FreedIs
<1> HIDE DEF u
<1>4. SlotPut(u, z, q, Free)
  BY <1>3, PutIs, MarksAreSlots DEF FreedIn
<1> HIDE DEF z
<1>5. /\ Typed(z) /\ z.cwd = v.cwd /\ At(z, q) = Free
      /\ \A a \in Table!Entry : z.table[a] = IF a \in G THEN FREE ELSE v.table[a]
      /\ \A x \in Position : At(z, x) = At(v, x) \/ At(z, x) = Free
  <2>1. \A x \in Position : At(u, x) = At(v, x)
    BY <1>3 DEF FreedIn, At
  <2> QED
    BY <2>1, <1>3, <1>4 DEF FreedIn, SlotPut
<1>6. Lessened(v, z)
  BY <1>5 DEF Lessened
<1>7. ASSUME NEW d \in Dirs(N)
      PROVE  Finds(v, z, d.entry.cluster)
  <2>1. CASE d = y
    <3>1. z.table[c] = FREE
      BY <1>1, <1>2, <1>5
    <3>2. d.entry.dir
      BY DEF Dirs
    <3> QED
      BY <2>1, <3>1, <3>2, <1>6, FreedFinds
  <2>2. CASE d # y
    <3>1. d \in DOMAIN R /\ IsRun(v.table, R[d])
      BY RunOfDir
    <3>2. Members(R[d]) \cap G = {}
      BY <2>2, <3>1, <1>2 DEF Laid, RunsApart
    <3>3. \A a \in Members(R[d]) : a \in Table!Entry
      BY <3>1, RunFields DEF Members
    <3>4. \A a \in Members(R[d]) : z.table[a] = v.table[a]
      BY <3>2, <3>3, <1>5
    <3> QED
      BY <3>4, <1>6, LessenedFinds
  <2> QED
    BY <2>1, <2>2
<1>8. ChainFreed(v, N, z, q)
  BY <1>5, <1>6, <1>7 DEF ChainFreed
<1> QED
  BY <1>8 DEF z, u

\* What deletefile says it has deleted is gone.
DeleteTells(v, p) ==
    DeleteFile(v, p).ok => IsRoot(v, p) \/ ~FileExists(DeleteFile(v, p).vol, p)
LEMMA DeleteFileTells ==
    ASSUME NEW v, Typed(v), NEW N, NEW R, Intact(v, N, R), NEW p \in Paths
    PROVE  DeleteTells(v, p)
<1> DEFINE r == DeleteFile(v, p)
           f == EntryFromPath(v, p)
           z == Put(Freed(v, f.entry.cluster), f.pos, Free)
<1> SUFFICES ASSUME r.ok, ~IsRoot(v, p)
             PROVE  ~EntryFromPath(r.vol, p).found
  BY DEF DeleteTells, FileExists
<1>1. Laid(v, N, R) /\ DOMAIN R = N /\ PathsApart(N) /\ Stands(v, N)
  BY DEF Intact, Laid
<1>2. f.found /\ r = DeleteEntry(v, f)
  BY DEF DeleteFile, DeleteFound, Answer
<1>3. MayDelete(v, f.entry) /\ r.vol = z
  BY <1>2 DEF DeleteEntry
<1> HIDE DEF r
<1>4. ChainFreed(v, N, z, f.pos)
  <2>1. CASE EndsInNode(N, f)
    <3>1. PICK y \in N : y # Top /\ f.entry = y.entry /\ f.pos = y.pos
      BY <2>1 DEF EndsInNode
    <3> HIDE DEF f
    <3>2. y.entry.dir => NamedSpots(v, R[y]) = {}
      <4>1. f.entry.dir => y \in Dirs(N) /\ f.entry.cluster = y.entry.cluster
        BY <3>1 DEF Dirs
      <4> QED
        BY <4>1, <3>1, <1>1, <1>3, MayDeleteIs
    <3>3. y.pos \in Position
      <4>1. y \in NodeSet
        BY <1>1, PathFacts
      <4>2. PICK E \in Dirs(N) : LiesIn(v, R, y, E)
        BY <1>1, <3>1 DEF Laid
      <4>3. E \in N
        BY DEF Dirs
      <4> QED
        BY <4>2, <4>3, <1>1, LiesInFacts DEF ChildOf
    <3>4. ChainFreed(v, N, Put(Freed(v, y.entry.cluster), y.pos, Free), y.pos)
      BY <3>1, <3>2, <3>3, <1>1, NodeFreed
    <3> QED
      BY <3>1, <3>4
  <2>2. CASE EndsInDot(v, N, R, f)
    <3>1. PICK D \in Dirs(N) : /\ D # Top /\ f.pos \in {<<R[D][1], 1>>, <<R[D][1], 2>>}
                               /\ f.entry = At(v, f.pos)
      BY <2>2 DEF EndsInDot
    <3>2. PICK up \in N : Above(N, D, up) /\ Neat(v, D, up.entry.cluster, R[D])
      BY <1>1 DEF Laid, Orderly
    <3>3. /\ At(v, <<R[D][1], 1>>) = Entry(".", TRUE, D.entry.cluster, 0)
          /\ At(v, <<R[D][1], 2>>) = Entry("..", TRUE, up.entry.cluster, 0)
      BY <3>1, <3>2 DEF Neat
    <3>4. IsRun(v.table, R[D]) /\ D \in N
      BY <1>1, RunOfDir
    <3>5. CASE f.pos = <<R[D][1], 1>>
      <4>1. f.entry.dir /\ f.entry.cluster = D.entry.cluster
        BY <3>1, <3>3, <3>5 DEF Entry
      <4> HIDE DEF f
      <4>2. NamedSpots(v, R[D]) = {}
        BY <4>1, <1>1, <1>3, MayDeleteIs
      <4>3. f.pos \in Position
        <5>1. <<R[D][1], 1>> \in Spots(R[D])
          BY <3>4, FirstSpots
        <5> QED
          BY <5>1, <3>5, SpotArea
      <4>4. ChainFreed(v, N, Put(Freed(v, D.entry.cluster), f.pos, Free), f.pos)
        BY <4>2, <4>3, <3>1, <3>4, <1>1, NodeFreed
      <4> QED
        BY <4>1, <4>4
    <3>6. CASE f.pos = <<R[D][1], 2>>
      <4>1. f.entry.dir /\ f.entry.cluster = up.entry.cluster
        BY <3>1, <3>3, <3>6 DEF Entry
      <4>2. PICK E \in Dirs(N) : LiesIn(v, R, D, E)
        BY <1>1, <3>1, <3>4 DEF Laid
      <4>3. up = E
        BY <4>2, <3>2, <3>4, <1>1, AboveIs
      <4> HIDE DEF f
      <4>4. NamedSpots(v, R[E]) = {}
        BY <4>1, <4>3, <1>1, <1>3, MayDeleteIs
      <4> QED
        BY <4>2, <4>4 DEF LiesIn
    <3> QED
      BY <3>1, <3>5, <3>6
  <2> QED
    BY <2>1, <2>2, <1>2, PathEnds
<1> HIDE DEF z
<1>5. Typed(z) /\ z.cwd = v.cwd /\ Lessened(v, z) /\ At(z, f.pos) = Free
  BY <1>4 DEF ChainFreed, Lessened
<1>6. ~IsRoot(z, p)
  BY <1>5 DEF IsRoot
<1> DEFINE g == EntryFromPath(z, p)
<1>7. ASSUME g.found
      PROVE  FALSE
  <2>1. Retraces(v, z, p)
    <3>1. \A d \in Dirs(N) : Finds(v, z, d.entry.cluster)
      BY <1>4 DEF ChainFreed
    <3> QED
      BY <3>1, <1>1, <1>5, PathShrinks
  <2>2. g = f
    BY <2>1, <1>2, <1>7 DEF Retraces
  <2>3. At(z, g.pos).kind = "entry"
    BY <1>5, <1>6, <1>7, FoundSlot
  <2> QED
    BY <2>2, <2>3, <1>5 DEF Free
<1> QED
  BY <1>3, <1>7

\* Intact volumes answer truly while there is room.
LEMMA SoundTells ==
    ASSUME Typed(vol), Shown
    PROVE  AnswersAreTrueWithRoom
<1> SUFFICES ASSUME tree # Tree!Broken
             PROVE  /\ \A p \in NewPaths : MkDirIsTrue(p, MkDir(vol, p))
                    /\ \A p \in NewPaths, x \in Contents : WriteFileIsTrue(p, x, WriteFile(vol, p, x))
                    /\ \A p \in Paths : DeleteFileIsTrue(p, DeleteFile(vol, p))
  BY DEF AnswersAreTrueWithRoom
<1>1. Sound(vol, NodesOf(vol))
  BY DEF Shown
<1>2. PICK R : Intact(vol, NodesOf(vol), R)
  BY <1>1, SoundIsIntact
<1>3. \A p \in Paths : DeleteFileIsTrue(p, DeleteFile(vol, p))
  <2> TAKE p \in Paths
  <2>1. DeleteTells(vol, p)
    BY <1>2, DeleteFileTells
  <2> QED
    BY <2>1 DEF DeleteTells, DeleteFileIsTrue
<1> QED
  BY <1>2, <1>3, MkDirTells, WriteFileTells

\* What a call on a sound volume reports as done is done, unless the volume it
\* leaves has met its end, full or extended from the last cluster: a directory that
\* mkdir reports to have made is found, entered and listed, and a file that
\* writefile reports to have written has its size and reads back.  Nothing is said
\* of these two answers at the volume's end, where the code does answer falsely.
\* What deletefile reports to have deleted is not found any more, there too.
THEOREM CallsAnswerTrulyWithRoom == Spec => []AnswersAreTrueWithRoom
<1>1. Typed(vol) /\ Shown => AnswersAreTrueWithRoom
  BY SoundTells
<1> QED
  BY <1>1, AlwaysTyped, AlwaysShown, PTL
============================================================================
