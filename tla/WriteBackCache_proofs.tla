---------------------- MODULE WriteBackCache_proofs ----------------------
(***************************************************************************)
(* Proofs about WriteBackCache for any number of pages, sectors and bytes. *)
(* Everything that changes pages and disc is described as an operator on   *)
(* the two, so the invariant is one of two values, Sound(p, d), and each   *)
(* lemma says that one such change keeps it and what the change makes of   *)
(* the sectors as they are read.                                           *)
(***************************************************************************)
EXTENDS WriteBackCache, FiniteSetTheorems, WellFoundedInduction, TLAPS

PageState ==
    [sector : Sectors \cup {CACHE_FREE}, count : Nat, dirty : BOOLEAN, data : Content]

\* No two pages hold the same sector.
Injective(p) ==
    \A i, j \in Page :
        (p[i].sector # CACHE_FREE /\ p[i].sector = p[j].sector) => i = j

\* A clean page has what the disc has.
Clean(p, d) ==
    \A i \in Page :
        (p[i].sector # CACHE_FREE /\ ~p[i].dirty) => p[i].data = d[p[i].sector]

Sound(p, d) ==
    /\ p \in [Page -> PageState]
    /\ d \in [Sectors -> Content]
    /\ Injective(p)
    /\ Clean(p, d)

\* The inductive invariant.
IInv == Sound(pages, disc)

\* The sectors as they are read through pages p from disc d.
Held(p, s) == {i \in Page : p[i].sector = s}

ViewOf(p, d) ==
    [s \in Sectors |-> IF Held(p, s) # {} THEN p[Min(Held(p, s))].data ELSE d[s]]

\* Disc e is disc d but for sectors that now have what p and d make them read as.
WritesBack(p, d, e) ==
    \E W \in SUBSET Sectors :
        e = [s \in Sectors |-> IF s \in W THEN ViewOf(p, d)[s] ELSE d[s]]

------------------------------------------------------------------------
(* The ends of a set of numbers.                                           *)

\* A non-empty set of natural numbers has a least element.
LEMMA MinIsLeast ==
    ASSUME NEW S \in SUBSET Nat, S # {}
    PROVE  Min(S) \in S /\ \A n \in S : Min(S) <= n
<1> DEFINE R == OpToRel(<, Nat)
<1>1. IsWellFoundedOn(R, Nat)
  BY NatLessThanWellFounded
<1>2. PICK n \in S : \A m \in S : <<m, n>> \notin R
  <2> HIDE DEF R
  <2> QED BY <1>1, WFMin
<1>3. ASSUME NEW m \in S, m < n
      PROVE  FALSE
  <2>1. <<m, n>> \in Nat \X Nat /\ <<m, n>>[1] < <<m, n>>[2]
    BY <1>3
  <2>2. <<m, n>> \in R
    BY <2>1 DEF OpToRel
  <2> QED
    BY <2>2, <1>2
<1>4. \A m \in S : n <= m
  BY <1>3
<1> QED
  BY <1>4 DEF Min

\* A non-empty set of pages has a last one.
LEMMA MaxIsGreatest ==
    ASSUME NEW S \in SUBSET Page, S # {}
    PROVE  Max(S) \in S /\ \A n \in S : n <= Max(S)
<1>1. NumberOfPages \in Nat /\ \A i \in S : i \in Nat /\ i <= NumberOfPages
  BY CacheAssumption DEF Page
<1> DEFINE T == {NumberOfPages - i : i \in S}
<1>2. \A i \in S : NumberOfPages - i \in Nat
  BY <1>1
<1>3. T \in SUBSET Nat /\ T # {}
  BY <1>2
<1>4. PICK t \in T : \A u \in T : t <= u
  <2> HIDE DEF T
  <2> QED BY <1>3, MinIsLeast
<1>5. PICK m \in S : t = NumberOfPages - m
  OBVIOUS
<1>6. \A n \in S : m >= n
  <2> TAKE n \in S
  <2>1. NumberOfPages - n \in T
    OBVIOUS
  <2>2. NumberOfPages - m <= NumberOfPages - n
    BY <2>1, <1>4, <1>5
  <2> QED
    BY <2>2, <1>1
<1>7. Max(S) \in S /\ \A n \in S : Max(S) >= n
  BY <1>6 DEF Max
<1> QED
  BY <1>7, <1>1

------------------------------------------------------------------------
(* The sectors as they are read.                                           *)

\* A sector that a page holds reads as the page, any other as the disc.
LEMMA ViewIs ==
    ASSUME NEW p, NEW d, Sound(p, d), NEW s \in Sectors
    PROVE  /\ \A i \in Page : p[i].sector = s => ViewOf(p, d)[s] = p[i].data
           /\ (\A i \in Page : p[i].sector # s) => ViewOf(p, d)[s] = d[s]
<1>1. ASSUME NEW i \in Page, p[i].sector = s
      PROVE  ViewOf(p, d)[s] = p[i].data
  <2>1. Held(p, s) = {i}
    BY <1>1, CacheAssumption DEF Held, Sound, Injective
  <2>2. Held(p, s) \in SUBSET Nat
    BY <2>1 DEF Page
  <2>3. Min(Held(p, s)) = i
    BY <2>1, <2>2, MinIsLeast
  <2> QED
    BY <2>1, <2>3 DEF ViewOf
<1> QED
  BY <1>1 DEF ViewOf, Held

\* Every sector reads as the bytes of a sector.
LEMMA ViewType ==
    ASSUME NEW p, NEW d, Sound(p, d)
    PROVE  ViewOf(p, d) \in [Sectors -> Content]
<1>1. ASSUME NEW s \in Sectors
      PROVE  ViewOf(p, d)[s] \in Content
  <2>1. CASE \E i \in Page : p[i].sector = s
    <3>1. PICK i \in Page : p[i].sector = s
      BY <2>1
    <3>2. p[i].data \in Content
      BY DEF Sound, PageState
    <3> QED
      BY <3>1, <3>2, ViewIs
  <2>2. CASE \A i \in Page : p[i].sector # s
    BY <2>2, ViewIs DEF Sound
  <2> QED
    BY <2>1, <2>2
<1> QED
  BY <1>1 DEF ViewOf

\* Views that agree sector by sector are equal.
LEMMA SameView ==
    ASSUME NEW p, NEW d, Sound(p, d), NEW q, NEW e, Sound(q, e),
           \A s \in Sectors : ViewOf(q, e)[s] = ViewOf(p, d)[s]
    PROVE  ViewOf(q, e) = ViewOf(p, d)
BY DEF ViewOf

------------------------------------------------------------------------
(* The changes of pages and disc.                                          *)

\* Counting a use changes nothing that is read.
LEMMA CountedPage ==
    ASSUME NEW p, NEW d, Sound(p, d),
           NEW q \in [Page -> PageState],
           \A j \in Page : /\ q[j].sector = p[j].sector
                          /\ q[j].dirty = p[j].dirty
                          /\ q[j].data = p[j].data
    PROVE  Sound(q, d) /\ ViewOf(q, d) = ViewOf(p, d)
<1>2. Sound(q, d)
  BY DEF Sound, Injective, Clean
<1>3. ASSUME NEW s \in Sectors
      PROVE  ViewOf(q, d)[s] = ViewOf(p, d)[s]
  <2>1. CASE \E j \in Page : p[j].sector = s
    BY <2>1, <1>2, ViewIs
  <2>2. CASE \A j \in Page : p[j].sector # s
    BY <2>2, <1>2, ViewIs
  <2> QED
    BY <2>1, <2>2
<1> QED
  BY <1>2, <1>3, SameView

\* Writing a page back makes its sector durable and changes nothing that is read.
LEMMA CleanedPage ==
    ASSUME NEW p, NEW d, Sound(p, d), NEW i \in Page, p[i].sector # CACHE_FREE,
           NEW q \in [Page -> PageState],
           \A j \in Page : /\ q[j].sector = p[j].sector
                          /\ q[j].dirty = (j # i /\ p[j].dirty)
                          /\ q[j].data = p[j].data,
           NEW e \in [Sectors -> Content], e[p[i].sector] = p[i].data,
           \A t \in Sectors : t # p[i].sector => e[t] = d[t]
    PROVE  Sound(q, e) /\ ViewOf(q, e) = ViewOf(p, d) /\ WritesBack(p, d, e)
<1> DEFINE s == p[i].sector
<1>1. /\ p \in [Page -> PageState] /\ d \in [Sectors -> Content]
      /\ s \in Sectors /\ p[i].data \in Content
  BY DEF Sound, PageState
<1>4. Injective(q)
  BY DEF Sound, Injective
<1>5. Clean(q, e)
  <2> SUFFICES ASSUME NEW j \in Page, q[j].sector # CACHE_FREE, ~q[j].dirty
               PROVE  q[j].data = e[q[j].sector]
    BY DEF Clean
  <2>1. CASE j = i
    BY <2>1
  <2>2. CASE j # i
    <3>1. p[j].sector \in Sectors /\ p[j].sector # s
      BY <2>2, <1>1 DEF Sound, Injective, PageState
    <3> QED
      BY <3>1, <2>2 DEF Sound, Clean
  <2> QED
    BY <2>1, <2>2
<1>6. Sound(q, e)
  BY <1>4, <1>5 DEF Sound
<1>7. ASSUME NEW t \in Sectors
      PROVE  ViewOf(q, e)[t] = ViewOf(p, d)[t]
  <2>1. CASE \E j \in Page : p[j].sector = t
    BY <2>1, <1>6, ViewIs
  <2>2. CASE \A j \in Page : p[j].sector # t
    BY <2>2, <1>6, ViewIs
  <2> QED
    BY <2>1, <2>2
<1>8. ViewOf(q, e) = ViewOf(p, d)
  BY <1>6, <1>7, SameView
<1>9. e = [t \in Sectors |-> IF t \in {s} THEN ViewOf(p, d)[t] ELSE d[t]]
  <2>1. ViewOf(p, d)[s] = p[i].data
    BY <1>1, ViewIs
  <2> QED
    BY <2>1, <1>1
<1>10. WritesBack(p, d, e)
  BY <1>1, <1>9 DEF WritesBack
<1> QED
  BY <1>6, <1>8, <1>10

\* Loading a sector nothing holds into a page that need not be written changes
\* nothing that is read.
LEMMA LoadedPage ==
    ASSUME NEW p, NEW d, Sound(p, d), NEW i \in Page, NEW s \in Sectors,
           p[i].sector = CACHE_FREE \/ ~p[i].dirty,
           \A j \in Page : p[j].sector # s,
           NEW q \in [Page -> PageState],
           q[i].sector = s, q[i].data = d[s], ~q[i].dirty,
           \A j \in Page : j # i => q[j] = p[j]
    PROVE  Sound(q, d) /\ ViewOf(q, d) = ViewOf(p, d)
<1>3. Sound(q, d)
  BY DEF Sound, Injective, Clean
<1>4. ASSUME NEW t \in Sectors
      PROVE  ViewOf(q, d)[t] = ViewOf(p, d)[t]
  <2>1. CASE t = s
    BY <2>1, <1>3, ViewIs
  <2>2. CASE t # s /\ p[i].sector = t
    <3>1. \A j \in Page : q[j].sector # t
      BY <2>2, CacheAssumption DEF Sound, Injective
    <3>2. ViewOf(q, d)[t] = d[t]
      BY <3>1, <1>3, ViewIs
    <3>3. ViewOf(p, d)[t] = p[i].data
      BY <2>2, ViewIs
    <3>4. p[i].data = d[t]
      BY <2>2, CacheAssumption DEF Sound, Clean
    <3> QED
      BY <3>2, <3>3, <3>4
  <2>3. CASE t # s /\ \E j \in Page \ {i} : p[j].sector = t
    BY <2>3, <1>3, ViewIs
  <2>4. CASE t # s /\ \A j \in Page : p[j].sector # t
    BY <2>4, <1>3, ViewIs
  <2> QED
    BY <2>1, <2>2, <2>3, <2>4
<1> QED
  BY <1>3, <1>4, SameView

\* A write to the page of a sector is a write to that sector.
LEMMA ModifiedPage ==
    ASSUME NEW p, NEW d, Sound(p, d), NEW i \in Page,
           NEW s \in Sectors, p[i].sector = s,
           NEW content \in Content,
           NEW q \in [Page -> PageState],
           q[i].sector = s, q[i].data = content, q[i].dirty,
           \A j \in Page : j # i => q[j] = p[j]
    PROVE  /\ Sound(q, d)
           /\ ViewOf(q, d) = [ViewOf(p, d) EXCEPT ![s] = content]
<1>3. Sound(q, d)
  BY DEF Sound, Injective, Clean
<1>4. ASSUME NEW t \in Sectors
      PROVE  ViewOf(q, d)[t] = IF t = s THEN content ELSE ViewOf(p, d)[t]
  <2>1. CASE t = s
    BY <2>1, <1>3, ViewIs
  <2>2. CASE t # s /\ \E j \in Page \ {i} : p[j].sector = t
    BY <2>2, <1>3, ViewIs
  <2>3. CASE \A j \in Page : p[j].sector # t
    BY <2>3, <1>3, ViewIs
  <2> QED
    BY <2>1, <2>2, <2>3
<1> QED
  BY <1>3, <1>4, ViewType

------------------------------------------------------------------------
(* The calls.                                                              *)

\* There is always a page to use.
LEMMA LeastUsedIsPage ==
    ASSUME IInv
    PROVE  /\ LeastUsed \in Page
           /\ Holds(CACHE_FREE) # {} => pages[LeastUsed].sector = CACHE_FREE
<1>1. ASSUME Holds(CACHE_FREE) # {}
      PROVE  LeastUsed \in Page /\ pages[LeastUsed].sector = CACHE_FREE
  <2>1. Max(Holds(CACHE_FREE)) \in Holds(CACHE_FREE)
    BY <1>1, MaxIsGreatest DEF Holds
  <2> QED
    BY <1>1, <2>1 DEF LeastUsed, Holds
<1>2. ASSUME Holds(CACHE_FREE) = {}
      PROVE  LeastUsed \in Page
  <2> DEFINE counts == {pages[i].count : i \in Page}
  <2> DEFINE least  == {i \in Page : \A j \in Page : pages[i].count <= pages[j].count}
  <2>1. \A i \in Page : pages[i].count \in Nat
    BY DEF IInv, Sound, PageState
  <2>2. 1 \in Page
    BY CacheAssumption DEF Page
  <2>3. counts \in SUBSET Nat /\ counts # {}
    BY <2>1, <2>2
  <2>4. PICK c \in counts : \A n \in counts : c <= n
    <3> HIDE DEF counts
    <3> QED BY <2>3, MinIsLeast
  <2>5. PICK i \in Page : c = pages[i].count
    BY <2>4
  <2>6. i \in least
    BY <2>4, <2>5
  <2>7. least \in SUBSET Nat /\ least # {}
    BY <2>6 DEF Page
  <2>8. Min(least) \in least
    <3> HIDE DEF least
    <3> QED BY <2>7, MinIsLeast
  <2> QED
    BY <1>2, <2>8 DEF LeastUsed
<1> QED
  BY <1>1, <1>2

\* Writing the least used page back, where it must be.
LEMMA WrittenBack ==
    ASSUME IInv, NEW i \in Page, MustWrite(i)
    PROVE  /\ Sound(Cleaned(i), WrittenTo(disc, i))
           /\ ViewOf(Cleaned(i), WrittenTo(disc, i)) = ViewOf(pages, disc)
           /\ WritesBack(pages, disc, WrittenTo(disc, i))
<1> DEFINE q == Cleaned(i)
<1> DEFINE e == WrittenTo(disc, i)
<1>1. /\ pages \in [Page -> PageState] /\ disc \in [Sectors -> Content]
      /\ pages[i].sector # CACHE_FREE
  BY DEF IInv, Sound, MustWrite
<1>2. /\ q \in [Page -> PageState]
      /\ \A j \in Page : /\ q[j].sector = pages[j].sector
                         /\ q[j].dirty = (j # i /\ pages[j].dirty)
                         /\ q[j].data = pages[j].data
  BY <1>1 DEF Cleaned, PageState
<1>3. /\ e \in [Sectors -> Content] /\ e[pages[i].sector] = pages[i].data
      /\ \A t \in Sectors : t # pages[i].sector => e[t] = disc[t]
  BY <1>1 DEF WrittenTo, PageState
<1> HIDE DEF q, e
<1>4. Sound(q, e) /\ ViewOf(q, e) = ViewOf(pages, disc) /\ WritesBack(pages, disc, e)
  BY <1>1, <1>2, <1>3, CleanedPage DEF IInv
<1> QED
  BY <1>4 DEF q, e

\* Nothing written back is writing back too.
LEMMA WritesNothingBack ==
    ASSUME NEW p, NEW d, Sound(p, d)
    PROVE  WritesBack(p, d, d)
<1> DEFINE none == {}
<1>1. d = [s \in Sectors |-> IF s \in none THEN ViewOf(p, d)[s] ELSE d[s]]
  BY DEF Sound
<1>2. none \in SUBSET Sectors
  OBVIOUS
<1> HIDE DEF none
<1> QED
  BY <1>1, <1>2, Zenon DEF WritesBack

\* _FAT_cache_getSector: found, loaded or refused, no sector reads otherwise
\* than before, and the page it returns holds the sector.
LEMMA GetSectorKeepsView ==
    ASSUME IInv, NEW s \in Sectors, NEW g \in GetSector(s)
    PROVE  /\ Sound(g.pages, g.disc)
           /\ ViewOf(g.pages, g.disc) = ViewOf(pages, disc)
           /\ WritesBack(pages, disc, g.disc)
           /\ g.page # 0 => g.page \in Page /\ g.pages[g.page].sector = s
<1> DEFINE i == LeastUsed
<1> DEFINE p == IF MustWrite(i) THEN Cleaned(i) ELSE pages
<1> DEFINE d == IF MustWrite(i) THEN WrittenTo(disc, i) ELSE disc
<1>1. Sound(pages, disc) /\ pages \in [Page -> PageState] /\ disc \in [Sectors -> Content]
  BY DEF IInv, Sound
<1>2. WritesBack(pages, disc, disc)
  BY <1>1, WritesNothingBack
<1>3. i \in Page
  BY LeastUsedIsPage
<1>4. Sound(p, d) /\ ViewOf(p, d) = ViewOf(pages, disc) /\ WritesBack(pages, disc, d)
  BY <1>1, <1>2, <1>3, WrittenBack
<1>5. CASE Hit(s) # {}
  <2> DEFINE h == Min(Hit(s))
  <2>1. h \in Page /\ pages[h].sector = s
    <3>1. Hit(s) \in SUBSET Nat
      BY DEF Hit, Holds, Page
    <3>2. h \in Hit(s)
      BY <1>5, <3>1, MinIsLeast
    <3> QED
      BY <3>2 DEF Hit, Holds
  <2>2. g = Found(h)
    BY <1>5 DEF GetSector
  <2> DEFINE q == [pages EXCEPT ![h].count = @ + 1]
  <2>3. g.page = h /\ g.pages = q /\ g.disc = disc
    BY <2>2 DEF Found
  <2>4. /\ q \in [Page -> PageState]
        /\ \A j \in Page : /\ q[j].sector = pages[j].sector
                           /\ q[j].dirty = pages[j].dirty
                           /\ q[j].data = pages[j].data
    BY <1>1, <2>1 DEF PageState
  <2> HIDE DEF q, h
  <2>5. Sound(q, disc) /\ ViewOf(q, disc) = ViewOf(pages, disc)
    BY <1>1, <2>4, CountedPage
  <2> QED
    BY <1>2, <2>1, <2>3, <2>4, <2>5
<1>6. CASE g = Refused(p, d)
  BY <1>4, <1>6 DEF Refused
<1>7. CASE g = Refused(pages, disc)
  BY <1>1, <1>2, <1>7 DEF Refused
<1>8. CASE g = Loaded(i, s, d) /\ Hit(s) = {}
  <2> DEFINE q == g.pages
  <2>1. g.page = i /\ g.disc = d
    BY <1>8 DEF Loaded
  <2>2. /\ pages[i].count \in Nat /\ d[s] \in Content
        /\ \A j \in Page : pages[j].sector # s
    BY <1>1, <1>3, <1>4, <1>8 DEF Sound, PageState, Hit, Holds
  <2>3. q = [pages EXCEPT ![i] = [sector |-> s, count |-> pages[i].count + 1,
                                 dirty |-> FALSE, data |-> d[s]]]
    BY <1>8 DEF Loaded
  <2>4. /\ q \in [Page -> PageState]
        /\ q[i].sector = s /\ q[i].data = d[s] /\ ~q[i].dirty
        /\ \A j \in Page : j # i => q[j] = pages[j]
    <3> HIDE DEF d, i, q
    <3> QED
      BY <1>1, <1>3, <2>2, <2>3 DEF PageState
  <2>5. /\ p[i].sector = CACHE_FREE \/ ~p[i].dirty
        /\ \A j \in Page : p[j].sector # s
        /\ \A j \in Page : j # i => p[j] = pages[j]
    <3>1. CASE MustWrite(i)
      BY <1>1, <1>3, <2>2, <3>1 DEF Cleaned, PageState
    <3>2. CASE ~MustWrite(i)
      BY <2>2, <3>2 DEF MustWrite
    <3> QED
      BY <3>1, <3>2
  <2>6. Sound(q, d) /\ ViewOf(q, d) = ViewOf(p, d)
    <3>1. \A j \in Page : j # i => q[j] = p[j]
      BY <2>4, <2>5
    <3> HIDE DEF p, d, q, i
    <3> QED
      BY <1>3, <1>4, <2>4, <2>5, <3>1, LoadedPage
  <2> QED
    BY <1>3, <1>4, <2>1, <2>4, <2>6
<1>9. Hit(s) # {} \/ (Hit(s) = {} /\
            (g = Loaded(i, s, d) \/ g = Refused(p, d) \/ g = Refused(pages, disc)))
  BY DEF GetSector
<1> HIDE DEF p, d, i
<1> QED
  BY <1>5, <1>6, <1>7, <1>8, <1>9

\* A flush, complete or stopped by the disc, writes some sectors back and no
\* sector reads otherwise than before.
LEMMA FlushKeepsView ==
    ASSUME IInv, Flush
    PROVE  /\ Sound(pages', disc')
           /\ ViewOf(pages', disc') = ViewOf(pages, disc)
           /\ WritesBack(pages, disc, disc')
<1> DEFINE written(s, n) == {i \in Holds(s) : i <= n /\ pages[i].dirty}
<1>1. PICK n \in 0 .. NumberOfPages :
        /\ disc' = [s \in Sectors |-> IF written(s, n) = {} THEN disc[s]
                                      ELSE pages[Max(written(s, n))].data]
        /\ pages' = [i \in Page |->
                        IF i <= n THEN [pages[i] EXCEPT !.count = 0, !.dirty = FALSE]
                        ELSE pages[i]]
  BY DEF Flush
<1>2. /\ pages \in [Page -> PageState] /\ disc \in [Sectors -> Content]
      /\ Sound(pages, disc) /\ Injective(pages) /\ Clean(pages, disc)
  BY DEF IInv, Sound
<1>3. /\ pages' \in [Page -> PageState]
      /\ \A j \in Page : /\ pages'[j].sector = pages[j].sector
                         /\ pages'[j].dirty = (~(j <= n) /\ pages[j].dirty)
                         /\ pages'[j].data = pages[j].data
  BY <1>1, <1>2 DEF PageState
<1>4. ASSUME NEW s \in Sectors
      PROVE  /\ \A i \in Page : (pages[i].sector = s /\ i <= n /\ pages[i].dirty) =>
                    written(s, n) # {} /\ disc'[s] = pages[i].data
             /\ written(s, n) = {} => disc'[s] = disc[s]
  <2>1. ASSUME NEW i \in Page, pages[i].sector = s, i <= n, pages[i].dirty
        PROVE  written(s, n) # {} /\ disc'[s] = pages[i].data
    <3>1. i \in written(s, n)
      BY <2>1 DEF Holds
    <3>2. \A j \in written(s, n) : j = i
      BY <1>2, <2>1, CacheAssumption DEF Injective, Holds
    <3>3. Max(written(s, n)) \in written(s, n)
      BY <3>1, MaxIsGreatest DEF Holds
    <3>4. Max(written(s, n)) = i
      BY <3>2, <3>3
    <3>5. disc'[s] = IF written(s, n) = {} THEN disc[s]
                     ELSE pages[Max(written(s, n))].data
      BY <1>1
    <3> HIDE DEF written
    <3> QED
      BY <3>1, <3>4, <3>5
  <2>2. ASSUME written(s, n) = {}
        PROVE  disc'[s] = disc[s]
    BY <1>1, <2>2
  <2> HIDE DEF written
  <2> QED
    BY <2>1, <2>2
<1>5. \A s \in Sectors : written(s, n) # {} =>
          \E i \in Page : pages[i].sector = s /\ i <= n /\ pages[i].dirty
  BY DEF Holds
<1> HIDE DEF written
<1>6. disc' \in [Sectors -> Content]
  <2>1. ASSUME NEW s \in Sectors
        PROVE  disc'[s] \in Content
    <3>1. \A i \in Page : pages[i].data \in Content
      BY <1>2 DEF PageState
    <3> QED
      BY <1>2, <1>4, <1>5, <3>1
  <2>2. disc' = [s \in Sectors |-> disc'[s]]
    BY <1>1
  <2> QED
    BY <2>1, <2>2
<1>7. Sound(pages', disc')
  <2>1. Injective(pages')
    BY <1>2, <1>3 DEF Injective
  <2>2. Clean(pages', disc')
    <3> SUFFICES ASSUME NEW i \in Page, pages'[i].sector # CACHE_FREE, ~pages'[i].dirty
                 PROVE  pages'[i].data = disc'[pages'[i].sector]
      BY DEF Clean
    <3> DEFINE s == pages[i].sector
    <3>1. s \in Sectors /\ pages'[i].sector = s /\ pages'[i].data = pages[i].data
      BY <1>2, <1>3 DEF PageState
    <3>2. CASE pages[i].dirty
      <4>1. i <= n
        BY <1>3, <3>2
      <4> QED
        BY <4>1, <3>1, <3>2, <1>4
    <3>3. CASE ~pages[i].dirty
      <4>1. written(s, n) = {}
        BY <1>2, <1>5, <3>1, <3>3 DEF Injective
      <4> QED
        BY <4>1, <3>1, <3>3, <1>2, <1>4 DEF Clean
    <3> QED
      BY <3>2, <3>3
  <2> QED
    BY <1>3, <1>6, <2>1, <2>2 DEF Sound
<1>8. ASSUME NEW s \in Sectors
      PROVE  ViewOf(pages', disc')[s] = ViewOf(pages, disc)[s]
  <2>1. CASE \E j \in Page : pages[j].sector = s
    BY <2>1, <1>2, <1>3, <1>7, ViewIs
  <2>2. CASE \A j \in Page : pages[j].sector # s
    <3>1. disc'[s] = disc[s]
      BY <2>2, <1>4, <1>5
    <3> QED
      BY <2>2, <3>1, <1>2, <1>3, <1>7, ViewIs
  <2> QED
    BY <2>1, <2>2
<1>9. ViewOf(pages', disc') = ViewOf(pages, disc)
  BY <1>2, <1>7, <1>8, SameView
<1>10. WritesBack(pages, disc, disc')
  <2> DEFINE W == {s \in Sectors : written(s, n) # {}}
  <2>1. ASSUME NEW s \in Sectors
        PROVE  disc'[s] = IF s \in W THEN ViewOf(pages, disc)[s] ELSE disc[s]
    BY <1>2, <1>4, <1>5, ViewIs
  <2>2. disc' = [s \in Sectors |-> IF s \in W THEN ViewOf(pages, disc)[s] ELSE disc[s]]
    BY <2>1, <1>6
  <2>3. W \in SUBSET Sectors
    OBVIOUS
  <2> HIDE DEF W
  <2> QED
    BY <2>2, <2>3, Zenon DEF WritesBack
<1> QED
  BY <1>7, <1>9, <1>10

\* Invalidating drops every page: all sectors read as the disc has them.
LEMMA InvalidateReadsDisc ==
    ASSUME IInv, Invalidate
    PROVE  Sound(pages', disc') /\ ViewOf(pages', disc') = disc
<1>1. /\ pages \in [Page -> PageState] /\ disc \in [Sectors -> Content] /\ disc' = disc
  BY DEF IInv, Sound, Invalidate
<1>2. /\ pages' \in [Page -> PageState]
      /\ \A j \in Page : pages'[j].sector = CACHE_FREE
  BY <1>1 DEF Invalidate, PageState
<1>3. Sound(pages', disc')
  BY <1>1, <1>2 DEF Sound, Injective, Clean
<1>4. \A s \in Sectors : ViewOf(pages', disc')[s] = disc[s]
  BY <1>1, <1>2, <1>3, ViewIs, CacheAssumption
<1> QED
  BY <1>1, <1>3, <1>4, ViewType

\* A write through a page that holds the sector.
LEMMA PutThroughPage ==
    ASSUME IInv, NEW s \in Sectors, NEW g \in GetSector(s), g.page # 0,
           NEW content \in Content,
           pages' = Modified(g, content), disc' = g.disc
    PROVE  /\ Sound(pages', disc')
           /\ ViewOf(pages', disc') = [ViewOf(pages, disc) EXCEPT ![s] = content]
           /\ WritesBack(pages, disc, disc')
<1>1. /\ Sound(g.pages, g.disc) /\ ViewOf(g.pages, g.disc) = ViewOf(pages, disc)
      /\ WritesBack(pages, disc, g.disc)
      /\ g.page \in Page /\ g.pages[g.page].sector = s
  BY GetSectorKeepsView
<1> DEFINE p == g.pages
<1> DEFINE i == g.page
<1> DEFINE d == g.disc
<1>2. p \in [Page -> PageState]
  BY <1>1 DEF Sound
<1>3. pages' = [p EXCEPT ![i].data = content, ![i].dirty = TRUE]
  BY DEF Modified
<1>4. /\ pages' \in [Page -> PageState]
      /\ pages'[i].sector = s /\ pages'[i].data = content /\ pages'[i].dirty
      /\ \A j \in Page : j # i => pages'[j] = p[j]
  <2> HIDE DEF p, i
  <2>1. i \in Page /\ p[i].sector = s
    BY <1>1 DEF p, i
  <2>2. DOMAIN p = Page /\ p[i] \in PageState
    BY <1>2, <2>1
  <2>3. pages'[i] = [[p[i] EXCEPT !.data = content] EXCEPT !.dirty = TRUE]
    BY <1>3, <2>1, <2>2
  <2>4. /\ pages'[i] \in PageState
        /\ pages'[i].sector = s /\ pages'[i].data = content /\ pages'[i].dirty
    BY <2>1, <2>2, <2>3 DEF PageState
  <2>5. \A j \in Page : j # i => pages'[j] = p[j]
    BY <1>3, <2>2
  <2>6. DOMAIN pages' = Page /\ pages' = [j \in Page |-> pages'[j]]
    BY <1>3, <2>2
  <2>7. \A j \in Page : pages'[j] \in PageState
    BY <1>2, <2>4, <2>5
  <2> QED
    BY <2>4, <2>5, <2>6, <2>7
<1>5. /\ Sound(p, d) /\ i \in Page /\ p[i].sector = s
      /\ ViewOf(p, d) = ViewOf(pages, disc)
      /\ WritesBack(pages, disc, d) /\ disc' = d
  BY <1>1
<1> HIDE DEF p, i, d
<1>6. Sound(pages', d) /\ ViewOf(pages', d) = [ViewOf(p, d) EXCEPT ![s] = content]
  BY <1>4, <1>5, ModifiedPage
<1> QED
  BY <1>5, <1>6

------------------------------------------------------------------------
(* The steps.                                                              *)

\* What the properties call View and WriteBack, here as ViewOf and WritesBack.
LEMMA ViewNow ==
    /\ View = ViewOf(pages, disc) /\ View' = ViewOf(pages', disc')
    /\ WritesBack(pages, disc, disc') => Memory!WriteBack
<1>1. View = ViewOf(pages, disc) /\ View' = ViewOf(pages', disc')
  BY DEF View, ViewOf, Holds, Held
<1>2. WritesBack(pages, disc, disc') => Memory!WriteBack
  BY <1>1, Zenon DEF WritesBack, Memory!WriteBack
<1> QED
  BY <1>1, <1>2

\* A read answers with what the sector reads as.
LEMMA ReadStep ==
    ASSUME IInv, NEW s \in Sectors, NEW o \in Offsets, ReadPartialSector(s, o)
    PROVE  IInv' /\ Memory!Read(s, o)
<1>1. PICK g \in GetSector(s) :
        g.page # 0 /\ pages' = g.pages /\ disc' = g.disc
        /\ answer' = g.pages[g.page].data[o]
  BY DEF ReadPartialSector, Using
<1>2. /\ Sound(g.pages, g.disc) /\ ViewOf(g.pages, g.disc) = ViewOf(pages, disc)
      /\ WritesBack(pages, disc, g.disc)
      /\ g.page \in Page /\ g.pages[g.page].sector = s
  BY <1>1, GetSectorKeepsView
<1>3. ViewOf(pages, disc)[s] = g.pages[g.page].data
  BY <1>2, ViewIs
<1>4. answer' = View[s][o] /\ View' = View /\ Memory!WriteBack
  BY <1>1, <1>2, <1>3, ViewNow
<1> QED
  BY <1>1, <1>2, <1>4 DEF IInv, Memory!Read

\* A write changes the bytes it is given and no other sector.
LEMMA WriteStep ==
    ASSUME IInv, NEW s \in Sectors, NEW o \in Offsets, NEW v \in Values,
           WritePartialSector(s, o, v)
    PROVE  IInv' /\ Memory!Write(s, o, v)
<1>1. PICK g \in GetSector(s) :
        g.page # 0 /\ disc' = g.disc /\ answer' = "done"
        /\ pages' = Modified(g, [g.pages[g.page].data EXCEPT ![o] = v])
  BY DEF WritePartialSector, Using
<1>2. /\ Sound(g.pages, g.disc) /\ ViewOf(g.pages, g.disc) = ViewOf(pages, disc)
      /\ g.page \in Page /\ g.pages[g.page].sector = s
  BY <1>1, GetSectorKeepsView
<1>3. ViewOf(pages, disc)[s] = g.pages[g.page].data
  BY <1>2, ViewIs
<1> DEFINE content == [ViewOf(pages, disc)[s] EXCEPT ![o] = v]
<1>4. content \in Content
  <2>1. ViewOf(pages, disc)[s] \in Content
    BY ViewType DEF IInv
  <2> QED
    BY <2>1 DEF Content
<1>5. pages' = Modified(g, content)
  BY <1>1, <1>3
<1> HIDE DEF content
<1>6. /\ Sound(pages', disc')
      /\ ViewOf(pages', disc') = [ViewOf(pages, disc) EXCEPT ![s] = content]
      /\ WritesBack(pages, disc, disc')
  BY <1>1, <1>4, <1>5, PutThroughPage
<1>7. content = [View[s] EXCEPT ![o] = v]
  BY ViewNow DEF content
<1> QED
  BY <1>1, <1>6, <1>7, ViewNow DEF IInv, Memory!Write, Memory!Put

\* An erasing write leaves the sector with the bytes it is given and Zero.
LEMMA EraseWriteStep ==
    ASSUME IInv, NEW s \in Sectors, NEW o \in Offsets, NEW v \in Values,
           EraseWritePartialSector(s, o, v)
    PROVE  IInv' /\ Memory!EraseWrite(s, o, v)
<1> DEFINE content == [p \in Offsets |-> IF p = o THEN v ELSE Zero]
<1>1. PICK g \in GetSector(s) :
        g.page # 0 /\ disc' = g.disc /\ answer' = "done" /\ pages' = Modified(g, content)
  BY DEF EraseWritePartialSector, Using
<1>2. content \in Content
  BY CacheAssumption DEF Content
<1> HIDE DEF content
<1>3. /\ Sound(pages', disc')
      /\ ViewOf(pages', disc') = [ViewOf(pages, disc) EXCEPT ![s] = content]
      /\ WritesBack(pages, disc, disc')
  BY <1>1, <1>2, PutThroughPage
<1> QED
  BY <1>1, <1>3, ViewNow DEF IInv, Memory!EraseWrite, Memory!Put, content

\* A call the disc failed changes no sector.
LEMMA FailStep ==
    ASSUME IInv, NEW s \in Sectors, NoPage(s)
    PROVE  IInv' /\ Memory!Fail
<1>1. PICK g \in GetSector(s) :
        pages' = g.pages /\ disc' = g.disc /\ answer' = "error"
  BY DEF NoPage
<1>2. /\ Sound(g.pages, g.disc) /\ ViewOf(g.pages, g.disc) = ViewOf(pages, disc)
      /\ WritesBack(pages, disc, g.disc)
  BY GetSectorKeepsView
<1> QED
  BY <1>1, <1>2, ViewNow DEF IInv, Memory!Fail

\* Every step keeps the invariant and is a step of the memory.
LEMMA NextIsMemoryStep ==
    ASSUME IInv, [Next]_vars
    PROVE  IInv' /\ [Memory!Next]_<<View, disc, answer>>
<1>1. ASSUME NEW s \in Sectors, NEW o \in Offsets, ReadPartialSector(s, o)
      PROVE  IInv' /\ Memory!Next
  BY <1>1, ReadStep DEF Memory!Next
<1>2. ASSUME NEW s \in Sectors, NEW o \in Offsets, NEW v \in Values,
             WritePartialSector(s, o, v)
      PROVE  IInv' /\ Memory!Next
  BY <1>2, WriteStep DEF Memory!Next
<1>3. ASSUME NEW s \in Sectors, NEW o \in Offsets, NEW v \in Values,
             EraseWritePartialSector(s, o, v)
      PROVE  IInv' /\ Memory!Next
  BY <1>3, EraseWriteStep DEF Memory!Next
<1>4. ASSUME NEW s \in Sectors, NoPage(s)
      PROVE  IInv' /\ Memory!Next
  BY <1>4, FailStep DEF Memory!Next
<1>5. CASE Flush
  <2>1. Sound(pages', disc') /\ View' = View /\ Memory!WriteBack
    BY <1>5, FlushKeepsView, ViewNow
  <2>2. answer' = "flushed"
    BY <1>5 DEF Flush
  <2> QED
    BY <2>1, <2>2 DEF IInv, Memory!Flush, Memory!Next
<1>6. CASE Invalidate
  <2>1. Sound(pages', disc') /\ View' = disc
    BY <1>6, InvalidateReadsDisc, ViewNow
  <2> QED
    BY <1>6, <2>1 DEF IInv, Invalidate, Memory!Invalidate, Memory!Next
<1>7. CASE UNCHANGED vars
  BY <1>7 DEF vars, IInv, View, Holds
<1> QED
  BY <1>1, <1>2, <1>3, <1>4, <1>5, <1>6, <1>7 DEF Next

\* A cache that holds nothing shows the disc.
LEMMA InitIsMemoryInit ==
    ASSUME Init
    PROVE  IInv /\ Memory!Init
<1>1. /\ disc \in [Sectors -> Content]
      /\ pages \in [Page -> PageState]
      /\ \A i \in Page : pages[i].sector = CACHE_FREE
  BY CacheAssumption DEF Init, PageState, Content
<1>2. IInv
  BY <1>1 DEF IInv, Sound, Injective, Clean
<1>3. View = disc
  BY <1>1, CacheAssumption DEF View, Holds
<1> QED
  BY <1>1, <1>2, <1>3 DEF Init, Memory!Init, Memory!Content, Content

\* In every state no two pages hold one sector and clean pages match the disc.
THEOREM CacheInvariant == Spec => []IInv
<1>1. Init => IInv
  BY InitIsMemoryInit
<1>2. IInv /\ [Next]_vars => IInv'
  BY NextIsMemoryStep
<1> QED
  BY <1>1, <1>2, PTL DEF Spec

\* However many pages the cache has and whichever reads and writes the disc
\* refuses, no sector is ever in two of them.
THEOREM SectorsAreHeldOnce == Spec => []OnePagePerSector
<1>1. ASSUME IInv
      PROVE  OnePagePerSector
  <2> SUFFICES ASSUME NEW s \in Sectors
               PROVE  Cardinality(Holds(s)) <= 1
    BY DEF OnePagePerSector
  <2>1. CASE Holds(s) = {}
    BY <2>1, FS_EmptySet
  <2>2. ASSUME NEW i \in Holds(s)
        PROVE  Cardinality(Holds(s)) <= 1
    <3>1. Holds(s) = {i}
      BY <1>1, CacheAssumption DEF IInv, Sound, Injective, Holds
    <3> QED
      BY <3>1, FS_Singleton
  <2> QED
    BY <2>1, <2>2
<1> QED
  BY <1>1, CacheInvariant, PTL

\* Dropping a clean page never loses a byte.
THEOREM CleanPagesAreOnDisc == Spec => []CleanPagesMatchDisc
<1>1. IInv => CleanPagesMatchDisc
  BY DEF IInv, Sound, Clean, CleanPagesMatchDisc
<1> QED
  BY <1>1, CacheInvariant, PTL

\* The cache is a memory of sectors to its callers.
THEOREM CacheImplementsMemory == Spec => ImplementsMemory
<1>1. Init => Memory!Init
  BY InitIsMemoryInit
<1>2. IInv /\ [Next]_vars => [Memory!Next]_<<View, disc, answer>>
  BY NextIsMemoryStep
<1> QED
  BY <1>1, <1>2, CacheInvariant, PTL DEF Spec, ImplementsMemory, Memory!Spec
=============================================================================
