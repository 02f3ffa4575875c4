---------------------------- MODULE TripLogProofs ----------------------------
(***************************************************************************)
(* The trip log, for a ring of any size, any number of records and of      *)
(* power cuts: the types, and, where an interrupted operation does not     *)
(* leave a blank magic and erases succeed, that the boot scan finds what   *)
(* is newest, that sequence numbers and trips follow the writes, and that  *)
(* an erase only takes sectors of the runway.                              *)
(***************************************************************************)
EXTENDS TripLog, FiniteSetTheorems, TLAPS

-----------------------------------------------------------------------------
(* The ring *)

LEMMA SectorTypes == NSectors \in Nat /\ NSectors > 1 /\ 0 \in Sectors /\ 0 \in Indices
BY RingAssumption DEF Sectors, Indices

\* How far ahead a sector is.
LEMMA DistIs ==
    ASSUME NEW a \in Sectors, NEW b \in Sectors
    PROVE  /\ a \in Nat /\ b \in Nat /\ a < NSectors /\ b < NSectors
           /\ a <= b => RingDist(a, b) = b - a
           /\ a > b => RingDist(a, b) = b + NSectors - a
           /\ RingDist(a, b) \in 0 .. NSectors - 1
BY SectorTypes DEF RingDist, Sectors

LEMMA NextIs ==
    ASSUME NEW a \in Sectors
    PROVE  /\ Next1(a) \in Sectors
           /\ a + 1 < NSectors => Next1(a) = a + 1
           /\ a + 1 = NSectors => Next1(a) = 0
BY SectorTypes DEF Next1, Sectors

LEMMA AheadIs ==
    ASSUME NEW a \in Sectors, NEW n \in Nat
    PROVE  /\ Ahead(a, n) \in Sectors
           /\ n < NSectors => RingDist(a, Ahead(a, n)) = n
<1>1. a + n \in Nat
  BY SectorTypes DEF Sectors
<1>2. Ahead(a, n) \in Sectors
  BY <1>1, SectorTypes DEF Ahead, Sectors
<1>3. ASSUME n < NSectors PROVE Ahead(a, n) = IF a + n < NSectors THEN a + n ELSE a + n - NSectors
  BY <1>3, SectorTypes DEF Ahead, Sectors
<1>4. ASSUME n < NSectors PROVE RingDist(a, Ahead(a, n)) = n
  <2>1. PICK b \in Sectors : b = Ahead(a, n)
    BY <1>2
  <2>2. b = IF a + n < NSectors THEN a + n ELSE a + n - NSectors
    BY <1>3, <1>4, <2>1
  <2>3. /\ a \in Nat /\ a < NSectors
        /\ a <= b => RingDist(a, b) = b - a
        /\ a > b => RingDist(a, b) = b + NSectors - a
    BY DistIs
  <2> QED
    BY <1>4, <2>1, <2>2, <2>3, SectorTypes
<1> QED
  BY <1>2, <1>4

\* Seen from the sector after it, a sector is the farthest; the others have
\* come one nearer.
LEMMA DistNext ==
    ASSUME NEW c \in Sectors, NEW a \in Sectors
    PROVE  RingDist(Next1(c), a) = IF a = c THEN NSectors - 1 ELSE RingDist(c, a) - 1
BY SectorTypes, DistIs, NextIs

LEMMA DistSame ==
    ASSUME NEW c \in Sectors, NEW a \in Sectors, NEW b \in Sectors
    PROVE  /\ RingDist(c, a) = RingDist(c, b) => a = b
           /\ RingDist(c, a) = 0 <=> a = c
BY SectorTypes, DistIs

\* Seen from the sector after b, the order of those up to b stays.
LEMMA DistTurned ==
    ASSUME NEW c \in Sectors, NEW a \in Sectors, NEW b \in Sectors, RingDist(c, a) <= RingDist(c, b)
    PROVE  RingDist(Next1(b), a) = RingDist(c, a) + NSectors - 1 - RingDist(c, b)
<1>1. PICK d \in Sectors : d = Next1(b)
  BY NextIs
<1>2. d = IF b + 1 = NSectors THEN 0 ELSE b + 1
  <2>1. b + 1 = NSectors \/ b + 1 < NSectors
    BY DistIs, SectorTypes
  <2> QED
    BY <1>1, <2>1, NextIs
<1>3. RingDist(d, a) = IF d <= a THEN a - d ELSE a + NSectors - d
  BY DistIs
<1>4. /\ RingDist(c, a) = IF c <= a THEN a - c ELSE a + NSectors - c
      /\ RingDist(c, b) = IF c <= b THEN b - c ELSE b + NSectors - c
  BY DistIs
<1>5. {a, b, c} \subseteq 0 .. NSectors - 1
  BY DEF Sectors
<1> QED
  BY <1>1, <1>2, <1>3, <1>4, <1>5, SectorTypes

LEMMA AfterIs ==
    ASSUME NEW s \in Slots
    PROVE  /\ s.sec \in Sectors /\ s.in \in Indices /\ SlotAfter(s) \in Slots
           /\ s.in + 1 < RecsPerSector =>
                 SlotAfter(s).sec = s.sec /\ SlotAfter(s).in = s.in + 1
           /\ s.in + 1 = RecsPerSector =>
                 SlotAfter(s).sec = Next1(s.sec) /\ SlotAfter(s).in = 0
           /\ s.in + 1 <= RecsPerSector
           /\ FreshSector(SlotAfter(s)) = Next1(s.sec)
           /\ FreshSector(s) \in Sectors
<1>1. s.sec \in Sectors /\ s.in \in Indices /\ Next1(s.sec) \in Sectors
  BY NextIs DEF Slots
<1>2. s.in + 1 <= RecsPerSector /\ s.in \in Nat /\ RecsPerSector \in Nat \ {0}
  BY <1>1, RingAssumption DEF Indices
<1>3. CASE s.in + 1 < RecsPerSector
  <2>1. SlotAfter(s) = Slot(s.sec, s.in + 1) /\ s.in + 1 \in Indices /\ s.in + 1 # 0
    BY <1>2, <1>3 DEF SlotAfter, Indices
  <2> QED
    BY <1>1, <1>2, <1>3, <2>1 DEF Slot, Slots, FreshSector
<1>4. CASE ~(s.in + 1 < RecsPerSector)
  <2>1. SlotAfter(s) = Slot(Next1(s.sec), 0)
    BY <1>4 DEF SlotAfter
  <2> QED
    BY <1>1, <1>2, <1>4, <2>1, SectorTypes DEF Slot, Slots, FreshSector
<1> QED
  BY <1>3, <1>4

-----------------------------------------------------------------------------
(* The flash operations *)

Flashes == [Sectors -> [Indices -> Contents]]

LEMMA JunkIs ==
    ASSUME NEW st \in States
    PROVE  Junk(st) \in Contents /\ Junk(st).state = st
BY DEF Junk, Contents

\* Some sectors of f have been erased, or broken by an interrupted erase.
Wiped(f, g) ==
    /\ f \in Flashes /\ g \in Flashes
    /\ \A a \in Sectors : \/ g[a] = f[a]
                          \/ \E st \in {"erased", "torn"} : \A i \in Indices : g[a][i].state = st

LEMMA FilledIs ==
    ASSUME NEW f \in Flashes, NEW a \in Sectors, NEW st \in States
    PROVE  /\ FilledWith(f, a, st) \in Flashes
           /\ \A b \in Sectors : b # a => FilledWith(f, a, st)[b] = f[b]
           /\ \A i \in Indices : FilledWith(f, a, st)[a][i] = Junk(st)
           /\ st \in {"erased", "torn"} => Wiped(f, FilledWith(f, a, st))
<1> DEFINE g == FilledWith(f, a, st)
<1>1. [i \in Indices |-> Junk(st)] \in [Indices -> Contents]
  BY JunkIs
<1>2. g \in Flashes
  BY <1>1 DEF FilledWith, Flashes
<1>3. \A b \in Sectors : g[b] = IF b = a THEN [i \in Indices |-> Junk(st)] ELSE f[b]
  BY DEF FilledWith, Flashes
<1> HIDE DEF g
<1>4. \A i \in Indices : g[a][i] = Junk(st)
  BY <1>3
<1>5. st \in {"erased", "torn"} => Wiped(f, g)
  <2>1. \A i \in Indices : g[a][i].state = st
    BY <1>4, JunkIs
  <2> QED
    BY <1>2, <1>3, <2>1 DEF Wiped
<1> QED
  BY <1>2, <1>3, <1>4, <1>5 DEF g

LEMMA EnteredIs ==
    ASSUME NEW f \in Flashes, NEW h \in Slots
    PROVE  /\ Wiped(f, Entered(f, h))
           /\ \A b \in Sectors : b # h.sec => Entered(f, h)[b] = f[b]
           /\ h.in > 0 => Entered(f, h) = f
           /\ h.in = 0 => SectorIsClean(Entered(f, h), h.sec)
<1>1. h.sec \in Sectors /\ "erased" \in States /\ h.in \in Nat
  BY AfterIs DEF States, Indices
<1>2. CASE h.in = 0 /\ ~SectorIsClean(f, h.sec)
  <2>1. Entered(f, h) = FilledWith(f, h.sec, "erased")
    BY <1>2 DEF Entered, Erased
  <2>2. SectorIsClean(Entered(f, h), h.sec)
    BY <1>1, <2>1, FilledIs, JunkIs, SectorTypes DEF SectorIsClean
  <2> QED
    BY <1>1, <1>2, <2>1, <2>2, FilledIs
<1>3. CASE ~(h.in = 0 /\ ~SectorIsClean(f, h.sec))
  BY <1>3 DEF Entered, Wiped
<1> QED
  BY <1>2, <1>3

LEMMA RunwayIs ==
    ASSUME NEW f \in Flashes, NEW c \in Sectors, NEW n \in Nat
    PROVE  /\ Wiped(f, RunwayBuilt(f, c, n)) /\ Wiped(f, RunwayStarted(f, c, n))
           /\ \A a \in Sectors :
                 /\ RingDist(c, a) >= n => RunwayBuilt(f, c, n)[a] = f[a]
                 /\ RingDist(c, a) >= RunwayBootMin => RunwayStarted(f, c, n)[a] = f[a]
<1> DEFINE blank == [i \in Indices |-> Junk("erased")]
<1>1. /\ blank \in [Indices -> Contents]
      /\ \A i \in Indices : blank[i].state = "erased"
  BY JunkIs DEF States
<1>2. /\ RunwayBuilt(f, c, n) = [a \in Sectors |->
            IF RingDist(c, a) < n /\ ~SectorIsClean(f, a) THEN blank ELSE f[a]]
      /\ RunwayStarted(f, c, n) = [a \in Sectors |->
            IF n <= RingDist(c, a) /\ RingDist(c, a) < RunwayBootMin THEN blank ELSE f[a]]
  BY DEF RunwayBuilt, RunwayStarted
<1> HIDE DEF blank
<1>3. \A a \in Sectors : f[a] \in [Indices -> Contents]
  BY DEF Flashes
<1>4. Wiped(f, RunwayBuilt(f, c, n)) /\ Wiped(f, RunwayStarted(f, c, n))
  BY <1>1, <1>2, <1>3 DEF Wiped, Flashes
<1>5. \A a \in Sectors : RingDist(c, a) \in Nat
  BY DistIs
<1> QED
  BY <1>2, <1>4, <1>5, RingAssumption

LEMMA WipedTwice ==
    ASSUME NEW f, NEW g, NEW h, Wiped(f, g), Wiped(g, h)
    PROVE  Wiped(f, h)
BY DEF Wiped

LEMMA ProgrammedIs ==
    ASSUME NEW f \in Flashes, NEW s \in Slots, NEW rec \in Contents
    PROVE  /\ Programmed(f, s, rec) \in Flashes
           /\ \A a \in Sectors, i \in Indices : a # s.sec \/ i # s.in =>
                 Programmed(f, s, rec)[a][i] = f[a][i]
           /\ Programmed(f, s, rec)[s.sec][s.in] =
                 IF f[s.sec][s.in].state = "erased" THEN rec ELSE Junk("torn")
<1>1. s.sec \in Sectors /\ s.in \in Indices
  BY AfterIs
<1>2. PICK r : r = IF f[s.sec][s.in].state = "erased" THEN rec ELSE Junk("torn")
  OBVIOUS
<1>3. r \in Contents
  BY <1>2, JunkIs DEF States
<1>4. Programmed(f, s, rec) = [f EXCEPT ![s.sec][s.in] = r]
  BY <1>1, <1>2 DEF Programmed, Flashes
<1> QED
  BY <1>1, <1>2, <1>3, <1>4 DEF Flashes

LEMMA TornIs ==
    ASSUME NEW f \in Flashes, NEW s \in Slots, NEW st \in {"torn", "nomagic"}
    PROVE  /\ TornAt(f, s, st) \in Flashes
           /\ \A a \in Sectors, i \in Indices : a # s.sec \/ i # s.in =>
                 TornAt(f, s, st)[a][i] = f[a][i]
           /\ TornAt(f, s, st)[s.sec][s.in].state \in {st, "torn"}
<1>1. s.sec \in Sectors /\ s.in \in Indices
  BY AfterIs
<1>2. PICK r : r = IF f[s.sec][s.in].state = "erased" THEN Junk(st) ELSE Junk("torn")
  OBVIOUS
<1>3. r \in Contents /\ r.state \in {st, "torn"}
  BY <1>2, JunkIs DEF States
<1>4. TornAt(f, s, st) = [f EXCEPT ![s.sec][s.in] = r]
  BY <1>1, <1>2 DEF TornAt, Flashes
<1> QED
  BY <1>1, <1>3, <1>4 DEF Flashes

-----------------------------------------------------------------------------
(* The invariant *)

\* A sector with a readable record has one in its first slot.
Formed(f) == \A a \in Sectors, i \in Indices : Valid(f, a, i) => Valid(f, a, 0)

\* The first slot of a sector does not lie: no magic is blank over a programmed
\* slot, and a sector whose first slot is erased is erased.
NoBlank(f) ==
    \A a \in Sectors, i \in Indices :
        /\ f[a][i].state # "nomagic"
        /\ f[a][0].state = "erased" => f[a][i].state = "erased"

\* With c the sector written longest ago: index i of sector a was written before
\* index j of sector b, and so many slots before.
Older(c, a, i, b, j) == RingDist(c, a) < RingDist(c, b) \/ (a = b /\ i < j)

Between(c, a, i, b, j) == (RingDist(c, b) - RingDist(c, a)) * RecsPerSector + (j - i)

Ordered(f, c) ==
    \A a, b \in Sectors, i, j \in Indices :
        Valid(f, a, i) /\ Valid(f, b, j) /\ Older(c, a, i, b, j) =>
            /\ f[a][i].seq < f[b][j].seq /\ f[a][i].trip <= f[b][j].trip
            /\ Between(c, a, i, b, j) <= f[b][j].id - f[a][i].id

Bounded(f, n) ==
    \A a \in Sectors, i \in Indices :
        Valid(f, a, i) => f[a][i].id \in 1 .. n /\ f[a][i].seq \in 1 .. n

\* Of the n records the flash has acknowledged, the readable ones lie in the
\* order they were written in, beginning with sector c.
LogInv(f, c, n) == Formed(f) /\ NoBlank(f) /\ Ordered(f, c) /\ Bounded(f, n)

\* The slots from h to the end of its sector, if that has been entered.
Slack(h) == IF h.in = 0 THEN 0 ELSE RecsPerSector - h.in

\* The writer can go on at h with sequence number sq.
HeadFits(f, h, sq, n) ==
    /\ h.in > 0 => /\ Valid(f, h.sec, 0)
                   /\ \A i \in Indices : i >= h.in => ~Valid(f, h.sec, i)
    /\ sq \in 1 .. n + 1
    /\ \A a \in Sectors, i \in Indices : Valid(f, a, i) =>
          /\ f[a][i].seq < sq
          /\ (NSectors - RingDist(FreshSector(h), a)) * RecsPerSector - i - Slack(h)
                <= n + 1 - f[a][i].id

\* No record belongs to a later trip than what is queued, or the trip t.
TripsFit(f, q, t) ==
    /\ \A a \in Sectors, i \in Indices : Valid(f, a, i) =>
          f[a][i].trip <= t /\ \A k \in 1 .. Len(q) : f[a][i].trip <= q[k].trip
    /\ \A k, l \in 1 .. Len(q) : k <= l => q[k].trip <= q[l].trip /\ q[l].trip <= t

RingInv ==
    IF power = "off" THEN \E c \in Sectors : LogInv(flash, c, acked)
    ELSE /\ LogInv(flash, FreshSector(head), acked) /\ HeadFits(flash, head, seq, acked)
         /\ TripsFit(flash, queue, trip)

-----------------------------------------------------------------------------
(* Records are lost *)

Loses(f, g) ==
    \A a \in Sectors, i \in Indices :
        Valid(g, a, i) => Valid(f, a, i) /\ g[a][i] = f[a][i]

LEMMA LosesKeeps ==
    ASSUME NEW f, NEW g, NEW c, NEW n \in Nat, LogInv(f, c, n), Loses(f, g), Formed(g), NoBlank(g)
    PROVE  LogInv(g, c, n)
<1>1. Ordered(g, c)
  BY DEF LogInv, Loses, Ordered
<1>2. Bounded(g, n)
  BY DEF LogInv, Loses, Bounded
<1> QED
  BY <1>1, <1>2 DEF LogInv

LEMMA WipedLoses ==
    ASSUME NEW f, NEW g, Wiped(f, g), Formed(f), NoBlank(f)
    PROVE  Loses(f, g) /\ Formed(g) /\ NoBlank(g)
<1>1. \A a \in Sectors : \/ g[a] = f[a]
                         \/ \E st \in {"erased", "torn"} : \A i \in Indices : g[a][i].state = st
  BY DEF Wiped
<1>2. Loses(f, g)
  BY <1>1 DEF Loses, Valid
<1>3. Formed(g)
  BY <1>1 DEF Formed, Valid
<1>4. NoBlank(g)
  BY <1>1, SectorTypes DEF NoBlank
<1> QED
  BY <1>2, <1>3, <1>4

LEMMA WipedKeeps ==
    ASSUME NEW f, NEW g, NEW c, NEW n \in Nat, LogInv(f, c, n), Wiped(f, g)
    PROVE  LogInv(g, c, n)
BY WipedLoses, LosesKeeps DEF LogInv

-----------------------------------------------------------------------------
(* The boot scan *)

\* A nonempty set of numbers has a least one.
LEMMA LeastNumber ==
    ASSUME NEW S, S \subseteq Nat, S # {}
    PROVE  \E x \in S : \A y \in S : x <= y
<1>1. PICK x \in S : \A y \in S : ~ (<<y, x>> \in OpToRel(<, Nat))
  BY NatLessThanWellFounded, WFMin, Zenon
<1>2. \A y \in S : ~(y < x)
  BY <1>1 DEF OpToRel
<1>3. \A y \in S : x <= y
  BY <1>2
<1> QED
  BY <1>3

\* What a bounded function maps highest.
LEMMA Highest ==
    ASSUME NEW S, S # {}, NEW n \in Nat, NEW v \in [S -> 0 .. n]
    PROVE  \E x \in S : \A y \in S : v[y] <= v[x]
<1> DEFINE D == {n - v[x] : x \in S}
<1>1. D \subseteq Nat /\ D # {}
  OBVIOUS
<1>2. PICK d \in D : \A e \in D : d <= e
  <2> HIDE DEF D
  <2> QED
    BY <1>1, LeastNumber
<1>3. PICK x \in S : d = n - v[x]
  OBVIOUS
<1>4. \A y \in S : n - v[x] <= n - v[y]
  BY <1>2, <1>3
<1> QED
  BY <1>4

\* The last of those.
LEMMA HighestLast ==
    ASSUME NEW n \in Nat, NEW k \in Nat, NEW S, S \subseteq 0 .. k, S # {}, NEW v \in [S -> 0 .. n]
    PROVE  \E b \in S : \A o \in S : v[o] < v[b] \/ (v[o] = v[b] /\ o <= b)
<1>1. PICK x \in S : \A y \in S : v[y] <= v[x]
  BY Highest
<1> DEFINE T == {y \in S : v[y] = v[x]}
           w == [y \in T |-> y]
<1>2. T # {} /\ w \in [T -> 0 .. k]
  OBVIOUS
<1>3. PICK b \in T : \A y \in T : w[y] <= w[b]
  <2> HIDE DEF T, w
  <2> QED
    BY <1>2, Highest
<1>4. \A y \in S : v[y] = v[x] => y <= b
  BY <1>3
<1>5. b \in S /\ v[b] = v[x] /\ \A y \in S : v[y] \in 0 .. n
  OBVIOUS
<1> QED
  BY <1>1, <1>4, <1>5

LEMMA BestIs ==
    ASSUME NEW f \in Flashes, NEW n \in Nat, Bounded(f, n), ScannedSectors(f) # {}
    PROVE  /\ BestSector(f) \in Sectors /\ Valid(f, BestSector(f), 0)
           /\ \A a \in Sectors : Valid(f, a, 0) => f[a][0].seq <= f[BestSector(f)][0].seq
<1> DEFINE S == ScannedSectors(f)
           v == [a \in S |-> f[a][0].seq]
<1>1. S \subseteq 0 .. NSectors - 1 /\ NSectors - 1 \in Nat
  BY SectorTypes DEF ScannedSectors, Sectors
<1>2. v \in [S -> 0 .. n]
  BY SectorTypes DEF ScannedSectors, Bounded
<1>3. \E b \in S : \A o \in S : v[o] < v[b] \/ (v[o] = v[b] /\ o <= b)
  <2> HIDE DEF S, v
  <2> QED
    BY <1>1, <1>2, HighestLast DEF S
<1>4. \E b \in S : \A o \in S :
          \/ f[o][0].seq < f[b][0].seq
          \/ f[o][0].seq = f[b][0].seq /\ o <= b
  BY <1>3
<1>5. /\ BestSector(f) \in S
      /\ \A o \in S : \/ f[o][0].seq < f[BestSector(f)][0].seq
                      \/ f[o][0].seq = f[BestSector(f)][0].seq /\ o <= BestSector(f)
  <2> HIDE DEF v
  <2> QED
    BY <1>4 DEF BestSector
<1>6. \A o \in S : f[o][0].seq \in Nat
  BY SectorTypes DEF ScannedSectors, Flashes, Contents
<1> QED
  BY <1>5, <1>6 DEF ScannedSectors

LEMMA LastIs ==
    ASSUME NEW f \in Flashes, NEW n \in Nat, Bounded(f, n), NEW a \in Sectors, Valid(f, a, 0)
    PROVE  /\ LastIndex(f, a) \in Indices /\ Valid(f, a, LastIndex(f, a))
           /\ \A i \in Indices : Valid(f, a, i) => f[a][i].seq <= f[a][LastIndex(f, a)].seq
<1> DEFINE S == {i \in Indices : Valid(f, a, i)}
           v == [i \in S |-> f[a][i].seq]
<1>1. S \subseteq 0 .. RecsPerSector - 1 /\ RecsPerSector - 1 \in Nat /\ S # {}
  BY SectorTypes, RingAssumption DEF Indices
<1>2. v \in [S -> 0 .. n]
  BY DEF Bounded
<1>3. \E b \in S : \A o \in S : v[o] < v[b] \/ (v[o] = v[b] /\ o <= b)
  <2> HIDE DEF S, v
  <2> QED
    BY <1>1, <1>2, HighestLast
<1>4. \E b \in Indices : /\ Valid(f, a, b)
                         /\ \A i \in Indices : Valid(f, a, i) =>
                              \/ f[a][i].seq < f[a][b].seq
                              \/ f[a][i].seq = f[a][b].seq /\ i <= b
  BY <1>3
<1>5. /\ LastIndex(f, a) \in Indices /\ Valid(f, a, LastIndex(f, a))
      /\ \A i \in Indices : Valid(f, a, i) =>
            \/ f[a][i].seq < f[a][LastIndex(f, a)].seq
            \/ f[a][i].seq = f[a][LastIndex(f, a)].seq /\ i <= LastIndex(f, a)
  BY <1>4 DEF LastIndex
<1>6. \A i \in Indices : f[a][i].seq \in Nat
  BY DEF Flashes, Contents
<1> QED
  BY <1>5, <1>6

\* The scan ends at the record written last.
LEMMA ScanEnds ==
    ASSUME NEW f \in Flashes, NEW c \in Sectors, NEW n \in Nat, LogInv(f, c, n),
           ScannedSectors(f) # {},
           NEW b, b = BestSector(f), NEW i, i = LastIndex(f, b)
    PROVE  /\ b \in Sectors /\ i \in Indices /\ Valid(f, b, i)
           /\ \A a \in Sectors, j \in Indices :
                 Valid(f, a, j) => (a = b /\ j = i) \/ Older(c, a, j, b, i)
<1>1. Formed(f) /\ Ordered(f, c) /\ Bounded(f, n)
  BY DEF LogInv
<1>2. /\ b \in Sectors /\ Valid(f, b, 0)
      /\ \A a \in Sectors : Valid(f, a, 0) => f[a][0].seq <= f[b][0].seq
  BY <1>1, BestIs
<1>3. /\ i \in Indices /\ Valid(f, b, i)
      /\ \A j \in Indices : Valid(f, b, j) => f[b][j].seq <= f[b][i].seq
  BY <1>1, <1>2, LastIs
<1>4. \A a \in Sectors, j \in Indices : f[a][j].seq \in Nat
  BY DEF Flashes, Contents
<1>5. ASSUME NEW a \in Sectors, NEW j \in Indices, Valid(f, a, j)
      PROVE  (a = b /\ j = i) \/ Older(c, a, j, b, i)
  <2>1. Valid(f, a, 0)
    BY <1>1, <1>5 DEF Formed
  <2>2. CASE a = b
    <3>1. ASSUME i < j PROVE FALSE
      <4>1. f[b][i].seq < f[b][j].seq
        BY <1>1, <1>2, <1>3, <1>5, <2>2, <3>1 DEF Ordered, Older
      <4> QED
        BY <1>2, <1>3, <1>4, <1>5, <2>2, <4>1
    <3>2. i \in Int /\ j \in Int
      BY <1>3 DEF Indices
    <3> QED
      BY <2>2, <3>1, <3>2 DEF Older
  <2>3. CASE a # b
    <3>1. RingDist(c, a) # RingDist(c, b) /\ RingDist(c, a) \in Nat /\ RingDist(c, b) \in Nat
      BY <1>2, <2>3, DistSame, DistIs
    <3>2. ASSUME RingDist(c, b) < RingDist(c, a) PROVE FALSE
      <4>1. f[b][0].seq < f[a][0].seq
        BY <1>1, <1>2, <2>1, <3>2, SectorTypes DEF Ordered, Older
      <4> QED
        BY <1>2, <1>4, <2>1, <4>1, SectorTypes
    <3> QED
      BY <3>1, <3>2 DEF Older
  <2> QED
    BY <2>2, <2>3
<1> QED
  BY <1>2, <1>3, <1>5

LEMMA OrderTurned ==
    ASSUME NEW f, NEW c \in Sectors, NEW b \in Sectors, Ordered(f, c),
           \A a \in Sectors, i \in Indices : Valid(f, a, i) => RingDist(c, a) <= RingDist(c, b)
    PROVE  Ordered(f, Next1(b))
<1> SUFFICES ASSUME NEW a \in Sectors, NEW d \in Sectors, NEW i \in Indices, NEW j \in Indices,
                    Valid(f, a, i), Valid(f, d, j), Older(Next1(b), a, i, d, j)
             PROVE  /\ f[a][i].seq < f[d][j].seq /\ f[a][i].trip <= f[d][j].trip
                    /\ Between(Next1(b), a, i, d, j) <= f[d][j].id - f[a][i].id
  BY DEF Ordered
<1>1. /\ RingDist(Next1(b), a) = RingDist(c, a) + NSectors - 1 - RingDist(c, b)
      /\ RingDist(Next1(b), d) = RingDist(c, d) + NSectors - 1 - RingDist(c, b)
  BY DistTurned
<1>2. RingDist(c, a) \in Nat /\ RingDist(c, b) \in Nat /\ RingDist(c, d) \in Nat
  BY DistIs
<1>3. Older(c, a, i, d, j)
  BY <1>1, <1>2, SectorTypes DEF Older
<1>4. RingDist(Next1(b), d) - RingDist(Next1(b), a) = RingDist(c, d) - RingDist(c, a)
  BY <1>1, <1>2, SectorTypes
<1>5. Between(Next1(b), a, i, d, j) = Between(c, a, i, d, j)
  BY <1>4 DEF Between
<1> QED
  BY <1>3, <1>5 DEF Ordered

LEMMA BootTypes ==
    ASSUME NEW f \in Flashes, NEW n \in Nat, Bounded(f, n)
    PROVE  /\ BootScan(f).head \in Slots /\ BootScan(f).seq \in 1 .. n + 1
           /\ BootScan(f).trip \in Nat
<1>1. CASE ScannedSectors(f) = {}
  BY <1>1, SectorTypes DEF BootScan, EmptyScan, Slot, Slots
<1>2. CASE ScannedSectors(f) # {}
  <2>1. PICK b : b = BestSector(f)
    OBVIOUS
  <2>2. PICK i : i = LastIndex(f, b)
    OBVIOUS
  <2>3. b \in Sectors /\ i \in Indices /\ Valid(f, b, i)
    BY <1>2, <2>1, <2>2, BestIs, LastIs
  <2>4. /\ BootScan(f).head = SlotAfter(Slot(b, i)) /\ BootScan(f).seq = f[b][i].seq + 1
        /\ BootScan(f).trip = f[b][i].trip
    BY <1>2, <2>1, <2>2 DEF BootScan
  <2>5. Slot(b, i) \in Slots
    BY <2>3 DEF Slot, Slots
  <2>6. f[b][i] \in Contents /\ f[b][i].seq \in 1 .. n
    BY <2>3 DEF Flashes, Bounded
  <2> QED
    BY <2>4, <2>5, <2>6, AfterIs DEF Contents
<1> QED
  BY <1>1, <1>2

\* The writer can go on where the scan has ended.
LEMMA BootFits ==
    ASSUME NEW f \in Flashes, NEW c \in Sectors, NEW n \in Nat, LogInv(f, c, n)
    PROVE  LET scan == BootScan(f)
           IN  /\ LogInv(f, FreshSector(scan.head), n) /\ HeadFits(f, scan.head, scan.seq, n)
               /\ \A a \in Sectors, j \in Indices : Valid(f, a, j) => f[a][j].trip <= scan.trip
<1>1. Formed(f) /\ NoBlank(f) /\ Ordered(f, c) /\ Bounded(f, n)
  BY DEF LogInv
<1>2. CASE ScannedSectors(f) = {}
  <2>1. \A a \in Sectors, j \in Indices : ~Valid(f, a, j)
    BY <1>1, <1>2 DEF Formed, ScannedSectors
  <2>2. BootScan(f).head = Slot(0, 0) /\ BootScan(f).seq = 1
    BY <1>2 DEF BootScan, EmptyScan
  <2>3. BootScan(f).head.in = 0
    BY <2>2 DEF Slot
  <2> QED
    BY <1>1, <2>1, <2>2, <2>3 DEF LogInv, Ordered, HeadFits
<1>3. CASE ScannedSectors(f) # {}
  <2>1. PICK b : b = BestSector(f)
    OBVIOUS
  <2>2. PICK i : i = LastIndex(f, b)
    OBVIOUS
  <2>3. /\ b \in Sectors /\ i \in Indices /\ Valid(f, b, i)
        /\ \A a \in Sectors, j \in Indices :
              Valid(f, a, j) => (a = b /\ j = i) \/ Older(c, a, j, b, i)
    BY <1>3, <2>1, <2>2, ScanEnds
  <2>4. PICK h : h = SlotAfter(Slot(b, i))
    OBVIOUS
  <2>5. /\ BootScan(f).head = h /\ BootScan(f).seq = f[b][i].seq + 1
        /\ BootScan(f).trip = f[b][i].trip
    BY <1>3, <2>1, <2>2, <2>4 DEF BootScan
  <2>6. Slot(b, i) \in Slots /\ Slot(b, i).sec = b /\ Slot(b, i).in = i
    BY <2>3 DEF Slot, Slots
  <2>7. /\ FreshSector(h) = Next1(b) /\ i + 1 <= RecsPerSector
        /\ i + 1 < RecsPerSector => h.sec = b /\ h.in = i + 1
        /\ i + 1 = RecsPerSector => h.in = 0
    BY <2>4, <2>6, AfterIs
  <2>8. \A a \in Sectors, j \in Indices : Valid(f, a, j) => RingDist(c, a) <= RingDist(c, b)
    BY <2>3, DistIs DEF Older
  <2>9. LogInv(f, FreshSector(h), n)
    BY <1>1, <2>3, <2>7, <2>8, OrderTurned DEF LogInv
  <2>10. /\ i \in Nat /\ RecsPerSector \in Nat \ {0}
         /\ \A a \in Sectors, j \in Indices :
               /\ j \in Nat /\ f[a][j].seq \in Nat /\ f[a][j].id \in Nat /\ f[a][j].trip \in Nat
    <3>1. i \in Nat /\ RecsPerSector \in Nat \ {0} /\ \A j \in Indices : j \in Nat
      BY <2>3, RingAssumption DEF Indices
    <3>2. \A a \in Sectors, j \in Indices : f[a][j] \in Contents
      BY DEF Flashes
    <3> QED
      BY <3>1, <3>2 DEF Contents
  <2>11. /\ f[b][i].id <= n /\ f[b][i].seq \in 1 .. n
    BY <1>1, <2>3 DEF Bounded
  <2>12. Slack(h) = RecsPerSector - i - 1
    BY <2>7, <2>10 DEF Slack
  <2>13. ASSUME NEW a \in Sectors, NEW j \in Indices, Valid(f, a, j)
         PROVE  /\ f[a][j].seq <= f[b][i].seq /\ f[a][j].trip <= f[b][i].trip
                /\ (RingDist(c, b) - RingDist(c, a)) * RecsPerSector + (i - j)
                      <= f[b][i].id - f[a][j].id
    <3>1. CASE a = b /\ j = i
      BY <2>3, <2>10, <3>1, DistIs
    <3>2. CASE Older(c, a, j, b, i)
      BY <1>1, <2>3, <2>10, <2>13, <3>2 DEF Ordered, Between
    <3> QED
      BY <2>3, <2>13, <3>1, <3>2
  <2>14. ASSUME NEW a \in Sectors, NEW j \in Indices, Valid(f, a, j)
         PROVE  (NSectors - RingDist(FreshSector(h), a)) * RecsPerSector - j - Slack(h)
                    <= n + 1 - f[a][j].id
    <3>1. PICK k \in Int : k = RingDist(c, b) - RingDist(c, a)
      BY <2>3, DistIs
    <3>2. NSectors - RingDist(FreshSector(h), a) = k + 1
      BY <2>3, <2>7, <2>8, <2>14, <3>1, DistTurned, DistIs, SectorTypes
    <3>3. k * RecsPerSector + (i - j) <= f[b][i].id - f[a][j].id
      BY <2>13, <2>14, <3>1
    <3>4. (k + 1) * RecsPerSector = k * RecsPerSector + RecsPerSector /\ k * RecsPerSector \in Int
      BY <2>10, <3>1
    <3> QED
      BY <2>3, <2>10, <2>11, <2>12, <3>2, <3>3, <3>4
  <2>15. ASSUME h.in > 0
         PROVE  /\ Valid(f, h.sec, 0)
                /\ \A j \in Indices : j >= h.in => ~Valid(f, h.sec, j)
    <3>1. h.sec = b /\ h.in = i + 1
      BY <2>7, <2>10, <2>15
    <3>2. \A j \in Indices : Valid(f, b, j) => j <= i
      BY <2>3, <2>10, DistIs DEF Older
    <3> QED
      BY <1>1, <2>3, <2>10, <3>1, <3>2 DEF Formed
  <2>16. HeadFits(f, h, f[b][i].seq + 1, n)
    BY <2>10, <2>11, <2>13, <2>14, <2>15 DEF HeadFits
  <2> QED
    BY <2>5, <2>9, <2>13, <2>16
<1> QED
  BY <1>2, <1>3

-----------------------------------------------------------------------------
(* The writer *)

\* Nothing is erased under the head.
LEMMA WipedHead ==
    ASSUME NEW f, NEW g, NEW h \in Slots, NEW sq, NEW n \in Nat,
           Wiped(f, g), Formed(f), NoBlank(f), HeadFits(f, h, sq, n),
           h.in > 0 => g[h.sec] = f[h.sec]
    PROVE  HeadFits(g, h, sq, n)
<1>1. Loses(f, g)
  BY WipedLoses
<1>2. h.in > 0 => /\ Valid(g, h.sec, 0)
                  /\ \A i \in Indices : i >= h.in => ~Valid(g, h.sec, i)
  BY DEF HeadFits, Valid
<1> QED
  BY <1>1, <1>2 DEF HeadFits, Loses

\* The sector has been entered: from the head on there is no record.
LEMMA EnteredFits ==
    ASSUME NEW f \in Flashes, NEW h \in Slots, NEW sq, NEW n \in Nat,
           LogInv(f, FreshSector(h), n), HeadFits(f, h, sq, n),
           NEW e, e = Entered(f, h)
    PROVE  /\ e \in Flashes /\ Loses(f, e)
           /\ LogInv(e, FreshSector(h), n) /\ HeadFits(e, h, sq, n)
           /\ \A i \in Indices : i >= h.in => ~Valid(e, h.sec, i)
           /\ h.in = 0 => e[h.sec][0].state = "erased"
<1>1. /\ Wiped(f, e)
      /\ h.in > 0 => e = f
      /\ h.in = 0 => SectorIsClean(e, h.sec)
  BY EnteredIs
<1>2. h.sec \in Sectors /\ h.in \in Nat
  BY AfterIs DEF Indices
<1>3. LogInv(e, FreshSector(h), n)
  BY <1>1, WipedKeeps
<1>4. HeadFits(e, h, sq, n)
  BY <1>1, <1>2, WipedHead, EnteredIs DEF LogInv
<1>5. e \in Flashes /\ Loses(f, e)
  BY <1>1, WipedLoses DEF Wiped, LogInv
<1>6. h.in = 0 => e[h.sec][0].state = "erased"
  BY <1>1, <1>2, <1>3, SectorTypes DEF SectorIsClean, LogInv, NoBlank
<1>7. \A i \in Indices : i >= h.in => ~Valid(e, h.sec, i)
  <2>1. CASE h.in = 0
    <3>1. ~Valid(e, h.sec, 0)
      BY <1>6, <2>1 DEF Valid
    <3> QED
      BY <1>2, <1>3, <3>1 DEF LogInv, Formed
  <2>2. CASE h.in > 0
    BY <1>4, <2>2 DEF HeadFits
  <2> QED
    BY <1>2, <2>1, <2>2
<1> QED
  BY <1>3, <1>4, <1>5, <1>6, <1>7

\* A write that fails, or is cut off.
LEMMA TornKeeps ==
    ASSUME NEW f \in Flashes, NEW h \in Slots, NEW sq, NEW n \in Nat,
           LogInv(f, FreshSector(h), n), HeadFits(f, h, sq, n),
           NEW g, g = TornAt(Entered(f, h), h, "torn")
    PROVE  Loses(f, g) /\ LogInv(g, FreshSector(h), n) /\ HeadFits(g, h, sq, n)
<1>1. PICK e : e = Entered(f, h)
  OBVIOUS
<1>2. /\ e \in Flashes /\ Loses(f, e)
      /\ LogInv(e, FreshSector(h), n) /\ HeadFits(e, h, sq, n)
      /\ \A i \in Indices : i >= h.in => ~Valid(e, h.sec, i)
  BY <1>1, EnteredFits
<1>3. h.sec \in Sectors /\ h.in \in Indices /\ h.in \in Nat /\ Indices \subseteq Nat
  BY AfterIs DEF Indices
<1>4. /\ \A a \in Sectors, i \in Indices : a # h.sec \/ i # h.in => g[a][i] = e[a][i]
      /\ g[h.sec][h.in].state = "torn"
  BY <1>1, <1>2, TornIs
<1>5. Loses(e, g)
  BY <1>3, <1>4 DEF Loses, Valid
<1>6. Formed(g)
  <2> SUFFICES ASSUME NEW a \in Sectors, NEW i \in Indices, Valid(g, a, i) PROVE Valid(g, a, 0)
    BY DEF Formed
  <2>1. Valid(e, a, i) /\ Valid(e, a, 0)
    BY <1>2, <1>5 DEF Loses, LogInv, Formed
  <2>2. a # h.sec \/ h.in # 0
    BY <1>2, <1>3, <2>1, SectorTypes
  <2> QED
    BY <1>4, <2>1, <2>2, SectorTypes DEF Valid
<1>7. NoBlank(g)
  <2> SUFFICES ASSUME NEW a \in Sectors, NEW i \in Indices
               PROVE  /\ g[a][i].state # "nomagic"
                      /\ g[a][0].state = "erased" => g[a][i].state = "erased"
    BY DEF NoBlank
  <2>1. /\ e[a][i].state # "nomagic"
        /\ e[a][0].state = "erased" => e[a][i].state = "erased"
    BY <1>2 DEF LogInv, NoBlank
  <2>2. a = h.sec /\ h.in # 0 => e[a][0].state = "valid"
    BY <1>2, <1>3 DEF HeadFits, Valid
  <2> QED
    BY <1>3, <1>4, <2>1, <2>2, SectorTypes
<1>8. LogInv(g, FreshSector(h), n)
  BY <1>2, <1>5, <1>6, <1>7, LosesKeeps
<1>9. HeadFits(g, h, sq, n)
  <2>1. h.in > 0 => /\ Valid(g, h.sec, 0)
                    /\ \A i \in Indices : i >= h.in => ~Valid(g, h.sec, i)
    <3>1. h.in > 0 => Valid(g, h.sec, 0)
      BY <1>2, <1>3, <1>4, SectorTypes DEF HeadFits, Valid
    <3>2. \A i \in Indices : i >= h.in => ~Valid(g, h.sec, i)
      BY <1>2, <1>3, <1>5 DEF Loses
    <3> QED
      BY <3>1, <3>2
  <2> QED
    BY <1>2, <1>5, <2>1 DEF HeadFits, Loses
<1>10. Loses(f, g)
  BY <1>2, <1>5 DEF Loses
<1> QED
  BY <1>8, <1>9, <1>10

\* A record is programmed.
LEMMA AppendKeeps ==
    ASSUME NEW f \in Flashes, NEW h \in Slots, NEW sq, NEW n \in Nat,
           LogInv(f, FreshSector(h), n), HeadFits(f, h, sq, n),
           NEW rec \in Contents, rec.state = "valid", rec.seq = sq, rec.id = n + 1,
           \A a \in Sectors, i \in Indices : Valid(f, a, i) => f[a][i].trip <= rec.trip,
           NEW g, g = Programmed(Entered(f, h), h, rec)
    PROVE  /\ g \in Flashes
           /\ \A a \in Sectors, i \in Indices : Valid(g, a, i) =>
                 \/ a = h.sec /\ i = h.in /\ g[a][i] = rec
                 \/ Valid(f, a, i) /\ g[a][i] = f[a][i]
           /\ LogInv(g, FreshSector(SlotAfter(h)), n + 1)
           /\ HeadFits(g, SlotAfter(h), sq + 1, n + 1)
<1>1. PICK e : e = Entered(f, h)
  OBVIOUS
<1>2. /\ e \in Flashes /\ Loses(f, e)
      /\ LogInv(e, FreshSector(h), n) /\ HeadFits(e, h, sq, n)
      /\ \A i \in Indices : i >= h.in => ~Valid(e, h.sec, i)
      /\ h.in = 0 => e[h.sec][0].state = "erased"
  BY <1>1, EnteredFits
<1>3. /\ h.sec \in Sectors /\ h.in \in Indices /\ h.in \in Nat /\ Indices \subseteq Nat
      /\ RecsPerSector \in Nat \ {0} /\ h.in + 1 <= RecsPerSector
  BY AfterIs, RingAssumption DEF Indices
<1>4. /\ g \in Flashes
      /\ \A a \in Sectors, i \in Indices : a # h.sec \/ i # h.in => g[a][i] = e[a][i]
      /\ g[h.sec][h.in] = IF e[h.sec][h.in].state = "erased" THEN rec ELSE Junk("torn")
  BY <1>1, <1>2, ProgrammedIs
<1>5. Junk("torn").state = "torn"
  BY JunkIs DEF States
\* What is readable afterwards.
<1>6. ASSUME NEW a \in Sectors, NEW i \in Indices, Valid(g, a, i)
      PROVE  \/ a = h.sec /\ i = h.in /\ g[a][i] = rec
             \/ (a # h.sec \/ i < h.in) /\ Valid(e, a, i) /\ g[a][i] = e[a][i]
  <2>1. CASE a = h.sec /\ i = h.in
    BY <1>4, <1>5, <1>6, <2>1 DEF Valid
  <2>2. CASE a # h.sec \/ i # h.in
    <3>1. g[a][i] = e[a][i] /\ Valid(e, a, i)
      BY <1>4, <1>6, <2>2 DEF Valid
    <3>2. a # h.sec \/ i < h.in
      BY <1>2, <1>3, <3>1
    <3> QED
      BY <3>1, <3>2
  <2> QED
    BY <2>1, <2>2
<1>7. \A a \in Sectors, i \in Indices : Valid(g, a, i) =>
          \/ a = h.sec /\ i = h.in /\ g[a][i] = rec
          \/ Valid(f, a, i) /\ g[a][i] = f[a][i]
  BY <1>2, <1>6 DEF Loses
<1>8. \A a \in Sectors, i \in Indices :
          /\ i \in Nat /\ f[a][i].seq \in Nat /\ f[a][i].trip \in Nat /\ f[a][i].id \in Nat
          /\ e[a][i].seq \in Nat /\ e[a][i].trip \in Nat /\ e[a][i].id \in Nat
  <2>1. \A a \in Sectors, i \in Indices : i \in Nat /\ f[a][i] \in Contents /\ e[a][i] \in Contents
    BY <1>2, <1>3 DEF Flashes
  <2> QED
    BY <2>1 DEF Contents
<1> DEFINE F == FreshSector(h)
           N == Next1(h.sec)
<1>9. /\ FreshSector(SlotAfter(h)) = N /\ N \in Sectors /\ F \in Sectors
      /\ h.in = 0 => F = h.sec
      /\ h.in > 0 => F = N
  BY <1>3, AfterIs, NextIs DEF FreshSector
<1>10. RingDist(N, h.sec) = NSectors - 1
  BY <1>3, DistNext
<1> HIDE DEF F, N
\* The sectors not entered keep their order, seen from the sector after.
<1>11. ASSUME NEW a \in Sectors, NEW i \in Indices, Valid(e, a, i)
       PROVE  /\ h.in = 0 => a # h.sec /\ RingDist(N, a) = RingDist(F, a) - 1
              /\ h.in > 0 => RingDist(N, a) = RingDist(F, a)
  <2>1. h.in = 0 => a # h.sec
    BY <1>2, <1>3, <1>11
  <2> QED
    BY <1>3, <1>9, <2>1, DistNext DEF N
<1>12. \A a \in Sectors : RingDist(N, a) \in Nat /\ RingDist(F, a) \in Nat
                          /\ RingDist(N, a) <= NSectors - 1
  BY <1>9, DistIs, SectorTypes
\* How far back they are.
<1>13. ASSUME NEW a \in Sectors, NEW i \in Indices, Valid(e, a, i)
       PROVE  (NSectors - 1 - RingDist(N, a)) * RecsPerSector + (h.in - i) <= n + 1 - e[a][i].id
  <2>1. (NSectors - RingDist(F, a)) * RecsPerSector - i - Slack(h) <= n + 1 - e[a][i].id
    BY <1>2, <1>13 DEF HeadFits, F
  <2>2. PICK k \in Int : k = NSectors - 1 - RingDist(N, a)
    BY <1>12, SectorTypes
  <2>3. CASE h.in = 0
    <3>1. NSectors - RingDist(F, a) = k /\ Slack(h) = 0
      BY <1>11, <1>12, <1>13, <2>2, <2>3, SectorTypes DEF Slack
    <3>2. k * RecsPerSector \in Int /\ i \in Nat
      BY <1>3, <2>2
    <3> QED
      BY <1>8, <2>1, <2>2, <2>3, <3>1, <3>2
  <2>4. CASE h.in > 0
    <3>1. NSectors - RingDist(F, a) = k + 1 /\ Slack(h) = RecsPerSector - h.in
      BY <1>11, <1>12, <1>13, <2>2, <2>4, SectorTypes DEF Slack
    <3>2. (k + 1) * RecsPerSector = k * RecsPerSector + RecsPerSector
          /\ k * RecsPerSector \in Int /\ i \in Nat
      BY <1>3, <2>2
    <3> QED
      BY <1>3, <1>8, <2>1, <2>2, <3>1, <3>2
  <2> QED
    BY <1>3, <2>3, <2>4
<1>14. sq \in 1 .. n + 1 /\ \A a \in Sectors, i \in Indices : Valid(e, a, i) => e[a][i].seq < sq
  BY <1>2 DEF HeadFits
<1>15. Formed(g)
  <2> SUFFICES ASSUME NEW a \in Sectors, NEW i \in Indices, Valid(g, a, i) PROVE Valid(g, a, 0)
    BY DEF Formed
  <2>1. CASE a = h.sec /\ h.in = 0
    <3>1. i = h.in
      BY <1>3, <1>6, <2>1
    <3> QED
      BY <2>1, <3>1
  <2>2. CASE ~(a = h.sec /\ h.in = 0)
    <3>1. g[a][0] = e[a][0]
      BY <1>4, <2>2, SectorTypes
    <3>2. a = h.sec => Valid(e, a, 0)
      BY <1>2, <1>3, <2>2 DEF HeadFits
    <3>3. a # h.sec => Valid(e, a, 0)
      BY <1>2, <1>6 DEF LogInv, Formed
    <3> QED
      BY <3>1, <3>2, <3>3 DEF Valid
  <2> QED
    BY <2>1, <2>2
<1>16. NoBlank(g)
  <2> SUFFICES ASSUME NEW a \in Sectors, NEW i \in Indices
               PROVE  /\ g[a][i].state # "nomagic"
                      /\ g[a][0].state = "erased" => g[a][i].state = "erased"
    BY DEF NoBlank
  <2>1. /\ e[a][i].state # "nomagic"
        /\ e[a][0].state = "erased" => e[a][i].state = "erased"
    BY <1>2 DEF LogInv, NoBlank
  <2>2. a = h.sec /\ h.in # 0 => e[a][0].state = "valid"
    BY <1>2, <1>3 DEF HeadFits, Valid
  <2>3. g[h.sec][h.in].state \in {"valid", "torn"}
    BY <1>4, <1>5
  <2> QED
    BY <1>3, <1>4, <2>1, <2>2, <2>3, SectorTypes
<1>17. Bounded(g, n + 1)
  <2> SUFFICES ASSUME NEW a \in Sectors, NEW i \in Indices, Valid(g, a, i)
               PROVE  g[a][i].id \in 1 .. n + 1 /\ g[a][i].seq \in 1 .. n + 1
    BY DEF Bounded
  <2>1. Valid(e, a, i) => e[a][i].id \in 1 .. n /\ e[a][i].seq \in 1 .. n
    BY <1>2 DEF LogInv, Bounded
  <2> QED
    BY <1>6, <1>14, <2>1
<1>18. Ordered(g, N)
  <2> SUFFICES ASSUME NEW a \in Sectors, NEW b \in Sectors, NEW i \in Indices, NEW j \in Indices,
                      Valid(g, a, i), Valid(g, b, j), Older(N, a, i, b, j)
               PROVE  /\ g[a][i].seq < g[b][j].seq /\ g[a][i].trip <= g[b][j].trip
                      /\ Between(N, a, i, b, j) <= g[b][j].id - g[a][i].id
    BY DEF Ordered
  <2>1. CASE /\ Valid(e, a, i) /\ g[a][i] = e[a][i] /\ Valid(e, b, j) /\ g[b][j] = e[b][j]
    <3>1. Older(F, a, i, b, j) /\ Between(F, a, i, b, j) = Between(N, a, i, b, j)
      <4>1. \/ RingDist(N, a) = RingDist(F, a) /\ RingDist(N, b) = RingDist(F, b)
            \/ RingDist(N, a) = RingDist(F, a) - 1 /\ RingDist(N, b) = RingDist(F, b) - 1
        BY <1>3, <1>11, <2>1
      <4>2. RingDist(N, b) - RingDist(N, a) = RingDist(F, b) - RingDist(F, a)
        BY <1>12, <4>1
      <4>3. Older(F, a, i, b, j)
        BY <1>12, <4>1 DEF Older
      <4> QED
        BY <4>2, <4>3 DEF Between
    <3> QED
      BY <1>2, <2>1, <3>1 DEF LogInv, Ordered, F
  <2>2. CASE /\ (a # h.sec \/ i < h.in) /\ Valid(e, a, i) /\ g[a][i] = e[a][i]
             /\ b = h.sec /\ j = h.in /\ g[b][j] = rec
    <3>1. Between(N, a, i, b, j) <= n + 1 - e[a][i].id
      BY <1>10, <1>13, <2>2 DEF Between
    <3>2. e[a][i].trip <= rec.trip
      BY <1>2, <2>2 DEF Loses
    <3>3. e[a][i].seq < sq
      BY <1>14, <2>2
    <3>4. g[a][i] = e[a][i] /\ g[b][j].seq = sq /\ g[b][j].id = n + 1 /\ g[b][j].trip = rec.trip
      BY <2>2
    <3>5. g[a][i].seq < g[b][j].seq
      BY <3>3, <3>4
    <3>6. g[a][i].trip <= g[b][j].trip
      BY <3>2, <3>4
    <3>7. Between(N, a, i, b, j) <= g[b][j].id - g[a][i].id
      BY <1>8, <3>1, <3>4
    <3> QED
      BY <3>5, <3>6, <3>7
  <2>3. CASE a = h.sec /\ i = h.in
    <3>1. b = h.sec /\ h.in < j
      BY <1>10, <1>12, <2>3, SectorTypes DEF Older
    <3> QED
      BY <1>3, <1>6, <3>1
  <2> QED
    BY <1>6, <2>1, <2>2, <2>3
<1>19. LogInv(g, N, n + 1)
  BY <1>15, <1>16, <1>17, <1>18 DEF LogInv
<1>20. HeadFits(g, SlotAfter(h), sq + 1, n + 1)
  <2>1. PICK s \in Slots : s = SlotAfter(h)
    BY AfterIs
  <2>2. /\ h.in + 1 < RecsPerSector => s.sec = h.sec /\ s.in = h.in + 1
        /\ h.in + 1 = RecsPerSector => s.in = 0
    BY <2>1, AfterIs
  <2>3. Slack(s) = RecsPerSector - h.in - 1
    BY <1>3, <2>2 DEF Slack
  <2>4. s.in > 0 => /\ Valid(g, s.sec, 0)
                    /\ \A i \in Indices : i >= s.in => ~Valid(g, s.sec, i)
    <3> SUFFICES ASSUME s.in > 0
                 PROVE  /\ Valid(g, h.sec, 0)
                        /\ \A i \in Indices : i >= h.in + 1 => ~Valid(g, h.sec, i)
      BY <1>3, <2>2
    <3>1. Valid(g, h.sec, 0)
      <4>1. CASE h.in = 0
        BY <1>2, <1>4, <4>1 DEF Valid
      <4>2. CASE h.in # 0
        BY <1>2, <1>3, <1>4, <4>2, SectorTypes DEF HeadFits, Valid
      <4> QED
        BY <4>1, <4>2
    <3>2. ASSUME NEW i \in Indices, i >= h.in + 1, Valid(g, h.sec, i) PROVE FALSE
      BY <1>3, <1>6, <3>2
    <3> QED
      BY <3>1, <3>2
  <2>5. sq + 1 \in 1 .. n + 1 + 1
    BY <1>14
  <2>6. ASSUME NEW a \in Sectors, NEW i \in Indices, Valid(g, a, i)
        PROVE  /\ g[a][i].seq < sq + 1
               /\ (NSectors - RingDist(N, a)) * RecsPerSector - i - Slack(s)
                     <= n + 1 + 1 - g[a][i].id
    <3>1. CASE a = h.sec /\ i = h.in /\ g[a][i] = rec
      <4>1. (NSectors - RingDist(N, a)) * RecsPerSector = RecsPerSector
        <5>1. NSectors - RingDist(N, a) = 1
          BY <1>10, <3>1, SectorTypes
        <5> QED
          BY <1>3, <5>1
      <4> QED
        BY <1>3, <1>14, <2>3, <3>1, <4>1
    <3>2. CASE Valid(e, a, i) /\ g[a][i] = e[a][i]
      <4>1. PICK k \in Int : k = NSectors - 1 - RingDist(N, a)
        BY <1>12, SectorTypes
      <4>2. k * RecsPerSector + (h.in - i) <= n + 1 - e[a][i].id
        BY <1>13, <3>2, <4>1
      <4>3. (k + 1) * RecsPerSector = k * RecsPerSector + RecsPerSector
            /\ k * RecsPerSector \in Int
        BY <1>3, <4>1
      <4>4. NSectors - RingDist(N, a) = k + 1
        BY <1>12, <4>1, SectorTypes
      <4>5. e[a][i].seq < sq
        BY <1>14, <3>2
      <4>6. (k + 1) * RecsPerSector - i - Slack(s) <= n + 1 + 1 - e[a][i].id
        BY <1>3, <1>8, <2>3, <4>2, <4>3
      <4> QED
        BY <1>8, <1>14, <3>2, <4>4, <4>5, <4>6
    <3> QED
      BY <1>6, <2>6, <3>1, <3>2
  <2> QED
    BY <1>9, <2>1, <2>4, <2>5, <2>6 DEF HeadFits
<1> QED
  BY <1>4, <1>7, <1>9, <1>19, <1>20

-----------------------------------------------------------------------------
(* Types *)

TypeInv == TypeOK /\ Bounded(flash, acked) /\ seq \in 1 .. acked + 1

Records == [kind : Kinds, trip : Nat]

LEMMA SentIs ==
    ASSUME NEW q \in Seq(Records), Len(q) <= QueueDepth, NEW kind \in Kinds, NEW t \in Nat
    PROVE  /\ Sent(q, kind, t) \in Seq(Records) /\ Len(Sent(q, kind, t)) <= QueueDepth
           /\ \A i \in 1 .. Len(Sent(q, kind, t)) :
                 \/ i \in 1 .. Len(q) /\ Sent(q, kind, t)[i] = q[i]
                 \/ i = Len(q) + 1 /\ Sent(q, kind, t)[i].trip = t
<1>1. PICK r \in Records : r = [kind |-> kind, trip |-> t]
  BY DEF Records
<1>2. CASE Len(q) < QueueDepth
  <2>1. Sent(q, kind, t) = Append(q, r)
    BY <1>1, <1>2 DEF Sent
  <2>2. /\ Append(q, r) \in Seq(Records) /\ Len(Append(q, r)) = Len(q) + 1
        /\ \A i \in 1 .. Len(q) : Append(q, r)[i] = q[i]
        /\ Append(q, r)[Len(q) + 1] = r
    OBVIOUS
  <2>3. Len(q) \in Nat /\ r.trip = t
    BY <1>1
  <2> QED
    BY <1>2, <2>1, <2>2, <2>3, RingAssumption
<1>3. CASE ~(Len(q) < QueueDepth)
  BY <1>3 DEF Sent
<1> QED
  BY <1>2, <1>3

LEMMA CleanAheadIs ==
    ASSUME NEW f, NEW c
    PROVE  CleanAhead(f, c) \in 0 .. RunwayTarget
<1> DEFINE S == {n \in 0 .. RunwayTarget : n = RunwayTarget \/ ~SectorIsClean(f, Ahead(c, n))}
<1>1. S \subseteq Nat /\ S # {}
  BY RingAssumption
<1>2. PICK n \in S : \A m \in S : n <= m
  <2> HIDE DEF S
  <2> QED
    BY <1>1, LeastNumber
<1>3. \A k \in 0 .. (n - 1) : SectorIsClean(f, Ahead(c, k))
  BY <1>2, RingAssumption
<1>4. \E m \in 0 .. RunwayTarget :
          /\ \A k \in 0 .. (m - 1) : SectorIsClean(f, Ahead(c, k))
          /\ m = RunwayTarget \/ ~SectorIsClean(f, Ahead(c, m))
  BY <1>2, <1>3
<1> QED
  BY <1>4 DEF CleanAhead

LEMMA LosesBounded ==
    ASSUME NEW f, NEW g, NEW n, Bounded(f, n), Loses(f, g)
    PROVE  Bounded(g, n)
BY DEF Bounded, Loses

\* The operations that program no record.
LEMMA BreaksLose ==
    ASSUME NEW f \in Flashes
    PROVE  /\ \A g : Wiped(f, g) => g \in Flashes /\ Loses(f, g)
           /\ \A a \in Sectors, st \in {"erased", "torn", "nomagic"} :
                 FilledWith(f, a, st) \in Flashes /\ Loses(f, FilledWith(f, a, st))
           /\ \A s \in Slots, st \in {"torn", "nomagic"} :
                 TornAt(f, s, st) \in Flashes /\ Loses(f, TornAt(f, s, st))
<1>1. ASSUME NEW g, Wiped(f, g) PROVE g \in Flashes /\ Loses(f, g)
  BY <1>1 DEF Wiped, Loses, Valid
<1>2. ASSUME NEW a \in Sectors, NEW st \in {"erased", "torn", "nomagic"}
      PROVE  FilledWith(f, a, st) \in Flashes /\ Loses(f, FilledWith(f, a, st))
  <2>1. st \in States
    BY DEF States
  <2>2. PICK g : g = FilledWith(f, a, st)
    OBVIOUS
  <2>3. /\ g \in Flashes /\ \A b \in Sectors : b # a => g[b] = f[b]
        /\ \A i \in Indices : g[a][i].state # "valid"
    BY <2>1, <2>2, FilledIs, JunkIs
  <2> QED
    BY <2>2, <2>3 DEF Loses, Valid
<1>3. ASSUME NEW s \in Slots, NEW st \in {"torn", "nomagic"}
      PROVE  TornAt(f, s, st) \in Flashes /\ Loses(f, TornAt(f, s, st))
  <2>1. PICK g : g = TornAt(f, s, st)
    OBVIOUS
  <2>2. /\ g \in Flashes /\ g[s.sec][s.in].state # "valid"
        /\ \A a \in Sectors, i \in Indices : a # s.sec \/ i # s.in => g[a][i] = f[a][i]
    BY <2>1, TornIs
  <2> QED
    BY <2>1, <2>2 DEF Loses, Valid
<1> QED
  BY <1>1, <1>2, <1>3

\* The operations that program one.
LEMMA ProgramBounded ==
    ASSUME NEW f \in Flashes, NEW s \in Slots, NEW rec \in Contents, NEW n \in Nat,
           Bounded(f, n), rec.id = n + 1, rec.seq \in 1 .. n + 1
    PROVE  Programmed(f, s, rec) \in Flashes /\ Bounded(Programmed(f, s, rec), n + 1)
<1>1. PICK g : g = Programmed(f, s, rec)
  OBVIOUS
<1>2. /\ g \in Flashes /\ (g[s.sec][s.in] = rec \/ g[s.sec][s.in].state = "torn")
      /\ \A a \in Sectors, i \in Indices : a # s.sec \/ i # s.in => g[a][i] = f[a][i]
  BY <1>1, ProgrammedIs, JunkIs DEF States
<1>3. ASSUME NEW a \in Sectors, NEW i \in Indices, Valid(g, a, i)
      PROVE  g[a][i].id \in 1 .. n + 1 /\ g[a][i].seq \in 1 .. n + 1
  BY <1>2, <1>3 DEF Bounded, Valid
<1> QED
  BY <1>1, <1>2, <1>3 DEF Bounded

LEMMA TypeInit == Init => TypeInv
<1> SUFFICES ASSUME Init PROVE TypeInv
  OBVIOUS
<1>1. flash \in Flashes /\ \A a \in Sectors, i \in Indices : flash[a][i].state = "erased"
  BY JunkIs DEF Init, Flashes, States
<1>2. Bounded(flash, acked)
  BY <1>1 DEF Bounded, Valid
<1>3. head \in Slots /\ runway \in Sectors /\ power \in {"off", "boot", "run"}
  BY SectorTypes DEF Init, Slot, Slots
<1>4. queue \in Seq([kind : Kinds, trip : Nat]) /\ Len(queue) <= QueueDepth
  <2>1. queue = <<>> /\ QueueDepth \in Nat
    BY RingAssumption DEF Init
  <2> QED
    BY <2>1
<1>5. pendingNew \in BOOLEAN /\ hasBase \in BOOLEAN
  BY Zenon DEF Init
<1>6. /\ deleted \subseteq Nat /\ seq \in 1 .. acked + 1 /\ trip \in Nat
      /\ burst \in Nat /\ acked \in Nat /\ edits \in Nat /\ cuts \in Nat
      /\ wfaults \in Nat /\ efaults \in Nat
  BY DEF Init
<1>7. seq \in Nat
  BY <1>6
<1> QED
  BY <1>1, <1>2, <1>3, <1>4, <1>5, <1>6, <1>7 DEF TypeInv, TypeOK, Flashes

\* What the writer takes from the queue.
LEMMA QueuedIs ==
    ASSUME TypeInv, Writing
    PROVE  /\ QueuedRecord \in Contents /\ QueuedRecord.state = "valid"
           /\ QueuedRecord.seq = seq /\ QueuedRecord.id = acked + 1
           /\ QueuedRecord.trip = queue[1].trip
           /\ Tail(queue) \in Seq(Records) /\ Len(Tail(queue)) = Len(queue) - 1
           /\ Len(queue) \in Nat \ {0} /\ Len(queue) <= QueueDepth
           /\ \A i \in 1 .. Len(queue) - 1 : Tail(queue)[i] = queue[i + 1]
<1>1. queue \in Seq(Records) /\ queue # <<>> /\ Len(queue) <= QueueDepth
  BY DEF TypeInv, TypeOK, Writing, Records
<1>2. queue[1] \in Records /\ Len(queue) \in Nat \ {0}
  BY <1>1
<1>3. /\ Tail(queue) \in Seq(Records) /\ Len(Tail(queue)) = Len(queue) - 1
      /\ \A i \in 1 .. Len(queue) - 1 : Tail(queue)[i] = queue[i + 1]
  BY <1>1
<1>4. seq \in Nat /\ acked \in Nat
  BY DEF TypeInv, TypeOK
<1> QED
  BY <1>1, <1>2, <1>3, <1>4 DEF QueuedRecord, Contents, Records, Kinds, States

LEMMA IdleRunwayIs ==
    ASSUME TypeInv
    PROVE  /\ IdleRunway \in Sectors /\ Next1(IdleRunway) \in Sectors
           /\ FreshSector(head) \in Sectors /\ head.sec \in Sectors
<1>1. FreshSector(head) \in Sectors /\ head.sec \in Sectors
  BY AfterIs DEF TypeInv, TypeOK
<1>2. IdleRunway \in Sectors
  BY <1>1 DEF IdleRunway, TypeInv, TypeOK
<1> QED
  BY <1>1, <1>2, NextIs

LEMMA BootKeepsTypes ==
    ASSUME TypeInv, Boot
    PROVE  TypeInv'
<1>1. /\ BootScan(flash).head \in Slots /\ BootScan(flash).seq \in 1 .. acked + 1
      /\ BootScan(flash).trip \in Nat
  BY BootTypes DEF TypeInv, TypeOK, Flashes
<1>2. /\ head' \in Slots /\ seq' \in 1 .. acked + 1 /\ trip' \in Nat /\ runway' \in Sectors
      /\ power' = "boot" /\ queue' = <<>> /\ burst' = 0
      /\ UNCHANGED <<flash, deleted, acked, edits, cuts, wfaults, efaults>>
  BY <1>1, SectorTypes DEF Boot
<1>3. pendingNew' \in BOOLEAN /\ hasBase' \in BOOLEAN
  BY Zenon DEF Boot
<1> QED
  BY <1>2, <1>3, RingAssumption DEF TypeInv, TypeOK, Bounded, Valid

LEMMA BuildKeepsTypes ==
    ASSUME TypeInv, RunwayBuild
    PROVE  TypeInv'
<1>1. flash \in Flashes /\ FreshSector(head) \in Sectors
  BY IdleRunwayIs DEF TypeInv, TypeOK, Flashes
<1>2. PICK n \in 0 .. RunwayTarget :
         LET fresh == FreshSector(head)
             built == RunwayBuilt(flash, fresh, n)
             clean == CleanAhead(built, fresh)
         IN  /\ flash' = RunwayStarted(built, fresh, clean)
             /\ runway' = Ahead(fresh, IF clean < RunwayBootMin THEN RunwayBootMin ELSE clean)
  BY DEF RunwayBuild
<1>3. PICK built : built = RunwayBuilt(flash, FreshSector(head), n)
  OBVIOUS
<1>4. PICK clean \in 0 .. RunwayTarget : clean = CleanAhead(built, FreshSector(head))
  BY CleanAheadIs
<1>5. Wiped(flash, built) /\ built \in Flashes
  BY <1>1, <1>3, RunwayIs, RingAssumption DEF Wiped
<1>6. Wiped(built, flash')
  BY <1>1, <1>2, <1>3, <1>4, <1>5, RunwayIs, RingAssumption
<1>7. flash' \in Flashes /\ Loses(flash, flash')
  BY <1>1, <1>5, <1>6, WipedTwice, BreaksLose
<1>8. runway' \in Sectors
  BY <1>1, <1>2, <1>3, <1>4, AheadIs, RingAssumption
<1>9. Bounded(flash', acked)
  BY <1>7, LosesBounded DEF TypeInv
<1> QED
  BY <1>7, <1>8, <1>9 DEF RunwayBuild, TypeInv, TypeOK, Flashes

LEMMA UserKeepsTypes ==
    ASSUME TypeInv, UserAndTick
    PROVE  TypeInv'
<1>1. UNCHANGED <<flash, power, head, seq, runway, burst, acked, cuts, wfaults, efaults>>
  BY DEF UserAndTick, NewTrip, Tick, OdoFlush, DeleteTrip, ram
<1>2. trip' \in Nat /\ edits' \in Nat
  <2>1. trip' \in {trip, trip + 1} /\ edits' \in {edits, edits + 1}
    BY DEF UserAndTick, NewTrip, Tick, OdoFlush, DeleteTrip, ram
  <2>2. trip \in Nat /\ edits \in Nat
    BY DEF TypeInv, TypeOK
  <2> QED
    BY <2>1, <2>2
<1>3. pendingNew' \in BOOLEAN
  BY Zenon DEF UserAndTick, NewTrip, Tick, OdoFlush, DeleteTrip, ram, TypeInv, TypeOK
<1>4. hasBase' \in BOOLEAN
  BY Zenon DEF UserAndTick, NewTrip, Tick, OdoFlush, DeleteTrip, ram, TypeInv, TypeOK
<1>5. deleted' \subseteq Nat
  <2>1. CASE DeleteTrip
    <3>1. PICK t \in Listed : deleted' \subseteq {t} \cup deleted
      BY <2>1 DEF DeleteTrip
    <3>2. t \in Nat
      BY DEF Listed, TypeInv, TypeOK
    <3> QED
      BY <3>1, <3>2 DEF TypeInv, TypeOK
  <2>2. CASE NewTrip \/ Tick \/ OdoFlush
    BY <2>2 DEF NewTrip, Tick, OdoFlush, TypeInv, TypeOK
  <2> QED
    BY <2>1, <2>2 DEF UserAndTick
<1>6. queue' \in Seq(Records) /\ Len(queue') <= QueueDepth
  <2>1. queue \in Seq(Records) /\ Len(queue) <= QueueDepth /\ trip \in Nat /\ trip + 1 \in Nat
    BY DEF TypeInv, TypeOK, Records
  <2>2. CASE NewTrip \/ DeleteTrip
    BY <2>1, <2>2 DEF NewTrip, DeleteTrip, ram
  <2>3. CASE OdoFlush
    BY <2>1, <2>3, SentIs DEF OdoFlush, Kinds
  <2>4. CASE Tick
    <3>1. PICK t \in Nat : t = IF pendingNew THEN trip + 1 ELSE trip
      BY <2>1
    <3>2. PICK q : q = Sent(queue, "sample", t)
      OBVIOUS
    <3>3. q \in Seq(Records) /\ Len(q) <= QueueDepth
      BY <2>1, <3>2, SentIs DEF Kinds
    <3>4. queue' = IF hasBase' THEN Sent(q, "odo", t) ELSE q
      BY <2>4, <3>1, <3>2 DEF Tick
    <3> QED
      BY <3>3, <3>4, SentIs DEF Kinds
  <2> QED
    BY <2>2, <2>3, <2>4 DEF UserAndTick
<1> QED
  BY <1>1, <1>2, <1>3, <1>4, <1>5, <1>6 DEF TypeInv, TypeOK, Bounded, Valid, Records

LEMMA WriterKeepsTypes ==
    ASSUME TypeInv, Writer
    PROVE  TypeInv'
<1>1. /\ flash \in Flashes /\ head \in Slots /\ seq \in 1 .. acked + 1 /\ acked \in Nat
      /\ Bounded(flash, acked) /\ SlotAfter(head) \in Slots
  BY AfterIs DEF TypeInv, TypeOK, Flashes
<1>2. PICK e : e = Entered(flash, head)
  OBVIOUS
<1>3. e \in Flashes /\ Loses(flash, e) /\ Bounded(e, acked)
  BY <1>1, <1>2, EnteredIs, BreaksLose, LosesBounded
<1>4. UNCHANGED <<deleted, power, trip, pendingNew, hasBase, edits, cuts>>
  BY DEF Writer, WriteRecord, WriteFails, EntryEraseFails, IdleTickMoving, IdleTickParked,
         TrickleEraseFails
<1>5. CASE WriteRecord \/ EntryEraseFails
  <2>1. Writing
    BY <1>5 DEF WriteRecord, EntryEraseFails
  <2>2. PICK x \in Flashes : Bounded(x, acked) /\ flash' = Programmed(x, head, QueuedRecord)
    BY <1>1, <1>2, <1>3, <1>5 DEF WriteRecord, EntryEraseFails
  <2>3. flash' \in Flashes /\ Bounded(flash', acked + 1)
    BY <1>1, <2>1, <2>2, QueuedIs, ProgramBounded
  <2>4. queue' \in Seq(Records) /\ Len(queue') <= QueueDepth
    BY <1>5, <2>1, QueuedIs, RingAssumption DEF WriteRecord, EntryEraseFails
  <2>5. /\ head' \in Slots /\ seq' \in 1 .. acked + 1 + 1 /\ acked' = acked + 1
        /\ burst' \in Nat /\ efaults' \in Nat /\ UNCHANGED <<runway, wfaults>>
    <3>1. /\ head' = SlotAfter(head) /\ seq' = seq + 1 /\ acked' = acked + 1
          /\ burst' = burst + 1 /\ efaults' \in {efaults, efaults + 1}
          /\ UNCHANGED <<runway, wfaults>>
      BY <1>5 DEF WriteRecord, EntryEraseFails
    <3>2. burst \in Nat /\ efaults \in Nat
      BY DEF TypeInv, TypeOK
    <3> QED
      BY <1>1, <3>1, <3>2
  <2> QED
    BY <1>4, <2>3, <2>4, <2>5 DEF TypeInv, TypeOK, Flashes, Records
<1>6. CASE WriteFails
  <2>1. Writing
    BY <1>6 DEF WriteFails
  <2>2. flash' \in Flashes /\ Loses(e, flash')
    <3>1. PICK state \in TornStates \cup {"erased"} :
              flash' = IF state = "erased" THEN e ELSE TornAt(e, head, state)
      BY <1>2, <1>6 DEF WriteFails
    <3>2. state \in {"torn", "nomagic", "erased"}
      BY DEF TornStates
    <3>3. CASE state = "erased"
      BY <1>3, <3>1, <3>3 DEF Loses
    <3>4. CASE state # "erased"
      BY <1>1, <1>3, <3>1, <3>2, <3>4, BreaksLose
    <3> QED
      BY <3>3, <3>4
  <2>3. Bounded(flash', acked)
    BY <1>3, <2>2, LosesBounded
  <2>4. queue' \in Seq(Records) /\ Len(queue') <= QueueDepth
    BY <1>6, <2>1, QueuedIs, RingAssumption DEF WriteFails
  <2>5. /\ UNCHANGED <<head, seq, runway, acked, efaults>> /\ burst' \in Nat /\ wfaults' \in Nat
    BY <1>6 DEF WriteFails, TypeInv, TypeOK
  <2> QED
    BY <1>4, <2>2, <2>3, <2>4, <2>5 DEF TypeInv, TypeOK, Flashes, Records
<1>7. CASE IdleTickMoving \/ IdleTickParked \/ TrickleEraseFails
  <2>1. IdleRunway \in Sectors /\ Next1(IdleRunway) \in Sectors
    BY IdleRunwayIs
  <2>2. flash' \in Flashes /\ Loses(flash, flash')
    <3>1. flash' = flash \/ flash' = FilledWith(flash, IdleRunway, "erased")
      BY <1>7 DEF IdleTickMoving, IdleTickParked, TrickleEraseFails, Erased
    <3>2. CASE flash' = flash
      BY <1>1, <3>2 DEF Loses
    <3>3. CASE flash' = FilledWith(flash, IdleRunway, "erased")
      BY <1>1, <2>1, <3>3, BreaksLose
    <3> QED
      BY <3>1, <3>2, <3>3
  <2>3. Bounded(flash', acked)
    BY <1>1, <2>2, LosesBounded
  <2>4. /\ UNCHANGED <<head, seq, queue, acked, wfaults>> /\ runway' \in Sectors /\ burst' \in Nat
        /\ efaults' \in Nat
    BY <1>7, <2>1 DEF IdleTickMoving, IdleTickParked, TrickleEraseFails, TypeInv, TypeOK
  <2> QED
    BY <1>4, <2>2, <2>3, <2>4 DEF TypeInv, TypeOK, Flashes
<1> QED
  BY <1>5, <1>6, <1>7 DEF Writer

\* What a power cut leaves of the flash.
LEMMA CutLoses ==
    ASSUME TypeInv, PowerCut
    PROVE  flash' \in Flashes /\ Loses(flash, flash') /\ Cut(flash')
<1>1. flash \in Flashes /\ head \in Slots
  BY DEF TypeInv, TypeOK, Flashes
<1>2. head.sec \in Sectors /\ FreshSector(head) \in Sectors /\ IdleRunway \in Sectors
  BY IdleRunwayIs
<1>3. TornStates \subseteq {"torn", "nomagic"}
  BY DEF TornStates
<1>4. CASE CutBetweenSteps
  BY <1>1, <1>4 DEF CutBetweenSteps, Cut, Loses
<1>5. CASE CutDuringWrite
  <2>1. PICK st \in TornStates : Cut(TornAt(Entered(flash, head), head, st))
    BY <1>5 DEF CutDuringWrite
  <2>2. Entered(flash, head) \in Flashes /\ Loses(flash, Entered(flash, head))
    BY <1>1, EnteredIs, BreaksLose
  <2>3. flash' \in Flashes /\ Loses(Entered(flash, head), flash') /\ Cut(flash')
    BY <1>1, <1>3, <2>1, <2>2, BreaksLose DEF Cut
  <2> QED
    BY <2>2, <2>3 DEF Loses
<1>6. CASE CutDuringEntryErase \/ CutDuringTrickle
  <2>1. PICK st \in TornStates, a \in Sectors : Cut(FilledWith(flash, a, st))
    BY <1>2, <1>6 DEF CutDuringEntryErase, CutDuringTrickle
  <2> QED
    BY <1>1, <1>3, <2>1, BreaksLose DEF Cut
<1>7. CASE CutDuringBoot
  <2>1. PICK n \in 0 .. (RunwayTarget - 1), st \in TornStates :
            Cut(FilledWith(RunwayBuilt(flash, FreshSector(head), n), Ahead(FreshSector(head), n), st))
    BY <1>7 DEF CutDuringBoot
  <2>2. PICK g : g = RunwayBuilt(flash, FreshSector(head), n)
    OBVIOUS
  <2>3. n \in Nat /\ Ahead(FreshSector(head), n) \in Sectors
    BY <1>2, AheadIs, RingAssumption
  <2>4. g \in Flashes /\ Loses(flash, g)
    BY <1>1, <1>2, <2>2, <2>3, RunwayIs, BreaksLose
  <2>5. flash' \in Flashes /\ Loses(g, flash') /\ Cut(flash')
    BY <1>3, <2>1, <2>2, <2>3, <2>4, BreaksLose DEF Cut
  <2> QED
    BY <2>4, <2>5 DEF Loses
<1> QED
  BY <1>4, <1>5, <1>6, <1>7 DEF PowerCut

LEMMA CutKeepsTypes ==
    ASSUME TypeInv, PowerCut
    PROVE  TypeInv'
<1>1. flash' \in Flashes /\ Bounded(flash', acked) /\ Cut(flash')
  BY CutLoses, LosesBounded DEF TypeInv
<1>2. /\ head' \in Slots /\ seq' = 1 /\ trip' \in Nat /\ runway' \in Sectors
      /\ power' = "off" /\ queue' = <<>> /\ burst' = 0 /\ cuts' \in Nat
      /\ UNCHANGED <<deleted, acked, edits, wfaults, efaults>>
  BY <1>1, SectorTypes DEF Cut, Slot, Slots, TypeInv, TypeOK
<1>3. pendingNew' \in BOOLEAN /\ hasBase' \in BOOLEAN
  BY <1>1, Zenon DEF Cut
<1> QED
  BY <1>1, <1>2, <1>3, RingAssumption DEF TypeInv, TypeOK, Flashes

LEMMA TypeStep == TypeInv /\ [Next]_vars => TypeInv'
<1> SUFFICES ASSUME TypeInv, [Next]_vars PROVE TypeInv'
  OBVIOUS
<1>1. CASE UNCHANGED vars
  BY <1>1 DEF vars, ram, TypeInv, TypeOK, Bounded, Valid
<1>2. CASE Next
  BY <1>2, BootKeepsTypes, BuildKeepsTypes, UserKeepsTypes, WriterKeepsTypes, CutKeepsTypes
     DEF Next
<1> QED
  BY <1>1, <1>2

-----------------------------------------------------------------------------
(* The steps, where the first slot of a sector cannot lie *)

NoLies == ~MagicMayBeBlank /\ MaxEraseFaults = 0

\* From f to g records are only lost in sectors of the runway, whole but for
\* the record at h.
ErasesAhead(f, g, h) ==
    \A a \in Sectors, i \in Indices : Valid(f, a, i) /\ g[a][i] # f[a][i] =>
        /\ RingDist(FreshSector(h), a) < RunwayTarget
        /\ \A j \in Indices : g[a][j].state # "valid" \/ (a = h.sec /\ j = h.in)

\* Sectors of the runway are erased.
LEMMA WipesAhead ==
    ASSUME NEW f \in Flashes, NEW g, NEW h \in Slots, NEW sq, NEW n \in Nat,
           LogInv(f, FreshSector(h), n), HeadFits(f, h, sq, n), Wiped(f, g),
           \A a \in Sectors : RingDist(FreshSector(h), a) >= RunwayTarget => g[a] = f[a]
    PROVE  /\ LogInv(g, FreshSector(h), n) /\ HeadFits(g, h, sq, n) /\ Loses(f, g)
           /\ ErasesAhead(f, g, h)
<1>1. h.sec \in Sectors /\ FreshSector(h) \in Sectors /\ h.in \in Nat
  BY AfterIs DEF Indices
<1>2. h.in > 0 => g[h.sec] = f[h.sec]
  <2>1. h.in > 0 => RingDist(FreshSector(h), h.sec) = NSectors - 1
    BY <1>1, DistNext DEF FreshSector
  <2> QED
    BY <1>1, <2>1, RingAssumption
<1>3. LogInv(g, FreshSector(h), n) /\ Loses(f, g)
  BY WipedKeeps, WipedLoses DEF LogInv
<1>4. HeadFits(g, h, sq, n)
  BY <1>2, WipedHead DEF LogInv
<1>5. ErasesAhead(f, g, h)
  <2> SUFFICES ASSUME NEW a \in Sectors, NEW i \in Indices, g[a][i] # f[a][i]
               PROVE  /\ RingDist(FreshSector(h), a) < RunwayTarget
                      /\ \A j \in Indices : g[a][j].state # "valid"
    BY DEF ErasesAhead
  <2>1. RingDist(FreshSector(h), a) < RunwayTarget
    BY <1>1, DistIs, RingAssumption
  <2>2. \A j \in Indices : g[a][j].state \in {"erased", "torn"}
    BY DEF Wiped
  <2> QED
    BY <2>1, <2>2
<1> QED
  BY <1>3, <1>4, <1>5

\* The sector at the head is entered, and something happens to the slot.
LEMMA EntersAhead ==
    ASSUME NEW f \in Flashes, NEW h \in Slots, NEW sq, NEW n \in Nat,
           LogInv(f, FreshSector(h), n), HeadFits(f, h, sq, n),
           NEW g, \A a \in Sectors, i \in Indices :
                      a # h.sec \/ i # h.in => g[a][i] = Entered(f, h)[a][i]
    PROVE  ErasesAhead(f, g, h)
<1>1. PICK e : e = Entered(f, h)
  OBVIOUS
<1>2. /\ \A i \in Indices : i >= h.in => ~Valid(e, h.sec, i)
      /\ \A b \in Sectors : b # h.sec => e[b] = f[b]
      /\ h.in > 0 => e = f
  BY <1>1, EnteredFits, EnteredIs
<1>3. h.sec \in Sectors /\ h.in \in Indices /\ Indices \subseteq Nat
  BY AfterIs DEF Indices
<1> SUFFICES ASSUME NEW a \in Sectors, NEW i \in Indices, Valid(f, a, i), g[a][i] # f[a][i]
             PROVE  /\ RingDist(FreshSector(h), a) < RunwayTarget
                    /\ \A j \in Indices : g[a][j].state # "valid" \/ (a = h.sec /\ j = h.in)
  BY DEF ErasesAhead
<1>4. a = h.sec
  BY <1>1, <1>2
<1>5. h.in = 0
  <2> SUFFICES ASSUME h.in > 0 PROVE FALSE
    BY <1>3
  <2>1. i = h.in
    BY <1>1, <1>2
  <2> QED
    BY <1>2, <1>3, <1>4, <2>1
<1>6. RingDist(FreshSector(h), a) = 0
  BY <1>3, <1>4, <1>5, DistSame DEF FreshSector
<1>7. \A j \in Indices : j # h.in => ~Valid(g, a, j)
  BY <1>1, <1>2, <1>3, <1>4, <1>5 DEF Valid
<1> QED
  BY <1>4, <1>6, <1>7, RingAssumption DEF Valid

LEMMA TripsLost ==
    ASSUME NEW f, NEW g, NEW q, NEW t, TripsFit(f, q, t), Loses(f, g)
    PROVE  TripsFit(g, q, t)
BY DEF TripsFit, Loses

LEMMA TripsSent ==
    ASSUME NEW f \in Flashes, NEW q \in Seq(Records), Len(q) <= QueueDepth, NEW t \in Nat,
           TripsFit(f, q, t), NEW u \in Nat, t <= u, NEW kind \in Kinds
    PROVE  TripsFit(f, q, u) /\ TripsFit(f, Sent(q, kind, u), u)
<1>1. /\ \A a \in Sectors, i \in Indices : f[a][i].trip \in Nat
      /\ Len(q) \in Nat /\ \A k \in 1 .. Len(q) : q[k].trip \in Nat
  <2>1. \A a \in Sectors, i \in Indices : f[a][i] \in Contents
    BY DEF Flashes
  <2>2. Len(q) \in Nat /\ \A k \in 1 .. Len(q) : q[k] \in Records
    OBVIOUS
  <2> QED
    BY <2>1, <2>2 DEF Contents, Records
<1>2. TripsFit(f, q, u)
  BY <1>1 DEF TripsFit
<1>3. PICK r : r = Sent(q, kind, u)
  OBVIOUS
<1>4. /\ \A k \in 1 .. Len(r) : (k \in 1 .. Len(q) /\ r[k] = q[k]) \/ (k = Len(q) + 1 /\ r[k].trip = u)
      /\ Len(r) \in Nat
  BY <1>3, SentIs
<1>5. TripsFit(f, r, u)
  <2>1. \A a \in Sectors, i \in Indices : Valid(f, a, i) =>
            f[a][i].trip <= u /\ \A k \in 1 .. Len(r) : f[a][i].trip <= r[k].trip
    BY <1>1, <1>2, <1>4 DEF TripsFit
  <2>2. ASSUME NEW k \in 1 .. Len(r), NEW l \in 1 .. Len(r), k <= l
        PROVE  r[k].trip <= r[l].trip /\ r[l].trip <= u
    <3>1. CASE l \in 1 .. Len(q) /\ r[l] = q[l]
      <4>1. k \in 1 .. Len(q) /\ r[k] = q[k]
        BY <1>1, <1>4, <2>2, <3>1
      <4> QED
        BY <1>2, <2>2, <3>1, <4>1 DEF TripsFit
    <3>2. CASE r[l].trip = u
      <4>1. r[k].trip <= u
        BY <1>1, <1>2, <1>4 DEF TripsFit
      <4> QED
        BY <3>2, <4>1
    <3> QED
      BY <1>4, <3>1, <3>2
  <2> QED
    BY <2>1, <2>2 DEF TripsFit
<1> QED
  BY <1>2, <1>3, <1>5

LEMMA RingInit == Init => RingInv
<1> SUFFICES ASSUME Init PROVE RingInv
  OBVIOUS
<1>1. \A a \in Sectors, i \in Indices : flash[a][i].state = "erased"
  BY JunkIs DEF Init, States
<1>2. LogInv(flash, 0, acked)
  BY <1>1 DEF LogInv, Formed, NoBlank, Ordered, Bounded, Valid
<1> QED
  BY <1>2, SectorTypes DEF Init, RingInv

\* The types, for the steps below.
LEMMA HaveTypes ==
    ASSUME TypeInv
    PROVE  /\ flash \in Flashes /\ head \in Slots /\ acked \in Nat /\ trip \in Nat /\ seq \in Nat
           /\ queue \in Seq(Records) /\ Len(queue) <= QueueDepth
           /\ FreshSector(head) \in Sectors /\ head.sec \in Sectors
BY IdleRunwayIs DEF TypeInv, TypeOK, Flashes, Records

LEMMA RingBoot ==
    ASSUME TypeInv, RingInv, Boot
    PROVE  RingInv' /\ ErasesAhead(flash, flash', head)
<1>1. PICK scan : scan = BootScan(flash)
  OBVIOUS
<1>2. /\ power = "off" /\ power' = "boot" /\ head' = scan.head /\ seq' = scan.seq
      /\ trip' = scan.trip /\ queue' = <<>> /\ flash' = flash /\ acked' = acked
  BY <1>1 DEF Boot
<1>3. PICK c \in Sectors : LogInv(flash, c, acked)
  BY <1>2 DEF RingInv
<1>4. /\ LogInv(flash, FreshSector(scan.head), acked)
      /\ HeadFits(flash, scan.head, scan.seq, acked)
      /\ \A a \in Sectors, j \in Indices : Valid(flash, a, j) => flash[a][j].trip <= scan.trip
  BY <1>1, <1>3, HaveTypes, BootFits
<1>5. TripsFit(flash, <<>>, scan.trip)
  BY <1>4 DEF TripsFit
<1>6. ErasesAhead(flash, flash', head)
  BY <1>2 DEF ErasesAhead
<1> QED
  BY <1>2, <1>4, <1>5, <1>6 DEF RingInv

LEMMA RingBuilt ==
    ASSUME TypeInv, RingInv, RunwayBuild
    PROVE  RingInv' /\ ErasesAhead(flash, flash', head)
<1> DEFINE F == FreshSector(head)
<1>1. F \in Sectors /\ flash \in Flashes /\ head \in Slots /\ acked \in Nat
  BY HaveTypes
<1>2. /\ power = "boot" /\ power' = "run"
      /\ UNCHANGED <<head, seq, trip, queue, acked>>
  BY DEF RunwayBuild
<1>3. PICK n \in 0 .. RunwayTarget :
          flash' = RunwayStarted(RunwayBuilt(flash, F, n), F, CleanAhead(RunwayBuilt(flash, F, n), F))
  BY DEF RunwayBuild
<1> HIDE DEF F
<1>4. PICK built : built = RunwayBuilt(flash, F, n)
  OBVIOUS
<1>5. PICK clean \in 0 .. RunwayTarget : clean = CleanAhead(built, F)
  BY CleanAheadIs
<1>6. /\ flash' = RunwayStarted(built, F, clean) /\ n \in Nat /\ clean \in Nat
      /\ RunwayTarget \in Nat /\ RunwayBootMin \in Nat /\ RunwayBootMin <= RunwayTarget
      /\ n <= RunwayTarget
  BY <1>3, <1>4, <1>5, RingAssumption
<1>7. Wiped(flash, built) /\ built \in Flashes
  <2>1. Wiped(flash, built)
    BY <1>1, <1>4, <1>6, RunwayIs
  <2> QED
    BY <2>1 DEF Wiped
<1>8. Wiped(flash, flash')
  BY <1>1, <1>6, <1>7, RunwayIs, WipedTwice
<1>9. ASSUME NEW a \in Sectors, RingDist(F, a) >= RunwayTarget
      PROVE  flash'[a] = flash[a]
  <2>1. RingDist(F, a) \in Nat
    BY <1>1, DistIs
  <2>2. RingDist(F, a) >= n /\ RingDist(F, a) >= RunwayBootMin
    BY <1>6, <1>9, <2>1
  <2>3. built[a] = flash[a]
    BY <1>1, <1>4, <1>6, <2>2, RunwayIs
  <2>4. flash'[a] = built[a]
    BY <1>1, <1>6, <1>7, <2>2, RunwayIs
  <2> QED
    BY <2>3, <2>4
<1>10. /\ LogInv(flash, FreshSector(head), acked) /\ HeadFits(flash, head, seq, acked)
       /\ TripsFit(flash, queue, trip)
  BY <1>2 DEF RingInv
<1>11. \A a \in Sectors : RingDist(FreshSector(head), a) >= RunwayTarget => flash'[a] = flash[a]
  BY <1>9 DEF F
<1>12. /\ LogInv(flash', FreshSector(head), acked) /\ HeadFits(flash', head, seq, acked)
       /\ Loses(flash, flash') /\ ErasesAhead(flash, flash', head)
  BY <1>1, <1>8, <1>10, <1>11, WipesAhead
<1>13. TripsFit(flash', queue, trip)
  BY <1>10, <1>12, TripsLost
<1> QED
  BY <1>2, <1>12, <1>13 DEF RingInv

LEMMA RingUsed ==
    ASSUME TypeInv, RingInv, UserAndTick
    PROVE  RingInv' /\ ErasesAhead(flash, flash', head)
<1>1. power = "run" /\ UNCHANGED <<flash, power, head, seq, acked>>
  BY DEF UserAndTick, NewTrip, Tick, OdoFlush, DeleteTrip, ram
<1>2. /\ LogInv(flash, FreshSector(head), acked) /\ HeadFits(flash, head, seq, acked)
      /\ TripsFit(flash, queue, trip)
  BY <1>1 DEF RingInv
<1>3. /\ flash \in Flashes /\ queue \in Seq(Records) /\ Len(queue) <= QueueDepth
      /\ trip \in Nat /\ trip + 1 \in Nat /\ {"sample", "odo"} \subseteq Kinds
  BY HaveTypes DEF Kinds
<1>4. TripsFit(flash, queue', trip')
  <2>1. CASE NewTrip \/ DeleteTrip
    BY <1>2, <2>1 DEF NewTrip, DeleteTrip, ram
  <2>2. CASE OdoFlush
    <3>1. queue' = Sent(queue, "odo", trip) /\ trip' = trip
      BY <2>2 DEF OdoFlush
    <3> QED
      BY <1>2, <1>3, <3>1, TripsSent
  <2>3. CASE Tick
    <3>1. PICK t \in Nat : t = IF pendingNew THEN trip + 1 ELSE trip
      BY <1>3
    <3>2. trip <= t /\ t <= t
      BY <1>3, <3>1
    <3>3. PICK q : q = Sent(queue, "sample", t)
      OBVIOUS
    <3>4. trip' = t /\ queue' = IF hasBase' THEN Sent(q, "odo", t) ELSE q
      BY <2>3, <3>1, <3>3 DEF Tick
    <3>5. q \in Seq(Records) /\ Len(q) <= QueueDepth
      BY <1>3, <3>3, SentIs
    <3>6. TripsFit(flash, q, t)
      BY <1>2, <1>3, <3>2, <3>3, TripsSent
    <3>7. TripsFit(flash, Sent(q, "odo", t), t)
      BY <1>3, <3>2, <3>5, <3>6, TripsSent
    <3> QED
      BY <3>4, <3>6, <3>7
  <2> QED
    BY <2>1, <2>2, <2>3 DEF UserAndTick
<1> QED
  BY <1>1, <1>2, <1>4 DEF RingInv, ErasesAhead

\* A record leaves the queue.
LEMMA TripsTaken ==
    ASSUME TypeInv, TripsFit(flash, queue, trip), Writing
    PROVE  /\ TripsFit(flash, Tail(queue), trip)
           /\ \A a \in Sectors, i \in Indices :
                 Valid(flash, a, i) => flash[a][i].trip <= QueuedRecord.trip
           /\ \A k \in 1 .. Len(Tail(queue)) : QueuedRecord.trip <= Tail(queue)[k].trip
           /\ QueuedRecord.trip <= trip
<1>1. /\ QueuedRecord.trip = queue[1].trip
      /\ Len(Tail(queue)) = Len(queue) - 1 /\ Len(queue) \in Nat \ {0}
      /\ \A i \in 1 .. Len(queue) - 1 : Tail(queue)[i] = queue[i + 1]
  BY QueuedIs
<1>2. PICK n \in Nat \ {0} : n = Len(queue)
  BY <1>1
<1>3. PICK q : q = Tail(queue)
  OBVIOUS
<1>4. /\ Len(q) = n - 1 /\ 1 \in 1 .. n
      /\ \A i \in 1 .. Len(q) : i + 1 \in 1 .. n /\ 1 <= i + 1 /\ q[i] = queue[i + 1]
  BY <1>1, <1>2, <1>3
<1>5. /\ \A a \in Sectors, i \in Indices : Valid(flash, a, i) =>
            flash[a][i].trip <= trip /\ \A k \in 1 .. n : flash[a][i].trip <= queue[k].trip
      /\ \A k, l \in 1 .. n : k <= l => queue[k].trip <= queue[l].trip /\ queue[l].trip <= trip
  BY <1>2 DEF TripsFit
<1>6. \A k, l \in 1 .. Len(q) : k <= l => q[k].trip <= q[l].trip /\ q[l].trip <= trip
  <2> SUFFICES ASSUME NEW k \in 1 .. Len(q), NEW l \in 1 .. Len(q), k <= l
               PROVE  q[k].trip <= q[l].trip /\ q[l].trip <= trip
    OBVIOUS
  <2>1. k + 1 <= l + 1 /\ q[k] = queue[k + 1] /\ q[l] = queue[l + 1]
    BY <1>2, <1>4
  <2> QED
    BY <1>4, <1>5, <2>1
<1>7. TripsFit(flash, q, trip)
  BY <1>4, <1>5, <1>6 DEF TripsFit
<1> QED
  BY <1>1, <1>2, <1>3, <1>4, <1>5, <1>7

LEMMA RingWritten ==
    ASSUME NoLies, TypeInv, RingInv, Writer
    PROVE  RingInv' /\ ErasesAhead(flash, flash', head)
<1>1. /\ flash \in Flashes /\ head \in Slots /\ acked \in Nat /\ seq \in Nat
      /\ head.sec \in Sectors /\ head.in \in Indices /\ FreshSector(head) \in Sectors
  BY HaveTypes, AfterIs
<1>2. power = "run" /\ power' = "run"
  BY DEF Writer, WriteRecord, WriteFails, EntryEraseFails, IdleTickMoving, IdleTickParked,
         TrickleEraseFails, Writing, Idle, TrickleDue
<1>3. /\ LogInv(flash, FreshSector(head), acked) /\ HeadFits(flash, head, seq, acked)
      /\ TripsFit(flash, queue, trip)
  BY <1>2 DEF RingInv
<1>4. PICK e : e = Entered(flash, head)
  OBVIOUS
<1>5. /\ e \in Flashes /\ Loses(flash, e)
      /\ LogInv(e, FreshSector(head), acked) /\ HeadFits(e, head, seq, acked)
  BY <1>1, <1>3, <1>4, EnteredFits
<1>6. CASE WriteRecord
  <2>1. /\ Writing /\ flash' = Programmed(e, head, QueuedRecord) /\ head' = SlotAfter(head)
        /\ seq' = seq + 1 /\ acked' = acked + 1 /\ queue' = Tail(queue) /\ trip' = trip
    BY <1>4, <1>6 DEF WriteRecord
  <2>2. PICK rec \in Contents : /\ rec = QueuedRecord /\ rec.state = "valid"
                                /\ rec.seq = seq /\ rec.id = acked + 1
    BY <2>1, QueuedIs
  <2>3. /\ TripsFit(flash, queue', trip)
        /\ \A a \in Sectors, i \in Indices : Valid(flash, a, i) => flash[a][i].trip <= rec.trip
        /\ \A k \in 1 .. Len(queue') : rec.trip <= queue'[k].trip
        /\ rec.trip <= trip
    BY <1>3, <2>1, <2>2, TripsTaken
  <2>4. flash' = Programmed(Entered(flash, head), head, rec)
    BY <1>4, <2>1, <2>2
  <2>5. /\ \A a \in Sectors, i \in Indices : Valid(flash', a, i) =>
              \/ a = head.sec /\ i = head.in /\ flash'[a][i] = rec
              \/ Valid(flash, a, i) /\ flash'[a][i] = flash[a][i]
        /\ LogInv(flash', FreshSector(SlotAfter(head)), acked + 1)
        /\ HeadFits(flash', SlotAfter(head), seq + 1, acked + 1)
    BY <1>1, <1>3, <2>2, <2>3, <2>4, AppendKeeps
  <2>6. TripsFit(flash', queue', trip)
    BY <2>3, <2>5 DEF TripsFit
  <2>7. ErasesAhead(flash, flash', head)
    <3>1. \A a \in Sectors, i \in Indices : a # head.sec \/ i # head.in => flash'[a][i] = e[a][i]
      BY <1>1, <1>5, <2>1, <2>2, ProgrammedIs
    <3> QED
      BY <1>1, <1>3, <1>4, <3>1, EntersAhead
  <2> QED
    BY <1>2, <2>1, <2>5, <2>6, <2>7 DEF RingInv
<1>7. CASE WriteFails
  <2>1. /\ Writing /\ queue' = Tail(queue) /\ UNCHANGED <<head, seq, acked, trip>>
    BY <1>7 DEF WriteFails
  <2>2. flash' = e \/ flash' = TornAt(e, head, "torn")
    BY <1>4, <1>7 DEF WriteFails, TornStates, NoLies
  <2>3. Loses(flash, flash') /\ LogInv(flash', FreshSector(head), acked)
        /\ HeadFits(flash', head, seq, acked)
    <3>1. CASE flash' = e
      BY <1>5, <3>1
    <3>2. CASE flash' = TornAt(e, head, "torn")
      BY <1>1, <1>3, <1>4, <3>2, TornKeeps
    <3> QED
      BY <2>2, <3>1, <3>2
  <2>4. TripsFit(flash', queue', trip)
    BY <1>3, <2>1, <2>3, TripsTaken, TripsLost
  <2>5. ErasesAhead(flash, flash', head)
    <3>1. \A a \in Sectors, i \in Indices : a # head.sec \/ i # head.in => flash'[a][i] = e[a][i]
      <4>1. CASE flash' = e
        BY <4>1
      <4>2. CASE flash' = TornAt(e, head, "torn")
        BY <1>1, <1>5, <4>2, TornIs
      <4> QED
        BY <2>2, <4>1, <4>2
    <3> QED
      BY <1>1, <1>3, <1>4, <3>1, EntersAhead
  <2> QED
    BY <1>2, <2>1, <2>3, <2>4, <2>5 DEF RingInv
<1>8. ~EntryEraseFails /\ ~TrickleEraseFails
  <2>1. efaults \in Nat
    BY DEF TypeInv, TypeOK
  <2> QED
    BY <2>1 DEF EntryEraseFails, TrickleEraseFails, NoLies
<1>9. CASE IdleTickMoving
  BY <1>2, <1>3, <1>9 DEF IdleTickMoving, RingInv, ErasesAhead
<1>10. CASE IdleTickParked
  <2>1. PICK r \in Sectors : r = IdleRunway
    BY IdleRunwayIs
  <2>2. /\ RingDist(FreshSector(head), r) < RunwayTarget
        /\ flash' = flash \/ flash' = FilledWith(flash, r, "erased")
        /\ UNCHANGED <<head, seq, acked, trip, queue>>
    BY <1>10, <2>1 DEF IdleTickParked, TrickleDue, Erased
  <2>3. Wiped(flash, flash') /\ \A a \in Sectors : a # r => flash'[a] = flash[a]
    <3>1. CASE flash' = flash
      BY <1>1, <3>1 DEF Wiped
    <3>2. CASE flash' = FilledWith(flash, r, "erased")
      <4>1. "erased" \in States
        BY DEF States
      <4>2. PICK g : g = FilledWith(flash, r, "erased")
        OBVIOUS
      <4>3. Wiped(flash, g) /\ \A a \in Sectors : a # r => g[a] = flash[a]
        BY <1>1, <4>1, <4>2, FilledIs
      <4> QED
        BY <3>2, <4>2, <4>3
    <3> QED
      BY <2>2, <3>1, <3>2
  <2>4. \A a \in Sectors : RingDist(FreshSector(head), a) >= RunwayTarget => flash'[a] = flash[a]
    BY <1>1, <2>2, <2>3, DistIs, RingAssumption
  <2>5. /\ LogInv(flash', FreshSector(head), acked) /\ HeadFits(flash', head, seq, acked)
        /\ Loses(flash, flash') /\ ErasesAhead(flash, flash', head)
    BY <1>1, <1>3, <2>3, <2>4, WipesAhead
  <2>6. TripsFit(flash', queue, trip)
    BY <1>3, <2>5, TripsLost
  <2> QED
    BY <1>2, <2>2, <2>5, <2>6 DEF RingInv
<1> QED
  BY <1>6, <1>7, <1>8, <1>9, <1>10 DEF Writer

LEMMA RingCut ==
    ASSUME NoLies, TypeInv, RingInv, PowerCut
    PROVE  RingInv' /\ ErasesAhead(flash, flash', head)
<1> DEFINE F == FreshSector(head)
<1>1. /\ flash \in Flashes /\ head \in Slots /\ acked \in Nat
      /\ head.sec \in Sectors /\ head.in \in Indices /\ F \in Sectors
  BY HaveTypes, AfterIs
<1>2. /\ TornStates = {"torn"} /\ {"erased", "torn"} \subseteq States
      /\ RunwayTarget \in Nat \ {0}
  BY RingAssumption DEF NoLies, TornStates, States
<1>3. power' = "off" /\ acked' = acked
  BY CutLoses DEF Cut
<1>4. SUFFICES ASSUME power # "off"
               PROVE  LogInv(flash', F, acked) /\ ErasesAhead(flash, flash', head)
  <2>1. power # "off"
    BY CutLoses DEF Cut
  <2> QED
    BY <1>1, <1>3, <1>4, <2>1 DEF RingInv
<1>5. /\ LogInv(flash, F, acked) /\ HeadFits(flash, head, seq, acked)
  BY <1>4 DEF RingInv
\* Whatever it wipes ahead, in the runway, does no harm.
<1>6. ASSUME NEW g, Wiped(flash, g),
             \A a \in Sectors : RingDist(F, a) >= RunwayTarget => g[a] = flash[a]
      PROVE  LogInv(g, F, acked) /\ ErasesAhead(flash, g, head)
  BY <1>1, <1>5, <1>6, WipesAhead
<1>7. CASE CutBetweenSteps
  BY <1>5, <1>7 DEF CutBetweenSteps, Cut, ErasesAhead
<1>8. CASE CutDuringWrite
  <2>1. PICK e : e = Entered(flash, head)
    OBVIOUS
  <2>2. flash' = TornAt(e, head, "torn")
    BY <1>2, <1>8, <2>1 DEF CutDuringWrite, Cut
  <2>3. LogInv(flash', F, acked)
    BY <1>1, <1>5, <2>1, <2>2, TornKeeps
  <2>4. e \in Flashes
    BY <1>1, <1>5, <2>1, EnteredFits
  <2>5. \A a \in Sectors, i \in Indices : a # head.sec \/ i # head.in => flash'[a][i] = e[a][i]
    BY <1>1, <2>2, <2>4, TornIs
  <2> QED
    BY <1>1, <1>5, <2>1, <2>3, <2>5, EntersAhead
<1>9. CASE CutDuringEntryErase \/ CutDuringTrickle
  <2>1. PICK r \in Sectors : RingDist(F, r) < RunwayTarget /\ flash' = FilledWith(flash, r, "torn")
    <3>1. CASE CutDuringEntryErase
      <4>1. head.in = 0 /\ flash' = FilledWith(flash, head.sec, "torn")
        BY <1>2, <3>1 DEF CutDuringEntryErase, Cut
      <4>2. RingDist(F, head.sec) = 0
        BY <1>1, <4>1, DistSame DEF FreshSector
      <4> QED
        BY <1>1, <1>2, <4>1, <4>2
    <3>2. CASE CutDuringTrickle
      BY <1>2, <3>2, IdleRunwayIs DEF CutDuringTrickle, TrickleDue, Cut
    <3> QED
      BY <1>9, <3>1, <3>2
  <2>2. PICK g : g = FilledWith(flash, r, "torn")
    OBVIOUS
  <2>3. Wiped(flash, g) /\ \A a \in Sectors : a # r => g[a] = flash[a]
    <3>1. "torn" \in States
      BY <1>2
    <3> QED
      BY <1>1, <2>2, <3>1, FilledIs
  <2>4. \A a \in Sectors : RingDist(F, a) >= RunwayTarget => g[a] = flash[a]
    BY <1>1, <1>2, <2>1, <2>3, DistIs
  <2> QED
    BY <1>6, <2>1, <2>2, <2>3, <2>4
<1>10. CASE CutDuringBoot
  <2>1. PICK n \in 0 .. (RunwayTarget - 1) :
            flash' = FilledWith(RunwayBuilt(flash, F, n), Ahead(F, n), "torn")
    BY <1>2, <1>10 DEF CutDuringBoot, Cut
  <2> HIDE DEF F
  <2>2. PICK built : built = RunwayBuilt(flash, F, n)
    OBVIOUS
  <2>3. PICK r : r = Ahead(F, n)
    OBVIOUS
  <2>4. n \in Nat /\ n < RunwayTarget /\ RunwayTarget < NSectors /\ n < NSectors
    BY <1>2, RingAssumption
  <2>5. r \in Sectors /\ RingDist(F, r) = n
    BY <1>1, <2>3, <2>4, AheadIs
  <2>6. /\ Wiped(flash, built) /\ built \in Flashes
        /\ \A a \in Sectors : RingDist(F, a) >= n => built[a] = flash[a]
    BY <1>1, <2>2, <2>4, RunwayIs DEF Wiped
  <2>7. PICK g : g = FilledWith(built, r, "torn")
    OBVIOUS
  <2>8. Wiped(built, g) /\ \A a \in Sectors : a # r => g[a] = built[a]
    BY <1>2, <2>5, <2>6, <2>7, FilledIs
  <2>9. Wiped(flash, g)
    BY <2>6, <2>8, WipedTwice
  <2>10. ASSUME NEW a \in Sectors, RingDist(F, a) >= RunwayTarget
         PROVE  g[a] = flash[a]
    <3>1. RingDist(F, a) \in Nat
      BY <1>1, DistIs
    <3>2. RingDist(F, a) >= n /\ a # r
      BY <1>2, <2>4, <2>5, <2>10, <3>1
    <3> QED
      BY <2>6, <2>8, <3>2
  <2> QED
    BY <1>6, <2>1, <2>2, <2>3, <2>7, <2>9, <2>10
<1> QED
  BY <1>7, <1>8, <1>9, <1>10, <1>4 DEF PowerCut

\* Every step keeps the order of the log, and erases ahead.
LEMMA RingStep ==
    ASSUME NoLies, TypeInv, RingInv, [Next]_vars
    PROVE  RingInv' /\ ErasesAhead(flash, flash', head)
<1>1. CASE UNCHANGED vars
  BY <1>1 DEF vars, ram, RingInv, ErasesAhead
<1>2. CASE Next
  BY <1>2, RingBoot, RingBuilt, RingUsed, RingWritten, RingCut DEF Next
<1> QED
  BY <1>1, <1>2

-----------------------------------------------------------------------------
(* What the order of the log gives *)

\* Records written earlier have smaller ranks.
LEMMA OlderIs ==
    ASSUME NEW f \in Flashes, NEW c \in Sectors, Ordered(f, c),
           NEW a \in Sectors, NEW d \in Sectors, NEW i \in Indices, NEW j \in Indices,
           Valid(f, a, i), Valid(f, d, j), Older(c, a, i, d, j)
    PROVE  /\ f[a][i].id < f[d][j].id /\ f[a][i].seq < f[d][j].seq
           /\ f[a][i].trip <= f[d][j].trip
<1>1. /\ f[a][i].seq < f[d][j].seq /\ f[a][i].trip <= f[d][j].trip
      /\ Between(c, a, i, d, j) <= f[d][j].id - f[a][i].id
  BY DEF Ordered
<1>2. /\ i \in Nat /\ j \in Nat /\ i < RecsPerSector /\ RecsPerSector \in Nat \ {0}
      /\ f[a][i].id \in Nat /\ f[d][j].id \in Nat
  <2>1. i \in Nat /\ j \in Nat /\ i < RecsPerSector /\ RecsPerSector \in Nat \ {0}
    BY RingAssumption DEF Indices
  <2>2. f[a][i] \in Contents /\ f[d][j] \in Contents
    BY DEF Flashes
  <2> QED
    BY <2>1, <2>2 DEF Contents
<1>3. PICK k \in Int : k = RingDist(c, d) - RingDist(c, a)
  BY DistIs
<1>4. k * RecsPerSector + (j - i) <= f[d][j].id - f[a][i].id
  BY <1>1, <1>3 DEF Between
<1>5. k * RecsPerSector + (j - i) >= 1
  <2>1. CASE RingDist(c, a) < RingDist(c, d)
    <3>1. PICK m \in Nat : k = m + 1
      <4>1. k - 1 \in Nat /\ k = (k - 1) + 1
        BY <1>3, <2>1, DistIs
      <4> QED
        BY <4>1
    <3>2. (m + 1) * RecsPerSector = m * RecsPerSector + RecsPerSector /\ m * RecsPerSector \in Nat
      BY <1>2
    <3> QED
      BY <1>2, <3>1, <3>2
  <2>2. CASE a = d /\ i < j
    <3>1. k = 0
      BY <1>3, <2>2, DistIs
    <3> QED
      BY <1>2, <2>2, <3>1
  <2> QED
    BY <2>1, <2>2 DEF Older
<1>6. k * RecsPerSector \in Int
  BY <1>2
<1> QED
  BY <1>1, <1>2, <1>4, <1>5, <1>6

\* Of two slots one was written before the other.
LEMMA Compared ==
    ASSUME NEW c \in Sectors, NEW a \in Sectors, NEW d \in Sectors,
           NEW i \in Indices, NEW j \in Indices
    PROVE  Older(c, a, i, d, j) \/ Older(c, d, j, a, i) \/ (a = d /\ i = j)
<1>1. RingDist(c, a) \in Nat /\ RingDist(c, d) \in Nat /\ i \in Nat /\ j \in Nat
  BY DistIs DEF Indices
<1>2. RingDist(c, a) = RingDist(c, d) => a = d
  BY DistSame
<1> QED
  BY <1>1, <1>2 DEF Older

LEMMA SlotIs ==
    ASSUME NEW s \in ValidSlots
    PROVE  /\ s \in Slots /\ s.sec \in Sectors /\ s.in \in Indices /\ Valid(flash, s.sec, s.in)
           /\ s = Slot(s.sec, s.in)
BY AfterIs DEF ValidSlots, Slots, Slot

\* Ranks follow the order of the slots.
LEMMA RanksFollow ==
    ASSUME TypeInv, NEW c \in Sectors, LogInv(flash, c, acked),
           NEW s \in ValidSlots, NEW t \in ValidSlots
    PROVE  /\ IdAt(s) \in Nat /\ IdAt(t) \in Nat
           /\ IdAt(s) < IdAt(t) <=> Older(c, s.sec, s.in, t.sec, t.in)
           /\ IdAt(s) < IdAt(t) => /\ flash[s.sec][s.in].seq < flash[t.sec][t.in].seq
                                   /\ flash[s.sec][s.in].trip <= flash[t.sec][t.in].trip
           /\ IdAt(s) = IdAt(t) => s = t
<1>1. flash \in Flashes /\ Ordered(flash, c)
  BY HaveTypes DEF LogInv
<1>2. /\ s.sec \in Sectors /\ s.in \in Indices /\ Valid(flash, s.sec, s.in)
      /\ t.sec \in Sectors /\ t.in \in Indices /\ Valid(flash, t.sec, t.in)
      /\ s = Slot(s.sec, s.in) /\ t = Slot(t.sec, t.in)
  BY SlotIs
<1>3. flash[s.sec][s.in].id \in Nat /\ flash[t.sec][t.in].id \in Nat
  <2>1. flash[s.sec][s.in] \in Contents /\ flash[t.sec][t.in] \in Contents
    BY <1>1, <1>2 DEF Flashes
  <2> QED
    BY <2>1 DEF Contents
<1>4. Older(c, s.sec, s.in, t.sec, t.in) =>
          /\ flash[s.sec][s.in].id < flash[t.sec][t.in].id
          /\ flash[s.sec][s.in].seq < flash[t.sec][t.in].seq
          /\ flash[s.sec][s.in].trip <= flash[t.sec][t.in].trip
  BY <1>1, <1>2, OlderIs
<1>5. Older(c, t.sec, t.in, s.sec, s.in) => flash[t.sec][t.in].id < flash[s.sec][s.in].id
  BY <1>1, <1>2, OlderIs
<1>6. \/ Older(c, s.sec, s.in, t.sec, t.in) \/ Older(c, t.sec, t.in, s.sec, s.in)
      \/ s.sec = t.sec /\ s.in = t.in
  BY <1>2, Compared
<1> QED
  BY <1>2, <1>3, <1>4, <1>5, <1>6 DEF IdAt

LEMMA HaveOrder ==
    ASSUME TypeInv, RingInv
    PROVE  \E c \in Sectors : LogInv(flash, c, acked)
BY HaveTypes DEF RingInv

LEMMA OrderGivesSequence == TypeInv /\ RingInv => SeqFollowsWrites
BY HaveOrder, RanksFollow DEF SeqFollowsWrites

LEMMA OrderGivesTrips == TypeInv /\ RingInv => TripsInOrder
<1> SUFFICES ASSUME TypeInv, RingInv PROVE TripsInOrder
  OBVIOUS
<1>1. \A s, t \in ValidSlots :
          IdAt(s) < IdAt(t) => flash[s.sec][s.in].trip <= flash[t.sec][t.in].trip
  BY HaveOrder, RanksFollow
<1>2. power = "run" => \A s \in ValidSlots : flash[s.sec][s.in].trip <= trip
  <2> SUFFICES ASSUME power = "run", NEW s \in ValidSlots
               PROVE  flash[s.sec][s.in].trip <= trip
    OBVIOUS
  <2>1. TripsFit(flash, queue, trip)
    BY DEF RingInv
  <2> QED
    BY <2>1, SlotIs DEF TripsFit
<1> QED
  BY <1>1, <1>2 DEF TripsInOrder

-----------------------------------------------------------------------------
(* What the scan finds *)

\* k sectors back from b, seen from c.
LEMMA BackIs ==
    ASSUME NEW c \in Sectors, NEW b \in Sectors, NEW k \in 0 .. RingDist(c, b)
    PROVE  /\ (b + NSectors - k) % NSectors \in Sectors
           /\ RingDist(c, (b + NSectors - k) % NSectors) = RingDist(c, b) - k
<1>1. /\ b \in Nat /\ b < NSectors /\ RingDist(c, b) \in 0 .. NSectors - 1
      /\ k \in Nat /\ k < NSectors
  BY DistIs, SectorTypes
<1>2. (b + NSectors - k) % NSectors = IF k <= b THEN b - k ELSE b + NSectors - k
  BY <1>1, SectorTypes
<1>3. PICK a \in Sectors : a = (b + NSectors - k) % NSectors
  BY <1>1, <1>2, SectorTypes DEF Sectors
<1>4. /\ RingDist(c, b) = IF c <= b THEN b - c ELSE b + NSectors - c
      /\ RingDist(c, a) = IF c <= a THEN a - c ELSE a + NSectors - c
      /\ c \in Nat /\ c < NSectors
  <2>1. a \in Nat /\ b \in Nat /\ c \in Nat
    BY DEF Sectors
  <2> QED
    BY <2>1, DistIs
<1> QED
  BY <1>1, <1>2, <1>3, <1>4, SectorTypes

\* The walk back stays on the ring.
LEMMA VisitedIs ==
    ASSUME NEW f, NEW b \in Sectors
    PROVE  Visited(f, b) \subseteq Sectors
<1>1. ASSUME NEW k \in 0 .. (ScanBack - 1) PROVE (b + NSectors - k) % NSectors \in Sectors
  BY RingAssumption, SectorTypes DEF Sectors
<1> QED
  BY <1>1 DEF Visited

LEMMA NewestIs ==
    ASSUME TypeInv, NEW kind, NEW p \in Newest(kind), \A s \in Newest(kind) : IdAt(s) <= IdAt(p)
    PROVE  NewestId(kind) = IdAt(p)
<1>1. \A s \in Newest(kind) : IdAt(s) \in Nat
  <2> SUFFICES ASSUME NEW s \in Newest(kind) PROVE IdAt(s) \in Nat
    OBVIOUS
  <2>1. s \in ValidSlots
    BY DEF Newest
  <2>2. flash[s.sec][s.in] \in Contents
    BY <2>1, SlotIs, HaveTypes DEF Flashes
  <2> QED
    BY <2>2 DEF IdAt, Contents
<1> DEFINE Top(i) == i \in {IdAt(s) : s \in Newest(kind)} /\ \A s \in Newest(kind) : IdAt(s) <= i
<1>2. Top(IdAt(p))
  OBVIOUS
<1>3. NewestId(kind) = CHOOSE i \in {IdAt(s) : s \in Newest(kind)} :
                          \A s \in Newest(kind) : IdAt(s) <= i
  BY DEF NewestId
<1>4. Top(NewestId(kind))
  BY <1>2, <1>3
<1>5. PICK s \in Newest(kind) : NewestId(kind) = IdAt(s)
  BY <1>4
<1>6. IdAt(p) <= IdAt(s) /\ IdAt(s) <= IdAt(p)
  BY <1>4, <1>5
<1> QED
  BY <1>1, <1>5, <1>6

\* Among readable records of a kind there is a newest.
LEMMA NewestThere ==
    ASSUME TypeInv, NEW kind, Newest(kind) # {}
    PROVE  \E p \in Newest(kind) : \A s \in Newest(kind) : IdAt(s) <= IdAt(p)
<1> DEFINE S == Newest(kind)
           v == [s \in S |-> IdAt(s)]
<1>1. v \in [S -> 0 .. acked] /\ acked \in Nat
  <2>1. ASSUME NEW s \in S PROVE IdAt(s) \in 0 .. acked
    <3>1. s.sec \in Sectors /\ s.in \in Indices /\ Valid(flash, s.sec, s.in)
      BY <2>1, SlotIs DEF Newest
    <3>2. flash[s.sec][s.in].id \in 1 .. acked
      BY <3>1 DEF TypeInv, Bounded
    <3> QED
      BY <3>2, HaveTypes DEF IdAt
  <2> QED
    BY <2>1, HaveTypes
<1>2. \E x \in S : \A y \in S : v[y] <= v[x]
  <2> HIDE DEF S, v
  <2> QED
    BY <1>1, Highest DEF S
<1> QED
  BY <1>2

\* Nothing readable, nothing found.
LEMMA NoneFound ==
    ASSUME NEW kind, NEW secs, secs \subseteq Sectors, Newest(kind) = {}
    PROVE  NewestOf(flash, kind, secs).id = 0 /\ NewestId(kind) = 0
<1>1. ASSUME NEW p \in [sec : secs, in : Indices],
             Valid(flash, p.sec, p.in), flash[p.sec][p.in].kind = kind
      PROVE  FALSE
  <2>1. p \in Slots
    BY DEF Slots
  <2> QED
    BY <1>1, <2>1 DEF Newest, ValidSlots
<1>2. NewestOf(flash, kind, secs) = Junk("erased")
  BY <1>1 DEF NewestOf
<1> QED
  BY <1>2 DEF Junk, NewestId

\* A newest record that the walk visits is found.
LEMMA NewestFound ==
    ASSUME TypeInv, RingInv, NEW kind \in Kinds, NEW secs, secs \subseteq Sectors,
           NEW p \in Newest(kind), \A s \in Newest(kind) : IdAt(s) <= IdAt(p), p.sec \in secs
    PROVE  NewestOf(flash, kind, secs).id = IdAt(p)
<1>1. PICK c \in Sectors : LogInv(flash, c, acked)
  BY HaveOrder
<1>2. p \in ValidSlots /\ kind # "any" /\ flash[p.sec][p.in].kind = kind
  BY DEF Newest, Kinds
<1>3. p \in [sec : secs, in : Indices] /\ Valid(flash, p.sec, p.in)
  BY <1>2, SlotIs DEF Slot
<1> DEFINE found == {flash[q.sec][q.in] : q \in {q \in [sec : secs, in : Indices] :
                        Valid(flash, q.sec, q.in) /\ flash[q.sec][q.in].kind = kind}}
<1>4. ASSUME NEW o \in found
      PROVE  \E q \in Newest(kind) : o = flash[q.sec][q.in]
  <2>1. PICK q \in [sec : secs, in : Indices] :
            /\ Valid(flash, q.sec, q.in) /\ flash[q.sec][q.in].kind = kind
            /\ o = flash[q.sec][q.in]
    OBVIOUS
  <2>2. q \in Slots
    BY DEF Slots
  <2> QED
    BY <2>1, <2>2 DEF Newest, ValidSlots
<1>5. flash[p.sec][p.in] \in found
  BY <1>2, <1>3
<1>6. NewestOf(flash, kind, secs) = CHOOSE r \in found : \A o \in found : o.seq <= r.seq
  BY <1>5 DEF NewestOf
<1> HIDE DEF found
<1>7. ASSUME NEW q \in Newest(kind)
      PROVE  /\ flash[q.sec][q.in].seq \in Nat
             /\ flash[q.sec][q.in].seq <= flash[p.sec][p.in].seq
             /\ flash[q.sec][q.in].seq = flash[p.sec][p.in].seq => q = p
  <2>1. q \in ValidSlots /\ IdAt(q) <= IdAt(p)
    BY DEF Newest
  <2>2. flash[q.sec][q.in].seq \in Nat /\ flash[p.sec][p.in].seq \in Nat
    <3>1. flash[q.sec][q.in] \in Contents /\ flash[p.sec][p.in] \in Contents
      BY <1>2, <2>1, SlotIs, HaveTypes DEF Flashes
    <3> QED
      BY <3>1 DEF Contents
  <2>3. /\ IdAt(q) \in Nat /\ IdAt(p) \in Nat
        /\ IdAt(q) < IdAt(p) => flash[q.sec][q.in].seq < flash[p.sec][p.in].seq
        /\ IdAt(q) = IdAt(p) => q = p
    BY <1>1, <1>2, <2>1, RanksFollow
  <2> QED
    BY <2>1, <2>2, <2>3
<1>8. \A o \in found : o.seq <= flash[p.sec][p.in].seq
  BY <1>4, <1>7
<1>9. PICK r \in found : /\ r = NewestOf(flash, kind, secs)
                         /\ \A o \in found : o.seq <= r.seq
  BY <1>5, <1>6, <1>8
<1>10. PICK q \in Newest(kind) : r = flash[q.sec][q.in]
  BY <1>4
<1>11. r.seq = flash[p.sec][p.in].seq
  <2>1. /\ flash[p.sec][p.in].seq <= r.seq /\ r.seq <= flash[p.sec][p.in].seq
    BY <1>5, <1>8, <1>9
  <2>2. r.seq \in Nat /\ flash[p.sec][p.in].seq \in Nat
    BY <1>7, <1>10
  <2> QED
    BY <2>1, <2>2
<1>12. q = p
  BY <1>7, <1>10, <1>11
<1> QED
  BY <1>9, <1>10, <1>12 DEF IdAt

\* The walk goes back as far as the newest record of each kind.
LEMMA WalkReaches ==
    ASSUME TypeInv, RingInv, NEW kind \in Kinds,
           NEW p \in Newest(kind), \A s \in Newest(kind) : IdAt(s) <= IdAt(p),
           NEW last \in ValidSlots, \A s \in ValidSlots : IdAt(s) <= IdAt(last),
           IdAt(last) - IdAt(p) <= (ScanBack - 1) * RecsPerSector
    PROVE  p.sec \in Visited(flash, last.sec)
<1>1. PICK c \in Sectors : LogInv(flash, c, acked)
  BY HaveOrder
<1>2. p \in ValidSlots /\ kind # "any" /\ flash[p.sec][p.in].kind = kind
  BY DEF Newest, Kinds
<1>3. /\ p.sec \in Sectors /\ p.in \in Indices /\ Valid(flash, p.sec, p.in) /\ p = Slot(p.sec, p.in)
      /\ last.sec \in Sectors /\ last.in \in Indices /\ Valid(flash, last.sec, last.in)
  BY <1>2, SlotIs
<1>4. /\ p.in \in Nat /\ last.in \in Nat /\ p.in < RecsPerSector
      /\ RecsPerSector \in Nat \ {0} /\ ScanBack \in Nat \ {0}
      /\ IdAt(p) \in Nat /\ IdAt(last) \in Nat
  BY <1>1, <1>2, <1>3, RanksFollow, RingAssumption DEF Indices
<1>5. RingDist(c, p.sec) \in Nat /\ RingDist(c, last.sec) \in Nat
  BY <1>3, DistIs
<1>6. RingDist(c, p.sec) <= RingDist(c, last.sec)
  <2>1. ~ (IdAt(last) < IdAt(p))
    BY <1>2, <1>4
  <2>2. ~ Older(c, last.sec, last.in, p.sec, p.in)
    BY <1>1, <1>2, <2>1, RanksFollow
  <2> QED
    BY <1>5, <2>2 DEF Older
<1>7. PICK k \in Nat : k = RingDist(c, last.sec) - RingDist(c, p.sec)
  BY <1>5, <1>6
<1>8. k <= ScanBack - 1
  <2>1. k * RecsPerSector + (last.in - p.in) <= IdAt(last) - IdAt(p)
    <3>1. CASE Older(c, p.sec, p.in, last.sec, last.in)
      BY <1>1, <1>3, <1>7, <3>1 DEF LogInv, Ordered, Between, IdAt
    <3>2. CASE last = p
      <4>1. k = 0
        BY <1>5, <1>7, <3>2
      <4> QED
        BY <1>4, <3>2, <4>1
    <3>3. \/ Older(c, p.sec, p.in, last.sec, last.in) \/ last = p
      <4>1. IdAt(p) < IdAt(last) \/ IdAt(p) = IdAt(last)
        BY <1>2, <1>4
      <4> QED
        BY <1>1, <1>2, <4>1, RanksFollow
    <3> QED
      BY <3>1, <3>2, <3>3
  <2>2. CASE k > ScanBack - 1
    <3>1. PICK m \in Nat : k = ScanBack + m
      <4>1. k - ScanBack \in Nat /\ k = ScanBack + (k - ScanBack)
        BY <1>4, <2>2
      <4> QED
        BY <4>1
    <3>2. /\ (ScanBack + m) * RecsPerSector
               = (ScanBack - 1) * RecsPerSector + RecsPerSector + m * RecsPerSector
          /\ (ScanBack - 1) * RecsPerSector \in Nat /\ m * RecsPerSector \in Nat
      BY <1>4
    <3>3. k * RecsPerSector + (last.in - p.in) <= (ScanBack - 1) * RecsPerSector
      BY <1>4, <2>1, <3>1, <3>2
    <3> QED
      BY <1>4, <3>1, <3>2, <3>3
  <2> QED
    BY <1>4, <2>2
<1>9. (last.sec + NSectors - k) % NSectors = p.sec
  <2>1. k \in 0 .. RingDist(c, last.sec)
    BY <1>5, <1>7
  <2>2. PICK a \in Sectors : a = (last.sec + NSectors - k) % NSectors
    BY <1>3, <2>1, BackIs
  <2>3. RingDist(c, a) = RingDist(c, last.sec) - k
    BY <1>3, <2>1, <2>2, BackIs
  <2>4. RingDist(c, a) = RingDist(c, p.sec)
    BY <1>5, <1>7, <2>3
  <2>5. RingDist(c, a) = RingDist(c, p.sec) => a = p.sec
    BY <1>3, DistSame
  <2> QED
    BY <2>2, <2>4, <2>5
<1>10. ASSUME NEW j \in 0 .. (k - 1)
       PROVE  ~Holds(flash, (last.sec + NSectors - j) % NSectors, kind)
  <2>1. j \in 0 .. RingDist(c, last.sec)
    BY <1>5, <1>7
  <2>2. PICK a \in Sectors : a = (last.sec + NSectors - j) % NSectors
    BY <1>3, <2>1, BackIs
  <2>3. RingDist(c, a) = RingDist(c, last.sec) - j
    BY <1>3, <2>1, <2>2, BackIs
  <2>4. RingDist(c, p.sec) < RingDist(c, a)
    BY <1>5, <1>7, <2>3
  <2>5. ASSUME NEW i \in Indices, Valid(flash, a, i), flash[a][i].kind = kind PROVE FALSE
    <3>1. PICK s \in Slots : s = Slot(a, i) /\ s.sec = a /\ s.in = i
      <4>1. Slot(a, i) \in Slots /\ Slot(a, i).sec = a /\ Slot(a, i).in = i
        BY DEF Slot, Slots
      <4> QED
        BY <4>1
    <3>2. s \in ValidSlots /\ s \in Newest(kind)
      BY <2>5, <3>1 DEF ValidSlots, Newest
    <3>3. IdAt(p) < IdAt(s) /\ IdAt(s) \in Nat
      BY <1>1, <1>2, <2>4, <3>1, <3>2, RanksFollow DEF Older
    <3> QED
      BY <1>4, <3>2, <3>3
  <2> QED
    BY <2>2, <2>5 DEF Holds
<1>11. k \in 0 .. (ScanBack - 1)
  BY <1>4, <1>8
<1> QED
  BY <1>9, <1>10, <1>11 DEF Visited

\* The scan ends at the newest record.
LEMMA ScanLast ==
    ASSUME TypeInv, RingInv, ScannedSectors(flash) # {}
    PROVE  LET b == BestSector(flash)
               i == LastIndex(flash, b)
           IN  /\ Slot(b, i) \in ValidSlots /\ Slot(b, i) \in Newest("any")
               /\ \A s \in ValidSlots : IdAt(s) <= IdAt(Slot(b, i))
               /\ b \in Sectors /\ Slot(b, i).sec = b /\ IdAt(Slot(b, i)) = flash[b][i].id
<1>1. PICK c \in Sectors : LogInv(flash, c, acked)
  BY HaveOrder
<1>2. PICK b : b = BestSector(flash)
  OBVIOUS
<1>3. PICK i : i = LastIndex(flash, b)
  OBVIOUS
<1>4. /\ b \in Sectors /\ i \in Indices /\ Valid(flash, b, i)
      /\ \A a \in Sectors, j \in Indices :
            Valid(flash, a, j) => (a = b /\ j = i) \/ Older(c, a, j, b, i)
  BY <1>1, <1>2, <1>3, HaveTypes, ScanEnds
<1>5. PICK l : l = Slot(b, i)
  OBVIOUS
<1>6. l \in Slots /\ l.sec = b /\ l.in = i
  BY <1>4, <1>5 DEF Slot, Slots
<1>7. l \in ValidSlots /\ l \in Newest("any")
  BY <1>4, <1>6 DEF ValidSlots, Newest
<1>8. ASSUME NEW s \in ValidSlots PROVE IdAt(s) <= IdAt(l)
  <2>1. /\ s.sec \in Sectors /\ s.in \in Indices /\ Valid(flash, s.sec, s.in)
        /\ s = Slot(s.sec, s.in)
    BY SlotIs
  <2>2. s = l \/ Older(c, s.sec, s.in, l.sec, l.in)
    BY <1>4, <1>5, <1>6, <2>1
  <2>3. IdAt(s) \in Nat /\ IdAt(l) \in Nat
    BY <1>1, <1>7, RanksFollow
  <2>4. Older(c, s.sec, s.in, l.sec, l.in) => IdAt(s) < IdAt(l)
    BY <1>1, <1>7, RanksFollow
  <2> QED
    BY <2>2, <2>3, <2>4
<1> QED
  BY <1>2, <1>3, <1>4, <1>5, <1>6, <1>7, <1>8 DEF IdAt

LEMMA OrderGivesScan == TypeInv /\ RingInv => ScanFindsNewest
<1> SUFFICES ASSUME TypeInv, RingInv PROVE ScanFindsNewest
  OBVIOUS
<1>1. CASE ScannedSectors(flash) = {}
  <2>1. ValidSlots = {}
    <3>1. \A a \in Sectors, i \in Indices : ~Valid(flash, a, i)
      BY <1>1, HaveOrder DEF LogInv, Formed, ScannedSectors
    <3> QED
      BY <3>1, SlotIs
  <2>2. \A kind : NewestId(kind) = 0
    BY <2>1 DEF NewestId, Newest
  <2>3. BootScan(flash).last = 0 /\ BootScan(flash).sample = 0 /\ BootScan(flash).odo = 0
    BY <1>1 DEF BootScan, EmptyScan
  <2> QED
    BY <2>2, <2>3 DEF ScanFindsNewest
<1>2. CASE ScannedSectors(flash) # {}
  <2>1. PICK b \in Sectors : b = BestSector(flash)
    BY <1>2, ScanLast
  <2>2. PICK i : i = LastIndex(flash, b)
    OBVIOUS
  <2>3. PICK l : l = Slot(b, i)
    OBVIOUS
  <2>4. /\ l \in ValidSlots /\ l \in Newest("any") /\ l.sec = b
        /\ \A s \in ValidSlots : IdAt(s) <= IdAt(l)
        /\ IdAt(l) = flash[b][i].id
    BY <1>2, <2>1, <2>2, <2>3, ScanLast
  <2>5. PICK secs : secs = Visited(flash, b)
    OBVIOUS
  <2>6. secs \subseteq Sectors
    BY <2>5, VisitedIs
  <2>7. /\ BootScan(flash).last = flash[b][i].id
        /\ BootScan(flash).sample = NewestOf(flash, "sample", secs).id
        /\ BootScan(flash).odo = NewestOf(flash, "odo", secs).id
    BY <1>2, <2>1, <2>2, <2>5 DEF BootScan
  <2>8. NewestId("any") = IdAt(l)
    <3>1. \A s \in Newest("any") : IdAt(s) <= IdAt(l)
      BY <2>4 DEF Newest
    <3> QED
      BY <2>4, <3>1, NewestIs
  <2>9. ASSUME NEW kind \in Kinds, WithinWalk(NewestId(kind))
        PROVE  NewestOf(flash, kind, secs).id = NewestId(kind)
    <3>1. CASE Newest(kind) = {}
      BY <2>6, <3>1, NoneFound
    <3>2. CASE Newest(kind) # {}
      <4>1. PICK p \in Newest(kind) : \A s \in Newest(kind) : IdAt(s) <= IdAt(p)
        BY <3>2, NewestThere
      <4>2. NewestId(kind) = IdAt(p)
        BY <4>1, NewestIs
      <4>3. IdAt(l) - IdAt(p) <= (ScanBack - 1) * RecsPerSector
        BY <2>8, <2>9, <4>2 DEF WithinWalk
      <4>4. p.sec \in secs
        BY <2>4, <2>5, <4>1, <4>3, WalkReaches
      <4> QED
        BY <2>6, <4>1, <4>2, <4>4, NewestFound
    <3> QED
      BY <3>1, <3>2
  <2> QED
    BY <2>4, <2>7, <2>8, <2>9 DEF ScanFindsNewest, Kinds
<1> QED
  BY <1>1, <1>2

-----------------------------------------------------------------------------
(* What is lost *)

\* The recent records that are not readable, of n.
Lost(f, n) ==
    {id \in (n - Retained + 1) .. n : id > 0 /\ \A a \in Sectors, i \in Indices :
        Valid(f, a, i) => f[a][i].id # id}

\* The slots the writer comes to next that cannot take a record.
Rubble(f, h) == {i \in Indices : h.in > 0 /\ i >= h.in /\ f[h.sec][i].state # "erased"}

\* What the cuts and the failed programs account for.
Spent == ResumeCost * cuts + wfaults

\* A boot puts the head before all the rubble of a sector again, which the cut
\* before has accounted for.
LossInv ==
    IF power = "off"
    THEN \/ ScannedSectors(flash) = {} /\ Lost(flash, acked) = {}
         \/ Cardinality(Lost(flash, acked)) + ResumeCost <= Spent
    ELSE Cardinality(Lost(flash, acked)) + Cardinality(Rubble(flash, head)) <= Spent

LEMMA WindowIs ==
    /\ ResumeCost \in Nat /\ ResumeCost = RecsPerSector - 1 /\ Retained \in Nat
    /\ NSectors - RunwayTarget - 1 \in Nat
    /\ Retained = (NSectors - RunwayTarget - 1) * RecsPerSector
<1>1. NSectors - RunwayTarget - 1 \in Nat /\ RecsPerSector \in Nat \ {0}
  BY RingAssumption
<1> QED
  BY <1>1 DEF ResumeCost, Retained

LEMMA SpentIs == TypeInv => Spent \in Nat
<1> SUFFICES ASSUME TypeInv PROVE Spent \in Nat
  OBVIOUS
<1>1. wfaults \in Nat /\ cuts \in Nat
  BY DEF TypeInv, TypeOK
<1>2. ResumeCost * cuts \in Nat
  BY <1>1, WindowIs
<1> QED
  BY <1>1, <1>2 DEF Spent

LEMMA LostCounts ==
    ASSUME NEW f, NEW n \in Nat
    PROVE  IsFiniteSet(Lost(f, n)) /\ Cardinality(Lost(f, n)) \in Nat
<1>1. Lost(f, n) \in SUBSET (1 .. n)
  BY WindowIs DEF Lost
<1>2. IsFiniteSet(1 .. n)
  BY FS_Interval
<1> QED
  BY <1>1, <1>2, FS_Subset, FS_CardinalityType

LEMMA RubbleCounts ==
    ASSUME NEW f, NEW h \in Slots
    PROVE  /\ IsFiniteSet(Rubble(f, h)) /\ Cardinality(Rubble(f, h)) \in Nat
           /\ Cardinality(Rubble(f, h)) <= ResumeCost
           /\ h.in = 0 => Rubble(f, h) = {}
<1>1. h.in \in Nat /\ RecsPerSector \in Nat \ {0} /\ Indices = 0 .. RecsPerSector - 1
  BY AfterIs, RingAssumption DEF Indices
<1>2. Rubble(f, h) \in SUBSET (1 .. RecsPerSector - 1)
  BY <1>1 DEF Rubble
<1>3. /\ IsFiniteSet(1 .. RecsPerSector - 1)
      /\ Cardinality(1 .. RecsPerSector - 1) = RecsPerSector - 1
  BY <1>1, FS_Interval
<1>4. h.in = 0 => Rubble(f, h) = {}
  BY DEF Rubble
<1>5. IsFiniteSet(Rubble(f, h)) /\ Cardinality(Rubble(f, h)) <= RecsPerSector - 1
  BY <1>2, <1>3, FS_Subset
<1> QED
  BY <1>4, <1>5, FS_CardinalityType, WindowIs

\* What an erase ahead takes is not recent.
LEMMA LostKept ==
    ASSUME NEW f \in Flashes, NEW g, NEW h \in Slots, NEW sq, NEW n \in Nat,
           HeadFits(f, h, sq, n), ErasesAhead(f, g, h)
    PROVE  Lost(g, n) \subseteq Lost(f, n)
<1> SUFFICES ASSUME NEW id \in Lost(g, n), NEW a \in Sectors, NEW i \in Indices,
                    Valid(f, a, i), f[a][i].id = id
             PROVE  FALSE
  BY DEF Lost
<1>1. /\ id \in (n - Retained + 1) .. n
      /\ \A d \in Sectors, j \in Indices : Valid(g, d, j) => g[d][j].id # id
  BY DEF Lost
<1>2. RingDist(FreshSector(h), a) < RunwayTarget
  BY <1>1 DEF ErasesAhead, Valid
<1>3. (NSectors - RingDist(FreshSector(h), a)) * RecsPerSector - i - Slack(h) <= n + 1 - id
  BY DEF HeadFits
<1>4. /\ h.in \in Nat /\ i \in Nat /\ i < RecsPerSector /\ RecsPerSector \in Nat \ {0}
      /\ FreshSector(h) \in Sectors
  BY AfterIs, RingAssumption DEF Indices
<1>5. Slack(h) <= RecsPerSector - 1 /\ Slack(h) \in Int
  BY <1>4 DEF Slack
<1>6. PICK q \in Nat : NSectors - RingDist(FreshSector(h), a) = (NSectors - RunwayTarget - 1) + 2 + q
  <2>1. PICK d \in Nat : d = RingDist(FreshSector(h), a)
    BY <1>4, DistIs
  <2>2. /\ RunwayTarget - 1 - d \in Nat
        /\ NSectors - d = (NSectors - RunwayTarget - 1) + 2 + (RunwayTarget - 1 - d)
    BY <1>2, <2>1, SectorTypes, RingAssumption
  <2> QED
    BY <2>1, <2>2
<1>7. PICK m \in Nat : m = NSectors - RunwayTarget - 1
  BY WindowIs
<1>8. /\ (m + 2 + q) * RecsPerSector
            = m * RecsPerSector + RecsPerSector + RecsPerSector + q * RecsPerSector
      /\ m * RecsPerSector \in Nat /\ q * RecsPerSector \in Nat
  BY <1>4
<1>9. Retained = m * RecsPerSector
  BY <1>7, WindowIs
<1>10. (m + 2 + q) * RecsPerSector - i - Slack(h) <= n + 1 - id
  BY <1>3, <1>6, <1>7
<1> QED
  BY <1>1, <1>4, <1>5, <1>8, <1>9, <1>10

\* The sector of the head is the farthest once it has been entered.
LEMMA HeadFar ==
    ASSUME NEW h \in Slots, h.in > 0
    PROVE  RingDist(FreshSector(h), h.sec) = NSectors - 1
BY AfterIs, DistNext DEF FreshSector

\* A step that leaves the head where it is, and its sector.
LEMMA LossStays ==
    ASSUME TypeInv, RingInv, LossInv, power # "off", power' # "off",
           UNCHANGED <<head, acked, cuts, wfaults>>, ErasesAhead(flash, flash', head),
           head.in > 0 => flash'[head.sec] = flash[head.sec]
    PROVE  LossInv'
<1>1. /\ flash \in Flashes /\ head \in Slots /\ acked \in Nat
      /\ HeadFits(flash, head, seq, acked)
  BY HaveTypes DEF RingInv
<1>2. Lost(flash', acked) \in SUBSET Lost(flash, acked)
  BY <1>1, LostKept
<1>3. Rubble(flash', head) = Rubble(flash, head)
  BY DEF Rubble
<1>4. /\ Cardinality(Lost(flash', acked)) <= Cardinality(Lost(flash, acked))
      /\ Cardinality(Lost(flash', acked)) \in Nat /\ Cardinality(Lost(flash, acked)) \in Nat
      /\ Cardinality(Rubble(flash, head)) \in Nat
  BY <1>1, <1>2, LostCounts, RubbleCounts, FS_Subset
<1>5. Spent \in Nat
  BY SpentIs
<1>6. Cardinality(Lost(flash, acked)) + Cardinality(Rubble(flash, head)) <= Spent
  BY DEF LossInv
<1>7. Cardinality(Lost(flash', acked)) + Cardinality(Rubble(flash', head)) <= Spent
  BY <1>3, <1>4, <1>5, <1>6
<1> QED
  BY <1>7 DEF LossInv, Spent

LEMMA LossInit == Init => LossInv
<1> SUFFICES ASSUME Init PROVE LossInv
  OBVIOUS
<1>1. \A a \in Sectors, i \in Indices : flash[a][i].state = "erased"
  BY JunkIs DEF Init, States
<1>2. ScannedSectors(flash) = {}
  BY <1>1, SectorTypes DEF ScannedSectors, Valid
<1>3. Lost(flash, acked) = {}
  BY WindowIs DEF Init, Lost
<1> QED
  BY <1>2, <1>3 DEF LossInv, Init

LEMMA LossBoot ==
    ASSUME TypeInv, RingInv, LossInv, Boot
    PROVE  LossInv'
<1>1. PICK h \in Slots : h = BootScan(flash).head
  BY BootTypes, HaveTypes DEF TypeInv
<1>2. /\ power = "off" /\ power' # "off" /\ head' = h
      /\ UNCHANGED <<flash, acked, cuts, wfaults>>
  BY <1>1 DEF Boot
<1>3. /\ Cardinality(Lost(flash, acked)) \in Nat /\ Cardinality(Rubble(flash, h)) \in Nat
      /\ Cardinality(Rubble(flash, h)) <= ResumeCost /\ ResumeCost \in Nat
      /\ h.in = 0 => Rubble(flash, h) = {}
  BY HaveTypes, LostCounts, RubbleCounts, WindowIs
<1>4. Spent \in Nat
  BY SpentIs
<1>5. Cardinality(Lost(flash, acked)) + Cardinality(Rubble(flash, h)) <= Spent
  <2>1. CASE ScannedSectors(flash) = {} /\ Lost(flash, acked) = {}
    <3>1. h.in = 0
      BY <1>1, <2>1 DEF BootScan, EmptyScan, Slot
    <3>2. Cardinality(Lost(flash, acked)) = 0 /\ Cardinality(Rubble(flash, h)) = 0
      BY <1>3, <2>1, <3>1, FS_EmptySet
    <3> QED
      BY <1>4, <3>2
  <2>2. CASE Cardinality(Lost(flash, acked)) + ResumeCost <= Spent
    BY <1>3, <1>4, <2>2
  <2> QED
    BY <1>2, <2>1, <2>2 DEF LossInv
<1> QED
  BY <1>2, <1>5 DEF LossInv, Spent

LEMMA LossBuilt ==
    ASSUME TypeInv, RingInv, LossInv, RunwayBuild
    PROVE  LossInv'
<1> DEFINE F == FreshSector(head)
<1>1. F \in Sectors /\ flash \in Flashes /\ head \in Slots /\ head.sec \in Sectors
  BY HaveTypes
<1>2. PICK n \in 0 .. RunwayTarget :
          flash' = RunwayStarted(RunwayBuilt(flash, F, n), F, CleanAhead(RunwayBuilt(flash, F, n), F))
  BY DEF RunwayBuild
<1>3. head.in > 0 => RingDist(F, head.sec) = NSectors - 1
  BY <1>1, HeadFar
<1> HIDE DEF F
<1>4. PICK built : built = RunwayBuilt(flash, F, n)
  OBVIOUS
<1>5. PICK clean \in 0 .. RunwayTarget : clean = CleanAhead(built, F)
  BY CleanAheadIs
<1>6. /\ n \in Nat /\ clean \in Nat /\ n < NSectors - 1 /\ RunwayBootMin < NSectors - 1
      /\ NSectors \in Nat /\ RunwayBootMin \in Nat
  BY RingAssumption
<1>7. built \in Flashes
  <2>1. Wiped(flash, built)
    BY <1>1, <1>4, <1>6, RunwayIs
  <2> QED
    BY <2>1 DEF Wiped
<1>8. head.in > 0 => flash'[head.sec] = flash[head.sec]
  <2> SUFFICES ASSUME head.in > 0 PROVE flash'[head.sec] = flash[head.sec]
    OBVIOUS
  <2>1. RingDist(F, head.sec) >= n /\ RingDist(F, head.sec) >= RunwayBootMin
    BY <1>3, <1>6
  <2>2. built[head.sec] = flash[head.sec]
    BY <1>1, <1>4, <1>6, <2>1, RunwayIs
  <2>3. RunwayStarted(built, F, clean)[head.sec] = built[head.sec]
    BY <1>1, <1>6, <1>7, <2>1, RunwayIs
  <2> QED
    BY <1>2, <1>4, <1>5, <2>2, <2>3
<1>9. power # "off" /\ power' # "off" /\ UNCHANGED <<head, acked, cuts, wfaults>>
  BY DEF RunwayBuild
<1> QED
  BY <1>8, <1>9, RingBuilt, LossStays

LEMMA LossWritten ==
    ASSUME NoLies, TypeInv, RingInv, LossInv, Writer
    PROVE  LossInv'
<1>1. /\ flash \in Flashes /\ head \in Slots /\ acked \in Nat /\ acked + 1 \in Nat
      /\ head.sec \in Sectors /\ head.in \in Indices /\ head.in \in Nat
      /\ Indices \subseteq Nat /\ FreshSector(head) \in Sectors
  BY HaveTypes, AfterIs DEF Indices
<1>2. power = "run" /\ power' = "run"
  BY DEF Writer, WriteRecord, WriteFails, EntryEraseFails, IdleTickMoving, IdleTickParked,
         TrickleEraseFails, Writing, Idle, TrickleDue
<1>3. /\ LogInv(flash, FreshSector(head), acked) /\ HeadFits(flash, head, seq, acked)
  BY <1>2 DEF RingInv
<1>4. ErasesAhead(flash, flash', head)
  BY RingWritten
<1>5. Lost(flash', acked) \in SUBSET Lost(flash, acked)
  BY <1>1, <1>3, <1>4, LostKept
<1>6. PICK l \in Nat : l = Cardinality(Lost(flash, acked))
  BY <1>1, LostCounts
<1>7. PICK r \in Nat : r = Cardinality(Rubble(flash, head))
  BY <1>1, RubbleCounts
<1>8. l + r <= Spent /\ Spent \in Nat
  BY <1>2, <1>6, <1>7, SpentIs DEF LossInv
<1>9. PICK e : e = Entered(flash, head)
  OBVIOUS
<1>10. /\ e \in Flashes /\ LogInv(e, FreshSector(head), acked)
       /\ head.in = 0 => e[head.sec][0].state = "erased"
       /\ head.in > 0 => e = flash
  BY <1>1, <1>3, <1>9, EnteredFits, EnteredIs
<1>11. head.in = 0 => \A i \in Indices : e[head.sec][i].state = "erased"
  BY <1>1, <1>10 DEF LogInv, NoBlank
<1>12. CASE WriteRecord
  <2>1. PICK rec \in Contents : rec.state = "valid" /\ rec.id = acked + 1 /\ rec = QueuedRecord
    BY <1>12, QueuedIs DEF WriteRecord
  <2>2. PICK s \in Slots : s = SlotAfter(head)
    BY <1>1, AfterIs
  <2>3. /\ flash' = Programmed(e, head, rec) /\ head' = s /\ acked' = acked + 1
        /\ UNCHANGED <<cuts, wfaults>>
    BY <1>9, <1>12, <2>1, <2>2 DEF WriteRecord
  <2>4. /\ \A a \in Sectors, i \in Indices : a # head.sec \/ i # head.in =>
              flash'[a][i] = e[a][i]
        /\ e[head.sec][head.in].state = "erased" => flash'[head.sec][head.in] = rec
    BY <1>1, <1>10, <2>1, <2>3, ProgrammedIs
  <2>5. Lost(flash', acked + 1) \subseteq Lost(flash, acked) \cup {acked + 1}
    <3>1. Lost(flash', acked + 1) \subseteq Lost(flash', acked) \cup {acked + 1}
      BY <1>1, WindowIs DEF Lost
    <3> QED
      BY <1>5, <3>1
  <2>6. s.in > 0 => s.sec = head.sec /\ s.in = head.in + 1
    BY <1>1, <2>2 DEF SlotAfter, Slot
  <2>7. Rubble(flash', s) \subseteq Rubble(flash, head) \ {head.in}
    <3> SUFFICES ASSUME NEW i \in Rubble(flash', s)
                 PROVE  i \in Rubble(flash, head) /\ i # head.in
      OBVIOUS
    <3>1. /\ i \in Indices /\ i \in Nat /\ s.in > 0 /\ i >= s.in
          /\ flash'[s.sec][i].state # "erased"
      BY <1>1 DEF Rubble
    <3>2. i >= head.in + 1 /\ i # head.in /\ i >= head.in
      BY <1>1, <2>6, <3>1
    <3>3. e[head.sec][i].state # "erased"
      BY <1>1, <2>4, <2>6, <3>1, <3>2
    <3>4. head.in > 0 /\ e = flash
      BY <1>1, <1>10, <1>11, <3>1, <3>3
    <3> QED
      BY <3>1, <3>2, <3>3, <3>4 DEF Rubble
  <2>8. Cardinality(Lost(flash', acked + 1)) + Cardinality(Rubble(flash', s)) <= l + r
    <3>1. /\ IsFiniteSet(Lost(flash, acked)) /\ IsFiniteSet(Rubble(flash, head))
          /\ Cardinality(Lost(flash', acked + 1)) \in Nat /\ Cardinality(Rubble(flash', s)) \in Nat
      BY <1>1, LostCounts, RubbleCounts
    <3>2. CASE e[head.sec][head.in].state = "erased"
      <4>1. Valid(flash', head.sec, head.in) /\ flash'[head.sec][head.in].id = acked + 1
        BY <2>1, <2>4, <3>2 DEF Valid
      <4>2. acked + 1 \notin Lost(flash', acked + 1)
        BY <1>1, <4>1 DEF Lost
      <4>3. Lost(flash', acked + 1) \in SUBSET Lost(flash, acked)
        BY <2>5, <4>2
      <4>4. Rubble(flash', s) \in SUBSET Rubble(flash, head)
        BY <2>7
      <4>5. /\ Cardinality(Lost(flash', acked + 1)) <= l
            /\ Cardinality(Rubble(flash', s)) <= r
        BY <1>6, <1>7, <3>1, <4>3, <4>4, FS_Subset
      <4> QED
        BY <3>1, <4>5
    <3>3. CASE e[head.sec][head.in].state # "erased"
      <4>1. head.in \in Rubble(flash, head)
        BY <1>1, <1>10, <1>11, <3>3 DEF Rubble
      <4>2. PICK m : m = acked + 1
        OBVIOUS
      <4>3. /\ IsFiniteSet(Lost(flash, acked) \cup {m})
            /\ Cardinality(Lost(flash, acked) \cup {m}) <= l + 1
        <5>1. /\ IsFiniteSet(Lost(flash, acked) \cup {m})
              /\ Cardinality(Lost(flash, acked) \cup {m})
                    = IF m \in Lost(flash, acked) THEN Cardinality(Lost(flash, acked))
                                                  ELSE Cardinality(Lost(flash, acked)) + 1
          BY <3>1, FS_AddElement
        <5> QED
          BY <1>6, <5>1
      <4>4. /\ IsFiniteSet(Rubble(flash, head) \ {head.in})
            /\ Cardinality(Rubble(flash, head) \ {head.in}) = r - 1
        BY <1>7, <3>1, <4>1, FS_RemoveElement
      <4>5. Cardinality(Lost(flash', m)) <= Cardinality(Lost(flash, acked) \cup {m})
        BY <2>5, <4>2, <4>3, FS_Subset
      <4>6. Cardinality(Rubble(flash', s)) <= r - 1
        BY <2>7, <4>4, FS_Subset
      <4>7. Cardinality(Lost(flash, acked) \cup {m}) \in Nat
        BY <4>3, FS_CardinalityType
      <4> QED
        BY <3>1, <4>2, <4>3, <4>5, <4>6, <4>7
    <3> QED
      BY <3>2, <3>3
  <2>9. Cardinality(Lost(flash', acked + 1)) + Cardinality(Rubble(flash', s)) <= Spent
    <3>1. Cardinality(Lost(flash', acked + 1)) \in Nat /\ Cardinality(Rubble(flash', s)) \in Nat
      BY <1>1, LostCounts, RubbleCounts
    <3> QED
      BY <1>8, <2>8, <3>1
  <2> QED
    BY <1>2, <2>3, <2>9 DEF LossInv, Spent
<1>13. CASE WriteFails
  <2>1. UNCHANGED <<head, acked, cuts>> /\ wfaults' = wfaults + 1
    BY <1>13 DEF WriteFails
  <2>2. flash' = e \/ flash' = TornAt(e, head, "torn")
    BY <1>9, <1>13 DEF WriteFails, TornStates, NoLies
  <2>3. \A a \in Sectors, i \in Indices : a # head.sec \/ i # head.in => flash'[a][i] = e[a][i]
    <3>1. CASE flash' = e
      BY <3>1
    <3>2. CASE flash' = TornAt(e, head, "torn")
      <4>1. e \in Flashes
        BY <1>10
      <4> QED
        BY <1>1, <3>2, <4>1, TornIs
    <3> QED
      BY <2>2, <3>1, <3>2
  <2>4. Rubble(flash', head) \subseteq Rubble(flash, head) \cup {head.in}
    <3> SUFFICES ASSUME NEW i \in Rubble(flash', head), i # head.in
                 PROVE  i \in Rubble(flash, head)
      OBVIOUS
    <3> QED
      BY <1>1, <1>10, <2>3 DEF Rubble
  <2>5. PICK m : m = head.in
    OBVIOUS
  <2>6. /\ IsFiniteSet(Rubble(flash, head) \cup {m})
        /\ Cardinality(Rubble(flash, head) \cup {m}) <= r + 1
    <3>1. IsFiniteSet(Rubble(flash, head))
      BY <1>1, RubbleCounts
    <3>2. /\ IsFiniteSet(Rubble(flash, head) \cup {m})
          /\ Cardinality(Rubble(flash, head) \cup {m})
                = IF m \in Rubble(flash, head) THEN Cardinality(Rubble(flash, head))
                                               ELSE Cardinality(Rubble(flash, head)) + 1
      BY <3>1, FS_AddElement
    <3> QED
      BY <1>7, <3>2
  <2>7. Cardinality(Rubble(flash', head)) <= Cardinality(Rubble(flash, head) \cup {m})
    BY <2>4, <2>5, <2>6, FS_Subset
  <2>8. /\ Cardinality(Lost(flash', acked)) <= l
        /\ Cardinality(Lost(flash', acked)) \in Nat /\ Cardinality(Rubble(flash', head)) \in Nat
        /\ Cardinality(Rubble(flash, head) \cup {m}) \in Nat
    BY <1>1, <1>5, <1>6, <2>6, LostCounts, RubbleCounts, FS_Subset, FS_CardinalityType
  <2>9. Cardinality(Lost(flash', acked)) + Cardinality(Rubble(flash', head)) <= Spent + 1
    BY <1>8, <2>6, <2>7, <2>8
  <2>10. Spent' = Spent + 1
    <3>1. wfaults \in Nat /\ ResumeCost * cuts \in Nat
      BY WindowIs DEF TypeInv, TypeOK
    <3> QED
      BY <2>1, <3>1 DEF Spent
  <2> QED
    BY <1>2, <2>1, <2>9, <2>10 DEF LossInv
<1>14. CASE IdleTickMoving \/ IdleTickParked
  <2>1. UNCHANGED <<head, acked, cuts, wfaults>>
    BY <1>14 DEF IdleTickMoving, IdleTickParked
  <2>2. head.in > 0 => flash'[head.sec] = flash[head.sec]
    <3>1. CASE IdleTickMoving
      BY <3>1 DEF IdleTickMoving
    <3>2. CASE IdleTickParked
      <4>1. PICK p \in Sectors : p = IdleRunway
        BY IdleRunwayIs
      <4>2. /\ RingDist(FreshSector(head), p) < RunwayTarget
            /\ flash' = flash \/ flash' = FilledWith(flash, p, "erased")
        BY <3>2, <4>1 DEF IdleTickParked, TrickleDue, Erased
      <4>3. \A a \in Sectors : a # p => flash'[a] = flash[a]
        <5>1. "erased" \in States
          BY DEF States
        <5>2. \A a \in Sectors : a # p => FilledWith(flash, p, "erased")[a] = flash[a]
          BY <1>1, <5>1, FilledIs
        <5> QED
          BY <4>2, <5>2
      <4>4. head.in > 0 => head.sec # p
        <5>1. head.in > 0 => RingDist(FreshSector(head), head.sec) = NSectors - 1
          BY <1>1, HeadFar
        <5> QED
          BY <4>2, <5>1, RingAssumption
      <4> QED
        BY <1>1, <4>3, <4>4
    <3> QED
      BY <1>14, <3>1, <3>2
  <2> QED
    BY <1>2, <1>4, <2>1, <2>2, LossStays
<1>15. ~EntryEraseFails /\ ~TrickleEraseFails
  <2>1. efaults \in Nat
    BY DEF TypeInv, TypeOK
  <2> QED
    BY <2>1 DEF EntryEraseFails, TrickleEraseFails, NoLies
<1> QED
  BY <1>12, <1>13, <1>14, <1>15 DEF Writer

LEMMA LossCut ==
    ASSUME NoLies, TypeInv, RingInv, LossInv, PowerCut
    PROVE  LossInv'
<1>1. power # "off" /\ power' = "off" /\ acked' = acked /\ wfaults' = wfaults /\ cuts' = cuts + 1
  BY CutLoses DEF Cut
<1>2. flash \in Flashes /\ head \in Slots /\ acked \in Nat /\ HeadFits(flash, head, seq, acked)
  BY <1>1, HaveTypes DEF RingInv
<1>3. Lost(flash', acked) \in SUBSET Lost(flash, acked)
  BY <1>2, RingCut, LostKept
<1>4. /\ Cardinality(Lost(flash', acked)) <= Cardinality(Lost(flash, acked))
      /\ Cardinality(Lost(flash', acked)) \in Nat /\ Cardinality(Lost(flash, acked)) \in Nat
      /\ Cardinality(Rubble(flash, head)) \in Nat
  BY <1>2, <1>3, LostCounts, RubbleCounts, FS_Subset
<1>5. Cardinality(Lost(flash, acked)) + Cardinality(Rubble(flash, head)) <= Spent
  BY <1>1 DEF LossInv
<1>6. Spent' = Spent + ResumeCost /\ Spent \in Nat /\ ResumeCost \in Nat
  <2>1. wfaults \in Nat /\ cuts \in Nat /\ ResumeCost \in Nat /\ ResumeCost * cuts \in Nat
    BY WindowIs DEF TypeInv, TypeOK
  <2>2. ResumeCost * (cuts + 1) = ResumeCost * cuts + ResumeCost
    BY <2>1
  <2> QED
    BY <1>1, <2>1, <2>2 DEF Spent
<1>7. Cardinality(Lost(flash', acked)) + ResumeCost <= Spent'
  BY <1>4, <1>5, <1>6
<1> QED
  BY <1>1, <1>7 DEF LossInv

LEMMA LossStep ==
    ASSUME NoLies, TypeInv, RingInv, LossInv, [Next]_vars
    PROVE  LossInv'
<1>1. CASE UNCHANGED vars
  BY <1>1 DEF vars, ram, LossInv, Spent
<1>2. CASE UserAndTick
  <2>1. power = "run" /\ UNCHANGED <<flash, power, head, acked, cuts, wfaults>>
    BY <1>2 DEF UserAndTick, NewTrip, Tick, OdoFlush, DeleteTrip, ram
  <2> QED
    BY <2>1 DEF LossInv, Spent
<1> QED
  BY <1>1, <1>2, LossBoot, LossBuilt, LossWritten, LossCut DEF Next

LEMMA LossGivesRecent == NoLies /\ TypeInv /\ LossInv => RecentRecordsKept
<1> SUFFICES ASSUME NoLies, TypeInv, LossInv PROVE RecentRecordsKept
  OBVIOUS
<1>1. LostRecent = Lost(flash, acked)
  <2>1. \A id : Readable(id) <=>
            \E a \in Sectors, i \in Indices : Valid(flash, a, i) /\ flash[a][i].id = id
    <3> SUFFICES ASSUME NEW id
                 PROVE  Readable(id) <=> \E a \in Sectors, i \in Indices :
                            Valid(flash, a, i) /\ flash[a][i].id = id
      OBVIOUS
    <3>1. ASSUME NEW a \in Sectors, NEW i \in Indices, Valid(flash, a, i), flash[a][i].id = id
          PROVE  Readable(id)
      <4>1. Slot(a, i) \in Slots /\ Slot(a, i).sec = a /\ Slot(a, i).in = i
        BY DEF Slot, Slots
      <4> QED
        BY <3>1, <4>1 DEF Readable, ValidSlots, IdAt
    <3> QED
      BY <3>1, SlotIs DEF Readable, IdAt
  <2> QED
    BY <2>1 DEF LostRecent, Lost
<1>2. Cardinality(Lost(flash, acked)) <= Spent
  <2>1. /\ Cardinality(Lost(flash, acked)) \in Nat /\ ResumeCost \in Nat /\ Spent \in Nat
        /\ Cardinality(Rubble(flash, head)) \in Nat
    BY HaveTypes, LostCounts, RubbleCounts, WindowIs, SpentIs
  <2>2. Lost(flash, acked) = {} => Cardinality(Lost(flash, acked)) = 0
    BY FS_EmptySet
  <2> QED
    BY <2>1, <2>2 DEF LossInv
<1>3. LieCost * (cuts + wfaults + efaults) = 0
  <2>1. LieCost = 0
    BY DEF LieCost, NoLies
  <2>2. cuts + wfaults + efaults \in Nat
    BY DEF TypeInv, TypeOK
  <2> QED
    BY <2>1, <2>2
<1>4. Spent \in Nat
  BY SpentIs
<1> QED
  BY <1>1, <1>2, <1>3, <1>4 DEF RecentRecordsKept, Spent

-----------------------------------------------------------------------------
(* The theorems *)

\* Whatever fails, every variable keeps its type: the head is a slot, the runway
\* a sector, the queue within QUEUE_DEPTH (trip_log_init, the writer, the tick).
THEOREM TypeCorrect == Spec => []TypeOK
<1>1. TypeInv => TypeOK
  BY DEF TypeInv
<1> QED
  BY <1>1, TypeInit, TypeStep, PTL DEF Spec

LEMMA LogStays ==
    ASSUME NoLies
    PROVE  Spec => [](TypeInv /\ RingInv /\ LossInv)
<1>1. TypeInv /\ RingInv /\ LossInv /\ [Next]_vars => (TypeInv /\ RingInv /\ LossInv)'
  <2> SUFFICES ASSUME TypeInv, RingInv, LossInv, [Next]_vars
               PROVE  TypeInv' /\ RingInv' /\ LossInv'
    OBVIOUS
  <2> QED
    BY TypeStep, RingStep, LossStep
<1> QED
  BY <1>1, TypeInit, RingInit, LossInit, PTL DEF Spec

\* Sequence numbers, taken anew from the flash at each boot, order the readable
\* records as they were written, without a duplicate (boot_scan, the writer).
THEOREM SequenceFollowsWrites ==
    ASSUME NoLies
    PROVE  Spec => []SeqFollowsWrites
BY LogStays, OrderGivesSequence, PTL

\* Trips do not interleave in the log and none is later than the live one, for
\* any number of cuts and new trips (trip_log_tick, boot_scan).
THEOREM TripsFollow ==
    ASSUME NoLies
    PROVE  Spec => []TripsInOrder
BY LogStays, OrderGivesTrips, PTL

\* Wherever power is cut, boot_scan finds the newest record of the ring, and the
\* newest sample and checkpoint unless they lie beyond the sectors it walks.
THEOREM ScanFinds ==
    ASSUME NoLies
    PROVE  Spec => []ScanFindsNewest
BY LogStays, OrderGivesScan, PTL

\* However many operations fail or are cut, the recent records that cannot be
\* read are accounted for (the writer, boot_scan, the runway).
THEOREM RecentKept ==
    ASSUME NoLies
    PROVE  Spec => []RecentRecordsKept
BY LogStays, LossGivesRecent, PTL

\* A readable record only disappears with its whole sector, in the runway ahead
\* of the head (runway_build_boot, the writer's entry check and trickle).
THEOREM ErasesStayAhead ==
    ASSUME NoLies
    PROVE  Spec => EraseOnlyAhead
<1> DEFINE Ahead1 ==
        \A s \in ValidSlots : flash'[s.sec][s.in] # flash[s.sec][s.in] =>
            /\ RingDist(FreshSector(head), s.sec) < RunwayTarget
            /\ \A i \in Indices : flash'[s.sec][i].state # "valid" \/ Slot(s.sec, i) = head
<1>1. TypeInv /\ RingInv /\ [Next]_vars => [Ahead1]_vars
  <2> SUFFICES ASSUME TypeInv, RingInv, [Next]_vars PROVE Ahead1
    OBVIOUS
  <2>1. ErasesAhead(flash, flash', head)
    BY RingStep
  <2>2. head = Slot(head.sec, head.in)
    BY HaveTypes DEF Slot, Slots
  <2> QED
    BY <2>1, <2>2, SlotIs DEF ErasesAhead
<1> QED
  BY <1>1, LogStays, PTL DEF EraseOnlyAhead, Spec
====
