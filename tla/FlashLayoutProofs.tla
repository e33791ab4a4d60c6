------------------------- MODULE FlashLayoutProofs --------------------------
(***************************************************************************)
(* For every chip and every choice of partition lengths: the partitions    *)
(* kerSysFlashInit lays out are disjoint, fill the end of their sectors,   *)
(* take no sector they do not need and leave the boot sector alone when    *)
(* there is room.                                                          *)
(***************************************************************************)
EXTENDS FlashLayout, TLAPS

\* The running total is what lies above the last partition.
TotalInv == top >= 0 => used = SizeOf(top, NSect)

\* The partitions already laid out lie above top, in the order of Order.
StackInv ==
    /\ \A i \in Index : i <= count => top <= part[i].start
    /\ \A i \in Index : Placed(i) => part[i].number >= 1 /\ part[i].start + part[i].number <= NSect
    /\ \A i, j \in Index : Placed(i) /\ Placed(j) /\ i < j =>
           part[j].start + part[j].number <= part[i].start

LayoutInv == TypeOK /\ TotalInv /\ StackInv /\ InsideSectors /\ NoSpareSector

\* The nine partitions: what Order says about indices.
LEMMA OrderFacts ==
    /\ Len(Order) = 9
    /\ \A i \in Index : Order[i] \in Partition
BY DEF Order, Partition, Index

\* The sector table of a chip grows strictly and covers the flash.
LEMMA BaseFacts ==
    ASSUME TypeOK
    PROVE  /\ NSect \in Nat /\ NSect >= 1
           /\ \A i \in 0..NSect : base[i] \in Nat
           /\ base[0] = 0
           /\ \A i, j \in 0..NSect : i < j => base[i] < base[j]
           /\ \A i \in Index : len[Order[i]] \in Nat /\ len[Order[i]] >= 1
<1>1. NSect \in Nat /\ NSect >= 1
  BY SectorAssumption
<1>2. base \in Geometry /\ base \in [0..NSect -> Nat] /\ base[0] = 0
  BY GeometryAssumption DEF TypeOK
<1>3. \A i, j \in 0..NSect : i < j => base[i] < base[j]
  BY <1>2, GeometryAssumption
<1>4. len \in [Partition -> Nat \ {0}]
  BY LengthAssumption DEF TypeOK
<1>5. \A i \in Index : len[Order[i]] \in Nat /\ len[Order[i]] >= 1
  BY <1>4, OrderFacts
<1> QED
  BY <1>1, <1>2, <1>3, <1>5

\* flash_get_blk finds the sector an address lies in.
LEMMA GetBlkFacts ==
    ASSUME TypeOK, NEW a \in Int, a < base[NSect]
    PROVE  /\ a < 0 => GetBlk(a) = -1
           /\ a >= 0 => /\ GetBlk(a) \in 0..(NSect - 1)
                        /\ base[GetBlk(a)] <= a /\ a < base[GetBlk(a) + 1]
<1>1. CASE a < 0
  BY <1>1 DEF GetBlk
<1>2. CASE a >= 0
  <2>1. a \in 0..(base[NSect] - 1)
    BY <1>2, BaseFacts
  <2>2. \E i \in 0..(NSect - 1) : base[i] <= a /\ a < base[i + 1]
    BY <2>1, GeometryAssumption DEF TypeOK
  <2>3. GetBlk(a) = CHOOSE i \in 0..(NSect - 1) : base[i] <= a /\ a < base[i + 1]
    BY <1>2 DEF GetBlk
  <2> QED
    BY <1>2, <2>2, <2>3
<1> QED
  BY <1>1, <1>2

\* Before kerSysFlashInit places the first partition the invariant holds.
LEMMA InitInv == Init => LayoutInv
<1> SUFFICES ASSUME Init PROVE LayoutInv
  OBVIOUS
<1>1. TypeOK
  BY SectorAssumption DEF Init, TypeOK, NoPart, Placed, Index
<1>2. TotalInv
  BY <1>1, BaseFacts DEF Init, TotalInv, SizeOf
<1>3. StackInv /\ InsideSectors /\ NoSpareSector
  BY DEF Init, StackInv, InsideSectors, NoSpareSector, Placed, Index
<1> QED
  BY <1>1, <1>2, <1>3 DEF LayoutInv

\* One partition more.  Its sectors end where the previous one begins.
LEMMA CarveInv ==
    ASSUME LayoutInv, Carve
    PROVE  LayoutInv'
<1> DEFINE k == count + 1
           l == len[Order[k]]
           s == GetBlk(base[NSect] - used - l)
           size == IF s >= 0 THEN SizeOf(s, top) ELSE l
           new == [start |-> s, number |-> top - s, offset |-> size - l]
<1>1. /\ TypeOK /\ TotalInv /\ StackInv /\ InsideSectors /\ NoSpareSector
      /\ count \in 0..8 /\ k \in Index /\ top \in 0..NSect
      /\ used \in Nat /\ used = base[NSect] - base[top]
  BY OrderFacts, SectorAssumption DEF LayoutInv, Carve, TypeOK, TotalInv, SizeOf, Index
<1>2. /\ count' = k /\ top' = s /\ used' = used + size
      /\ part' = [part EXCEPT ![k] = new]
      /\ base' = base /\ len' = len
  BY DEF Carve
<1>3. /\ NSect \in Nat /\ NSect >= 1
      /\ l \in Nat /\ l >= 1
      /\ base[top] \in Nat /\ base[NSect] \in Nat /\ base[top] <= base[NSect]
  BY <1>1, BaseFacts
<1>4. s = -1 \/ /\ s \in 0..(NSect - 1) /\ s < top
                /\ base[s] \in Nat /\ base[s + 1] \in Nat
                /\ base[s] <= base[top] - l /\ base[top] - l < base[s + 1]
  <2> DEFINE a == base[top] - l
  <2>1. a \in Int /\ a < base[NSect] /\ s = GetBlk(a)
    BY <1>1, <1>3
  <2>2. CASE a < 0
    BY <2>1, <2>2, <1>1, GetBlkFacts
  <2>3. CASE a >= 0
    <3>1. s \in 0..(NSect - 1) /\ base[s] <= a /\ a < base[s + 1]
      BY <2>1, <2>3, <1>1, GetBlkFacts
    <3>2. base[s] \in Nat /\ base[s + 1] \in Nat /\ base[s] < base[top]
      BY <3>1, <1>1, <1>3, BaseFacts
    <3>3. s < top
      BY <3>1, <3>2, <1>1, BaseFacts
    <3> QED
      BY <3>1, <3>2, <3>3
  <2> QED
    BY <2>1, <2>2, <2>3
<1> HIDE DEF l, s
<1>5. /\ size \in Nat /\ size - l \in Nat
      /\ s >= 0 => size = base[top] - base[s]
  BY <1>3, <1>4, <1>1 DEF SizeOf
<1>6. part'[k] = new /\ \A i \in Index : i # k => part'[i] = part[i]
  BY <1>1, <1>2 DEF TypeOK
<1>7. \A i \in Index : i <= count => i # k
  BY <1>1 DEF Index
<1>8. /\ \A i \in Index : Placed(i)' <=> (Placed(i) \/ (i = k /\ s >= 0))
      /\ \A i \in Index : Placed(i) => i # k
  <2>1. \A i \in Index : i <= k <=> i <= count \/ i = k
    BY <1>1 DEF Index
  <2> QED
    BY <1>2, <1>6, <1>7, <2>1 DEF Placed, new
<1> HIDE DEF k, size
<1>9. TypeOK'
  <2>1. new \in [start : -1..NSect, number : 0..(NSect + 1), offset : Nat]
    BY <1>1, <1>3, <1>4, <1>5 DEF new
  <2>2. part' \in [Index -> [start : -1..NSect, number : 0..(NSect + 1), offset : Nat]]
    BY <2>1, <1>1, <1>2 DEF TypeOK
  <2>3. \A i \in Index : Placed(i)' => part'[i].number >= 1
    BY <1>1, <1>4, <1>6, <1>8 DEF TypeOK, new
  <2>4. count' \in 0..9 /\ top' \in -1..NSect /\ used' \in Nat
    BY <1>1, <1>2, <1>3, <1>4, <1>5 DEF k
  <2> QED
    BY <2>2, <2>3, <2>4, <1>1, <1>2 DEF TypeOK
<1>10. TotalInv'
  BY <1>1, <1>2, <1>3, <1>4, <1>5 DEF TotalInv, SizeOf
<1>11. StackInv'
  <2>1. \A i \in Index : i <= count' => top' <= part'[i].start
    <3> SUFFICES ASSUME NEW i \in Index, i <= k PROVE s <= part'[i].start
      BY <1>2
    <3>1. CASE i = k
      BY <3>1, <1>4, <1>6 DEF new
    <3>2. CASE i # k
      <4>1. i <= count /\ top <= part[i].start /\ part[i].start \in Int
        BY <3>2, <1>1 DEF StackInv, TypeOK, Index, k
      <4> QED
        BY <4>1, <3>2, <1>1, <1>4, <1>6
    <3> QED
      BY <3>1, <3>2
  <2>2. \A i \in Index : Placed(i)' =>
            part'[i].number >= 1 /\ part'[i].start + part'[i].number <= NSect
    BY <1>1, <1>3, <1>4, <1>6, <1>8 DEF StackInv, new
  <2>3. ASSUME NEW i \in Index, NEW j \in Index, Placed(i)', Placed(j)', i < j
        PROVE  part'[j].start + part'[j].number <= part'[i].start
    <3>1. CASE j = k
      <4>1. i # k /\ Placed(i) /\ part'[i] = part[i] /\ top <= part[i].start
        BY <2>3, <3>1, <1>1, <1>6, <1>8 DEF StackInv, Index, Placed
      <4>2. part'[j].start = s /\ part'[j].number = top - s
        BY <3>1, <1>6 DEF new
      <4> QED
        BY <4>1, <4>2, <1>1, <1>4
    <3>2. CASE j # k
      <4>1. Placed(j) /\ part'[j] = part[j]
        BY <2>3, <3>2, <1>6, <1>8
      <4>2. i # k
        BY <4>1, <2>3, <1>1 DEF Placed, k, Index
      <4>3. Placed(i) /\ part'[i] = part[i]
        BY <4>2, <2>3, <1>6, <1>8
      <4> QED
        BY <4>1, <4>3, <2>3, <1>1 DEF StackInv
    <3> QED
      BY <3>1, <3>2
  <2> QED
    BY <2>1, <2>2, <2>3, <1>2 DEF StackInv
<1>12. InsideSectors' /\ NoSpareSector'
  <2> SUFFICES ASSUME NEW i \in Index, Placed(i)'
               PROVE  /\ part'[i].offset >= 0
                      /\ part'[i].offset + len[Order[i]]
                            = base[part'[i].start + part'[i].number] - base[part'[i].start]
                      /\ part'[i].offset < base[part'[i].start + 1] - base[part'[i].start]
    BY <1>2 DEF InsideSectors, NoSpareSector, SizeOf
  <2>1. CASE i # k
    BY <2>1, <1>1, <1>6, <1>8 DEF InsideSectors, NoSpareSector, SizeOf
  <2>2. CASE i = k
    <3>1. /\ s >= 0
          /\ part'[i].start = s /\ part'[i].number = top - s /\ part'[i].offset = size - l
          /\ len[Order[i]] = l
      BY <2>2, <1>6, <1>8 DEF new, l
    <3>2. s + (top - s) = top
      BY <1>1, <1>4
    <3> QED
      BY <3>1, <3>2, <1>1, <1>3, <1>4, <1>5
  <2> QED
    BY <2>1, <2>2
<1> QED
  BY <1>9, <1>10, <1>11, <1>12 DEF LayoutInv

\* Placing a partition below the ones before it keeps the invariant.
LEMMA StepInv == LayoutInv /\ [Next]_vars => LayoutInv'
<1> SUFFICES ASSUME LayoutInv, [Next]_vars PROVE LayoutInv'
  OBVIOUS
<1>1. CASE Carve
  BY <1>1, CarveInv
<1>2. CASE UNCHANGED vars
  BY <1>2 DEF vars, LayoutInv, TypeOK, TotalInv, StackInv, InsideSectors, NoSpareSector,
              Placed, SizeOf
<1> QED
  BY <1>1, <1>2 DEF Next, Finished

\* The invariant holds throughout kerSysFlashInit.
LEMMA LayoutAlways == Spec => []LayoutInv
BY InitInv, StepInv, PTL DEF Spec

-----------------------------------------------------------------------------
\* Type correctness of kerSysFlashInit's bookkeeping, for every chip.
THEOREM TypeCorrect == Spec => []TypeOK
BY LayoutAlways, PTL DEF LayoutInv

\* No two partitions that kerSysFlashInit places share a sector, whatever the
\* sector sizes and the partition lengths: the read-modify-write of one
\* partition cannot touch another.
THEOREM SectorsDisjoint == Spec => []OwnSectors
<1>1. LayoutInv => OwnSectors
  <2> SUFFICES ASSUME LayoutInv, NEW i \in Index, NEW j \in Index,
                      Placed(i), Placed(j), i # j,
                      NEW x \in Sectors(i), x \in Sectors(j)
               PROVE  FALSE
    BY DEF OwnSectors
  <2>1. /\ part[i].start \in Int /\ part[i].number \in Int
        /\ part[j].start \in Int /\ part[j].number \in Int
        /\ i \in Int /\ j \in Int
    BY DEF LayoutInv, TypeOK, Index
  <2>2. i < j \/ j < i
    BY <2>1
  <2> QED
    BY <2>1, <2>2 DEF LayoutInv, StackInv, Sectors
<1> QED
  BY <1>1, LayoutAlways, PTL

\* A partition lies inside the buffer getSharedBlks makes of its sectors and ends
\* with it: setSharedBlks writes exactly what was read.
THEOREM BufferFits == Spec => []InsideSectors
BY LayoutAlways, PTL DEF LayoutInv

\* A partition begins in the first of its sectors.
THEOREM SectorsNeeded == Spec => []NoSpareSector
BY LayoutAlways, PTL DEF LayoutInv

-----------------------------------------------------------------------------
\* The n-th term x of a sum of the first k terms.
Upto(k, n, x) == IF n <= k THEN x ELSE 0

\* What the first k partitions need, each with the waste of a sector of size w.
NeedOf(k, w) ==
    Upto(k, 1, len["persistent"] + w - 1) + Upto(k, 2, len["psi_backup"] + w - 1)
    + Upto(k, 3, len["fix"] + w - 1) + Upto(k, 4, len["avail"] + w - 1)
    + Upto(k, 5, len["variable"] + w - 1) + Upto(k, 6, len["scratch_pad"] + w - 1)
    + Upto(k, 7, len["firewalllog"] + w - 1) + Upto(k, 8, len["systemlog"] + w - 1)
    + Upto(k, 9, len["wlanparam"] + w - 1)

\* The partitions placed so far took no more than that, and the boot sector is spared.
RoomInv ==
    \A w \in Nat \ {0} : Widest(w) =>
        /\ used <= NeedOf(count, w)
        /\ base[NSect] - base[1] >= Need(w) => \A i \in Index : i <= count => part[i].start >= 1

\* NeedOf adds up the partitions in the order of Order, and is Need in the end.
LEMMA NeedFacts ==
    ASSUME TypeOK, NEW w \in Nat \ {0}
    PROVE  /\ NeedOf(0, w) = 0
           /\ \A k \in 0..9 : NeedOf(k, w) \in Nat
           /\ \A k \in 0..8 : NeedOf(k + 1, w) = NeedOf(k, w) + len[Order[k + 1]] + w - 1
           /\ \A k \in 0..9 : NeedOf(k, w) <= Need(w)
<1>1. /\ len["persistent"] \in Nat /\ len["psi_backup"] \in Nat /\ len["fix"] \in Nat
      /\ len["avail"] \in Nat /\ len["variable"] \in Nat /\ len["scratch_pad"] \in Nat
      /\ len["firewalllog"] \in Nat /\ len["systemlog"] \in Nat /\ len["wlanparam"] \in Nat
  <2>1. \A i \in Index : len[Order[i]] \in Nat
    BY BaseFacts
  <2> QED
    BY <2>1 DEF Index, Order
<1>2. NeedOf(0, w) = 0
  BY <1>1 DEF NeedOf, Upto
<1>3. \A k \in 0..9 : NeedOf(k, w) \in Nat /\ NeedOf(k, w) <= Need(w)
  BY <1>1 DEF NeedOf, Upto, Need
<1>4. ASSUME NEW k \in 0..8
      PROVE  NeedOf(k + 1, w) = NeedOf(k, w) + len[Order[k + 1]] + w - 1
  <2>1. CASE k = 0
    BY <2>1, <1>1 DEF NeedOf, Upto, Order
  <2>2. CASE k = 1
    BY <2>2, <1>1 DEF NeedOf, Upto, Order
  <2>3. CASE k = 2
    BY <2>3, <1>1 DEF NeedOf, Upto, Order
  <2>4. CASE k = 3
    BY <2>4, <1>1 DEF NeedOf, Upto, Order
  <2>5. CASE k = 4
    BY <2>5, <1>1 DEF NeedOf, Upto, Order
  <2>6. CASE k = 5
    BY <2>6, <1>1 DEF NeedOf, Upto, Order
  <2>7. CASE k = 6
    BY <2>7, <1>1 DEF NeedOf, Upto, Order
  <2>8. CASE k = 7
    BY <2>8, <1>1 DEF NeedOf, Upto, Order
  <2>9. CASE k = 8
    BY <2>9, <1>1 DEF NeedOf, Upto, Order
  <2> QED
    BY <2>1, <2>2, <2>3, <2>4, <2>5, <2>6, <2>7, <2>8, <2>9
<1> QED
  BY <1>2, <1>3, <1>4

\* A partition takes its length and wastes less than one sector, the one it begins in;
\* as long as there is room it begins above the boot sector.
LEMMA CarveRoom ==
    ASSUME LayoutInv, RoomInv, Carve
    PROVE  RoomInv'
<1> DEFINE k == count + 1
           l == len[Order[k]]
           s == GetBlk(base[NSect] - used - l)
           size == IF s >= 0 THEN SizeOf(s, top) ELSE l
<1>1. /\ TypeOK /\ count \in 0..8 /\ k \in Index /\ top \in 0..NSect
      /\ used \in Nat /\ used = base[NSect] - base[top]
  BY OrderFacts, SectorAssumption DEF LayoutInv, Carve, TypeOK, TotalInv, SizeOf, Index
<1>2. /\ count' = k /\ used' = used + size /\ base' = base /\ len' = len
      /\ part'[k].start = s
      /\ \A i \in Index : i # k => part'[i] = part[i]
  BY <1>1 DEF Carve, TypeOK
<1>3. /\ NSect \in Nat /\ NSect >= 1
      /\ l \in Nat /\ l >= 1
      /\ base[top] \in Nat /\ base[NSect] \in Nat /\ base[1] \in Nat
      /\ base[top] <= base[NSect]
  BY <1>1, BaseFacts
<1>4. LET a == base[top] - l IN
      /\ a < 0 => s = -1
      /\ a >= 0 => /\ s \in 0..(NSect - 1) /\ base[s] \in Nat /\ base[s + 1] \in Nat
                   /\ base[s] <= a /\ a < base[s + 1]
  <2> DEFINE a == base[top] - l
  <2>1. a \in Int /\ a < base[NSect] /\ s = GetBlk(a)
    BY <1>1, <1>3
  <2>2. /\ a < 0 => s = -1
        /\ a >= 0 => s \in 0..(NSect - 1) /\ base[s] <= a /\ a < base[s + 1]
    BY <2>1, <1>1, GetBlkFacts
  <2>3. a >= 0 => base[s] \in Nat /\ base[s + 1] \in Nat
    BY <2>2, <1>1, <1>3, BaseFacts
  <2> QED
    BY <2>2, <2>3
<1> HIDE DEF l, s
<1> SUFFICES ASSUME NEW w \in Nat \ {0}, Widest(w)
             PROVE  /\ used + size <= NeedOf(k, w)
                    /\ base[NSect] - base[1] >= Need(w) =>
                           \A i \in Index : i <= k => part'[i].start >= 1
  BY <1>2 DEF RoomInv, Widest, Need, NeedOf, SizeOf
<1>5. /\ used <= NeedOf(count, w)
      /\ base[NSect] - base[1] >= Need(w) => \A i \in Index : i <= count => part[i].start >= 1
  BY DEF RoomInv
<1>6. /\ NeedOf(count, w) \in Nat /\ NeedOf(k, w) = NeedOf(count, w) + l + w - 1
      /\ NeedOf(k, w) <= Need(w) /\ Need(w) \in Int
  <2>1. Need(w) \in Int
    <3>1. \A i \in Index : len[Order[i]] \in Nat
      BY <1>1, BaseFacts
    <3> QED
      BY <3>1 DEF Need, Index, Order
  <2> QED
    BY <2>1, <1>1, NeedFacts DEF l, Index
<1>7. size <= l + w - 1
  <2>1. CASE base[top] - l < 0
    BY <2>1, <1>3, <1>4
  <2>2. CASE base[top] - l >= 0
    <3>1. s \in 0..(NSect - 1) /\ base[s + 1] - base[s] <= w
      BY <2>2, <1>3, <1>4 DEF Widest, SizeOf
    <3> QED
      BY <3>1, <2>2, <1>3, <1>4 DEF SizeOf
  <2> QED
    BY <2>1, <2>2, <1>3
<1>8. used + size <= NeedOf(k, w)
  <2>1. size \in Int
    BY <1>3, <1>4 DEF SizeOf
  <2> QED
    BY <2>1, <1>1, <1>3, <1>5, <1>6, <1>7
<1>9. ASSUME base[NSect] - base[1] >= Need(w)
      PROVE  s >= 1
  <2>1. base[top] - l >= base[1]
    BY <1>9, <1>1, <1>3, <1>5, <1>6
  <2>2. s # 0
    BY <2>1, <1>3, <1>4
  <2> QED
    BY <2>1, <2>2, <1>3, <1>4
<1>10. ASSUME base[NSect] - base[1] >= Need(w), NEW i \in Index, i <= k
       PROVE  part'[i].start >= 1
  <2>1. CASE i = k
    BY <2>1, <1>9, <1>10, <1>2
  <2>2. CASE i # k
    <3>1. i <= count
      BY <2>2, <1>10, <1>1 DEF Index
    <3> QED
      BY <3>1, <2>2, <1>10, <1>2, <1>5
  <2> QED
    BY <2>1, <2>2
<1> QED
  BY <1>8, <1>10

\* When the flash above the boot sector has room for the partitions and the waste of
\* one largest sector each, kerSysFlashInit places none of them in the boot sector:
\* rewriting a partition cannot cost the boot loader.
THEOREM BootSectorSafe == Spec => []BootSectorSpared
<1>1. Init => RoomInv
  <2> SUFFICES ASSUME Init PROVE RoomInv
    OBVIOUS
  <2>1. TypeOK
    BY InitInv DEF LayoutInv
  <2>2. \A w \in Nat \ {0} : NeedOf(0, w) = 0
    BY <2>1, NeedFacts
  <2> QED
    BY <2>2 DEF Init, RoomInv, Index
<1>2. LayoutInv /\ RoomInv /\ [Next]_vars => RoomInv'
  <2>1. CASE Carve
    BY <2>1, CarveRoom
  <2>2. CASE UNCHANGED vars
    BY <2>2 DEF vars, RoomInv, Widest, SizeOf, Need, NeedOf
  <2> QED
    BY <2>1, <2>2 DEF Next, Finished
<1>3. LayoutInv /\ RoomInv => BootSectorSpared
  <2> SUFFICES ASSUME LayoutInv, RoomInv, NEW n \in 0..(NSect - 1)
               PROVE  SizeOf(n, n + 1) \in Nat \ {0}
    BY DEF RoomInv, BootSectorSpared
  <2>1. n \in 0..NSect /\ n + 1 \in 0..NSect /\ n < n + 1
    BY SectorAssumption
  <2> QED
    BY <2>1, BaseFacts DEF LayoutInv, SizeOf
<1> QED
  BY <1>1, <1>2, <1>3, LayoutAlways, PTL DEF Spec
=============================================================================
