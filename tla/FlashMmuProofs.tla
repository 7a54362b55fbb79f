-------------------------- MODULE FlashMmuProofs ---------------------------
(***************************************************************************)
(* Proofs about FlashMmu: for every page size, every size of the two        *)
(* regions, every layout and every content that MCUboot leaves in tables    *)
(* and caches, the cores read page-aligned segments from the right place.   *)
(***************************************************************************)
EXTENDS FlashMmu, TLAPS

\* Division by the page size: the quotient and remainder of an address ...
LEMMA DivMod ==
    ASSUME NEW P \in Nat \ {0}, NEW a \in Nat
    PROVE  /\ a \div P \in Nat
           /\ a % P \in 0..(P - 1)
           /\ a = P * (a \div P) + (a % P)
OBVIOUS

\* ... which are unique.
LEMMA DivUnique ==
    ASSUME NEW P \in Nat \ {0}, NEW q \in Nat, NEW r \in 0..(P - 1)
    PROVE  (P * q + r) \div P = q /\ (P * q + r) % P = r
OBVIOUS

\* Quotients are integers, ...
LEMMA DivInt ==
    ASSUME NEW P \in Nat \ {0}, NEW a \in Int
    PROVE  a \div P \in Int
OBVIOUS

\* ... products natural numbers, ...
LEMMA MulNat ==
    ASSUME NEW P \in Nat, NEW q \in Nat
    PROVE  P * q \in Nat
OBVIOUS

\* ... and a larger address is on no earlier page.
LEMMA DivMonotone ==
    ASSUME NEW P \in Nat \ {0}, NEW a \in Nat, NEW b \in Nat, a <= b
    PROVE  a \div P <= b \div P
OBVIOUS

\* What the linker promises of a segment.
IsSegment(seg) ==
    /\ seg.vma \in Nat /\ seg.lma \in Nat /\ seg.size \in Nat /\ seg.size > 0
    /\ Within(seg, Drom) \/ Within(seg, Irom)

\* The assumption on the layouts, for one of them.
LEMMA LayoutSegments ==
    ASSUME NEW l \in Layouts
    PROVE  IsSegment(l.drom) /\ IsSegment(l.irom)
BY MmuAssumption DEF IsSegment, Within

FirstPage(seg) == seg.vma \div PageSize
LastPage(seg)  == (seg.vma + seg.size - 1) \div PageSize
Count(seg)     == count_mmu_pages(seg.size, Aligned(seg.vma))

\* The page count, taken from the aligned address, is that of the size alone.
LEMMA CountIsOfSize ==
    ASSUME NEW seg, IsSegment(seg)
    PROVE  /\ Aligned(seg.vma) = PageSize * FirstPage(seg)
           /\ Aligned(seg.vma) \div PageSize = FirstPage(seg)
           /\ Aligned(seg.vma) % PageSize = 0
           /\ Count(seg) = (seg.size - 1) \div PageSize + 1
           /\ Count(seg) \in Nat /\ FirstPage(seg) \in Nat
<1> DEFINE q == FirstPage(seg)
           k == (seg.size - 1) \div PageSize
           r == (seg.size - 1) % PageSize
<1>1. PageSize \in Nat \ {0} /\ seg.vma \in Nat /\ seg.size - 1 \in Nat
      /\ seg.size \in Nat
  BY MmuAssumption DEF IsSegment
<1>2. q \in Nat /\ Aligned(seg.vma) = PageSize * q
  <2>1. /\ q \in Nat
        /\ seg.vma % PageSize \in 0..(PageSize - 1)
        /\ seg.vma = PageSize * q + (seg.vma % PageSize)
    BY <1>1, DivMod DEF FirstPage
  <2>2. PageSize * q \in Nat
    BY <1>1, <2>1, MulNat
  <2> HIDE DEF q
  <2> QED  BY <1>1, <2>1, <2>2 DEF Aligned
<1>3. (PageSize * q) \div PageSize = q /\ (PageSize * q) % PageSize = 0
  <2>1. 0 \in 0..(PageSize - 1) /\ PageSize * q + 0 = PageSize * q
    BY <1>1, <1>2
  <2> QED  BY <2>1, <1>1, <1>2, DivUnique
<1>4. k \in Nat /\ r \in 0..(PageSize - 1) /\ seg.size - 1 = PageSize * k + r
  BY <1>1, DivMod
<1>5. PageSize * q - ((PageSize * q) % PageSize) = PageSize * q
  <2>1. PageSize * q \in Nat
    BY <1>1, <1>2, MulNat
  <2> QED  BY <2>1, <1>3
<1>6. Aligned(PageSize * q) = PageSize * q
  BY <1>5 DEF Aligned
<1>7. Count(seg) = (seg.size + PageSize - 1) \div PageSize
  BY <1>1, <1>2, <1>6 DEF Count, count_mmu_pages
<1> HIDE DEF k, r
<1>8. seg.size + PageSize - 1 = PageSize * (k + 1) + r
  BY <1>1, <1>4
<1>9. (PageSize * (k + 1) + r) \div PageSize = k + 1
  <2>1. k + 1 \in Nat
    BY <1>4
  <2> QED  BY <2>1, <1>1, <1>4, DivUnique
<1> USE DEF k
<1> QED  BY <1>2, <1>3, <1>4, <1>7, <1>8, <1>9

\* So it never leaves the segment's pages, and covers them if the segment
\* starts a page.
LEMMA CountFits ==
    ASSUME NEW seg, IsSegment(seg)
    PROVE  /\ FirstPage(seg) + Count(seg) - 1 <= LastPage(seg)
           /\ seg.vma % PageSize = 0 =>
                  FirstPage(seg) + Count(seg) - 1 = LastPage(seg)
           /\ Count(seg) >= 1 /\ LastPage(seg) \in Nat
<1> DEFINE q == FirstPage(seg)
           o == seg.vma % PageSize
           k == (seg.size - 1) \div PageSize
           r == (seg.size - 1) % PageSize
<1>1. PageSize \in Nat \ {0} /\ seg.vma \in Nat /\ seg.size - 1 \in Nat
      /\ seg.size \in Nat
  BY MmuAssumption DEF IsSegment
<1>2. q \in Nat /\ o \in 0..(PageSize - 1) /\ seg.vma = PageSize * q + o
  BY <1>1, DivMod DEF FirstPage
<1>3. k \in Nat /\ r \in 0..(PageSize - 1) /\ seg.size - 1 = PageSize * k + r
  BY <1>1, DivMod
<1>4. Count(seg) = k + 1
  BY CountIsOfSize
<1> HIDE DEF q, o, k, r
<1>5. seg.vma + seg.size - 1 = PageSize * (q + k) + r + o
  BY <1>1, <1>2, <1>3
<1>6. PageSize * (q + k) + r \in Nat /\ PageSize * (q + k) + r + o \in Nat
      /\ PageSize * (q + k) + r <= PageSize * (q + k) + r + o
  <2>1. PageSize * (q + k) \in Nat
    BY <1>1, <1>2, <1>3, MulNat
  <2> QED  BY <2>1, <1>1, <1>2, <1>3
<1>7. (PageSize * (q + k) + r) \div PageSize = q + k
  <2>1. q + k \in Nat
    BY <1>2, <1>3
  <2> QED  BY <2>1, <1>1, <1>3, DivUnique
<1>8. q + k <= LastPage(seg)
  BY <1>1, <1>5, <1>6, <1>7, DivMonotone DEF LastPage
<1>9. o = 0 => LastPage(seg) = q + k
  <2>1. o = 0 => PageSize * (q + k) + r + o = PageSize * (q + k) + r
    BY <1>1, <1>2, <1>3
  <2> QED  BY <2>1, <1>5, <1>7 DEF LastPage
<1>10. LastPage(seg) \in Nat
  <2>1. seg.vma + seg.size - 1 \in Nat
    BY <1>1
  <2> QED  BY <2>1, <1>1, DivMod DEF LastPage
<1>11. FirstPage(seg) = q /\ seg.vma % PageSize = o
  BY DEF q, o
<1> QED  BY <1>2, <1>3, <1>4, <1>8, <1>9, <1>10, <1>11

-----------------------------------------------------------------------------
(* One call of cache_flash_mmu_set *)

PageAt(seg, e) == AbsLma(seg) \div PageSize + (e - FirstPage(seg))

\* A table with the pages of a segment where the image has them.
Placed(t, seg) == \A e \in PagesOf(seg) : t[e] = PageAt(seg, e)

\* What MapSegment does, whatever the alignment: other pages keep their entry.
LEMMA MapKeepsOthers ==
    ASSUME NEW seg, IsSegment(seg), NEW core \in Cores,
           table \in [Cores -> [Entries -> Int]], failed \in BOOLEAN,
           MapSegment(core, seg)
    PROVE  /\ table' \in [Cores -> [Entries -> Int]]
           /\ failed' \in BOOLEAN
           /\ \A c \in Cores : c # core => table'[c] = table[c]
           /\ \A e \in Entries \ PagesOf(seg) : table'[core][e] = table[core][e]
<1> DEFINE q == FirstPage(seg)
           n == Count(seg)
           p == Aligned(AbsLma(seg)) \div PageSize
           t == [e \in Entries |-> IF e \in q..(q + n - 1)
                                    THEN p + (e - q) ELSE table[core][e]]
<1>1. /\ q \in Nat /\ n \in Nat
      /\ q + n - 1 <= LastPage(seg) /\ LastPage(seg) \in Nat
  BY CountIsOfSize, CountFits
<1>2. PagesOf(seg) = q..LastPage(seg)
  BY DEF PagesOf, LastPage, FirstPage
<1>3. \/ table' = [table EXCEPT ![core] = t] /\ failed' = failed
      \/ table' = table /\ failed' = TRUE
  BY CountIsOfSize DEF MapSegment, cache_flash_mmu_set, Count
<1>4. p \in Int
  <2>1. PageSize \in Nat \ {0} /\ SlotPage \in Nat /\ seg.lma \in Nat
    BY MmuAssumption DEF IsSegment
  <2>2. AbsLma(seg) \in Nat
    BY <2>1, MulNat DEF AbsLma
  <2>3. AbsLma(seg) % PageSize \in Nat
    BY <2>1, <2>2, DivMod
  <2>4. Aligned(AbsLma(seg)) \in Int
    BY <2>2, <2>3 DEF Aligned
  <2> QED  BY <2>1, <2>4, DivInt
<1>5. t \in [Entries -> Int]
  <2>1. \A e \in Entries : table[core][e] \in Int
    OBVIOUS
  <2>2. \A e \in q..(q + n - 1) : p + (e - q) \in Int
    BY <1>1, <1>4
  <2> HIDE DEF q, n, p
  <2> QED  BY <2>1, <2>2
<1>6. \A e \in Entries \ PagesOf(seg) : t[e] = table[core][e]
  <2> HIDE DEF q, n, p
  <2> QED  BY <1>1, <1>2
<1> HIDE DEF t
<1> QED  BY <1>3, <1>5, <1>6

\* With both addresses aligned the ROM accepts the segment, and places it.
LEMMA MapAligned ==
    ASSUME NEW seg, IsSegment(seg), PageAligned(seg), NEW core \in Cores,
           table \in [Cores -> [Entries -> Int]],
           MapSegment(core, seg)
    PROVE  failed' = failed /\ Placed(table'[core], seg)
<1> DEFINE q == FirstPage(seg)
           n == Count(seg)
           m == SlotPage + seg.lma \div PageSize
           vaddr == Aligned(seg.vma)
           paddr == Aligned(AbsLma(seg))
<1>1. PageSize \in Nat \ {0} /\ SlotPage \in Nat /\ seg.vma \in Nat
      /\ seg.lma \in Nat
  BY MmuAssumption DEF IsSegment
<1>2. /\ q \in Nat /\ n \in Nat /\ n >= 1 /\ q + n - 1 = LastPage(seg)
      /\ vaddr % PageSize = 0 /\ vaddr \div PageSize = q
  BY CountIsOfSize, CountFits DEF PageAligned
<1>3. m \in Nat /\ AbsLma(seg) = PageSize * m + 0
  <2>1. /\ seg.lma \div PageSize \in Nat
        /\ seg.lma = PageSize * (seg.lma \div PageSize)
    <3>1. /\ seg.lma \div PageSize \in Nat
          /\ seg.lma = PageSize * (seg.lma \div PageSize) + (seg.lma % PageSize)
      BY <1>1, DivMod
    <3>2. PageSize * (seg.lma \div PageSize) \in Nat
      BY <3>1, <1>1, MulNat
    <3> QED  BY <3>1, <3>2 DEF PageAligned
  <2> QED  BY <2>1, <1>1 DEF AbsLma
<1>4. AbsLma(seg) \div PageSize = m /\ AbsLma(seg) % PageSize = 0
  <2>1. 0 \in 0..(PageSize - 1)
    BY <1>1
  <2> HIDE DEF m
  <2> QED  BY <2>1, <1>1, <1>3, DivUnique
<1>5. paddr = AbsLma(seg)
  <2>1. AbsLma(seg) \in Nat
    <3> HIDE DEF m
    <3> QED  BY <1>1, <1>3, MulNat
  <2> QED  BY <2>1, <1>4 DEF Aligned
<1>6. LastPage(seg) \in Region(q)
  <2>1. CASE Within(seg, Drom)
    BY <2>1 DEF Within, Region, LastPage, FirstPage
  <2>2. CASE Within(seg, Irom)
    <3>1. q \in Irom /\ LastPage(seg) \in Irom
      BY <2>2 DEF Within, LastPage, FirstPage
    <3>2. q \notin Drom
      BY <3>1, MmuAssumption DEF Drom, Irom
    <3> QED  BY <3>1, <3>2 DEF Region
  <2> QED  BY <2>1, <2>2 DEF IsSegment
<1>7. MmuAccepts(vaddr, paddr, n)
  <2> HIDE DEF q, n, vaddr, paddr
  <2> QED  BY <1>2, <1>4, <1>5, <1>6 DEF MmuAccepts
<1>8. /\ failed' = failed
      /\ table' = [table EXCEPT ![core] = [e \in Entries |->
                       IF e \in q..(q + n - 1) THEN m + (e - q)
                                               ELSE table[core][e]]]
  BY <1>2, <1>4, <1>5, <1>7 DEF MapSegment, cache_flash_mmu_set, Count
<1>9. PagesOf(seg) = q..(q + n - 1)
  BY <1>2 DEF PagesOf, LastPage, FirstPage
<1>10. PagesOf(seg) \subseteq Entries
  <2>1. \/ q \in Drom /\ LastPage(seg) \in Drom
        \/ q \in Irom /\ LastPage(seg) \in Irom
    BY DEF IsSegment, Within, LastPage, FirstPage
  <2> HIDE DEF q, n
  <2> QED  BY <2>1, <1>2, <1>9, MmuAssumption DEF Entries, Drom, Irom
<1>11. \A e \in PagesOf(seg) : table'[core][e] = m + (e - q)
  <2> HIDE DEF q, n, m
  <2> QED  BY <1>8, <1>9, <1>10
<1> QED  BY <1>4, <1>8, <1>11 DEF Placed, PageAt

\* The two segments share no page, and all their pages are in the table.
LEMMA PagesApart ==
    ASSUME NEW l \in Layouts
    PROVE  /\ PagesOf(l.drom) \cap PagesOf(l.irom) = {}
           /\ PagesOf(l.drom) \subseteq Entries
           /\ PagesOf(l.irom) \subseteq Entries
<1>1. Within(l.drom, Drom) /\ Within(l.irom, Irom)
  BY MmuAssumption
<1>2. PagesOf(l.drom) \subseteq Drom
  BY <1>1, MmuAssumption DEF Within, PagesOf, Drom
<1>3. PagesOf(l.irom) \subseteq Irom
  BY <1>1, MmuAssumption DEF Within, PagesOf, Irom
<1>4. Drom \cap Irom = {}
  BY MmuAssumption DEF Drom, Irom
<1> QED  BY <1>2, <1>3, <1>4 DEF Entries

-----------------------------------------------------------------------------
(* The inductive invariant *)

ProOn == {"pro_on", "app_flushed", "app_on"}
AppClean == {"app_flushed", "app_on"}
IromOfAppSet == ProOn \cup {"irom1", "unmasked"}
IromOfProSet == IromOfAppSet \cup {"irom0"}
DromOfAppSet == IromOfProSet \cup {"drom1"}
DromOfProSet == DromOfAppSet \cup {"drom0"}

\* While the tables change no cache is on, and from the flush on a cache holds
\* only what its table says now.
CachesClean ==
    /\ cacheOn[0] => pc \in ProOn \cup {"boot"}
    /\ cacheOn[1] => pc = "app_on"
    /\ pc \notin {"boot", "disabled"} =>
           \A e \in Entries : \/ lines[0][e] = Nothing
                              \/ pc \in ProOn /\ lines[0][e] = table[0][e]
    /\ pc \in AppClean =>
           \A e \in Entries : lines[1][e] \in {Nothing, table[1][e]}

Served == pc \in ProOn \cup {"unmasked"} =>
              \A c \in Cores : masked[c] \cap Buses = {}

Fresh ==
    pc \notin {"boot", "disabled", "flushed"} =>
        \A e \in Entries : table[0][e] # Invalid =>
            e \in PagesOf(layout.drom) \cup PagesOf(layout.irom)

BothAligned == PageAligned(layout.drom) /\ PageAligned(layout.irom)

\* Each segment is placed in each table, one call after the other.
PlacedInOrder ==
    BothAligned =>
        /\ ~failed
        /\ pc \in DromOfProSet => Placed(table[0], layout.drom)
        /\ pc \in DromOfAppSet => Placed(table[1], layout.drom)
        /\ pc \in IromOfProSet => Placed(table[0], layout.irom)
        /\ pc \in IromOfAppSet => Placed(table[1], layout.irom)

MmuInv == TypeOK /\ CachesClean /\ Served /\ Fresh /\ PlacedInOrder

PcSets == Pcs = {"boot", "disabled", "flushed", "invalid", "drom0", "drom1",
                 "irom0", "irom1", "unmasked", "pro_on", "app_flushed", "app_on"}

\* What the sets of steps in the invariant consist of.
LEMMA PcsListed == PcSets
<1>1. DOMAIN Steps = 1..12
  BY DEF Steps
<1>2. 1..12 = {1, 2, 3, 4, 5, 6, 7, 8, 9, 10, 11, 12}
  OBVIOUS
<1> QED  BY <1>1, <1>2 DEF PcSets, Pcs, Steps

\* What MCUboot leaves satisfies the invariant.
LEMMA MmuInit == Init => MmuInv
<1> SUFFICES ASSUME Init PROVE MmuInv
  OBVIOUS
<1>1. TypeOK
  <2>1. table \in [Cores -> [Entries -> Int]]
    BY MmuAssumption DEF Init
  <2>2. lines \in [Cores -> [Entries -> Int]]
    BY MmuAssumption DEF Init, BootLines, LinesOf, Nothing
  <2>3. pc \in Pcs /\ layout \in Layouts /\ failed \in BOOLEAN
    BY PcsListed DEF Init, PcSets
  <2>4. cacheOn \in [Cores -> BOOLEAN] /\ masked \in [Cores -> SUBSET Buses]
    BY DEF Init
  <2> QED  BY <2>1, <2>2, <2>3, <2>4 DEF TypeOK
<1>2. CachesClean
  <2>1. ~cacheOn[1]
    <3>1. CASE cacheOn = [c \in Cores |-> FALSE]
      BY <3>1, Zenon DEF Cores
    <3>2. CASE cacheOn = [c \in Cores |-> c = 0]
      <4>1. cacheOn[1] <=> 1 = 0
        BY <3>2, Zenon DEF Cores
      <4> QED  BY <4>1
    <3> QED  BY <3>1, <3>2 DEF Init
  <2>2. pc = "boot"
    BY DEF Init
  <2> QED  BY <2>1, <2>2 DEF CachesClean, ProOn, AppClean
<1>3. Served /\ Fresh /\ PlacedInOrder
  BY DEF Init, Served, Fresh, PlacedInOrder, ProOn, DromOfProSet, DromOfAppSet,
         IromOfProSet, IromOfAppSet
<1> QED  BY <1>1, <1>2, <1>3 DEF MmuInv

-----------------------------------------------------------------------------
(* The invariant is inductive, one lemma per kind of step *)

\* The four calls that place a segment differ in the core, the segment and the
\* points before and after them.
PlaceStep(from, to, core, seg) ==
    /\ Goto(from, to)
    /\ MapSegment(core, seg)
    /\ UNCHANGED <<layout, lines, cacheOn, masked>>

\* One of the four mappings keeps the invariant, and places its segment.
LEMMA PlaceNext ==
    ASSUME MmuInv, NEW core \in Cores, NEW seg \in {layout.drom, layout.irom},
           NEW from \in {"invalid", "drom0", "drom1", "irom0"},
           NEW to \in {"drom0", "drom1", "irom0", "irom1"},
           PlaceStep(from, to, core, seg)
    PROVE  /\ TypeOK' /\ CachesClean' /\ Served' /\ Fresh'
           /\ BothAligned' <=> BothAligned
           /\ BothAligned => ~failed' /\ Placed(table'[core], seg)
           /\ \A c \in Cores : c # core => table'[c] = table[c]
           /\ \A e \in Entries \ PagesOf(seg) :
                  table'[core][e] = table[core][e]
<1>1. IsSegment(seg) /\ layout \in Layouts
  BY LayoutSegments DEF MmuInv, TypeOK
<1>2. /\ table' \in [Cores -> [Entries -> Int]]
      /\ failed' \in BOOLEAN
      /\ \A c \in Cores : c # core => table'[c] = table[c]
      /\ \A e \in Entries \ PagesOf(seg) : table'[core][e] = table[core][e]
  BY <1>1, MapKeepsOthers DEF PlaceStep, MmuInv, TypeOK
<1>3. TypeOK'
  BY <1>2, PcsListed DEF PlaceStep, Goto, MmuInv, TypeOK, PcSets
<1>4. CachesClean'
  BY DEF PlaceStep, Goto, MmuInv, CachesClean, ProOn, AppClean
<1>5. Served'
  BY DEF PlaceStep, Goto, Served, ProOn
<1>6. Fresh'
  <2>1. \A e \in Entries : table[0][e] # Invalid =>
            e \in PagesOf(layout.drom) \cup PagesOf(layout.irom)
    BY DEF PlaceStep, Goto, MmuInv, Fresh
  <2>2. layout' = layout
    BY DEF PlaceStep
  <2>3. ASSUME NEW e \in Entries, table'[0][e] # Invalid
        PROVE  e \in PagesOf(layout.drom) \cup PagesOf(layout.irom)
    <3>1. CASE core = 0 /\ e \in PagesOf(seg)
      BY <3>1
    <3>2. CASE core # 0 \/ e \notin PagesOf(seg)
      <4>1. 0 \in Cores
        BY DEF Cores
      <4>2. table'[0][e] = table[0][e]
        BY <3>2, <1>2, <4>1
      <4> QED  BY <2>1, <2>3, <4>2
    <3> QED  BY <3>1, <3>2
  <2> QED  BY <2>2, <2>3 DEF Fresh
<1>7. BothAligned' <=> BothAligned
  BY DEF PlaceStep, BothAligned
<1>8. BothAligned => ~failed' /\ Placed(table'[core], seg)
  <2> SUFFICES ASSUME BothAligned
               PROVE  ~failed' /\ Placed(table'[core], seg)
    OBVIOUS
  <2>1. PageAligned(seg) /\ ~failed
    BY DEF BothAligned, MmuInv, PlacedInOrder
  <2> QED  BY <1>1, <2>1, MapAligned DEF PlaceStep, MmuInv, TypeOK
<1> QED  BY <1>2, <1>3, <1>4, <1>5, <1>6, <1>7, <1>8

\* A segment that was placed stays so when the other one is.
LEMMA StaysPlaced ==
    ASSUME NEW t, NEW u, NEW seg, NEW other,
           PagesOf(seg) \subseteq Entries,
           PagesOf(seg) \cap PagesOf(other) = {},
           \A e \in Entries \ PagesOf(other) : u[e] = t[e],
           Placed(t, seg)
    PROVE  Placed(u, seg)
BY DEF Placed

\* Every step keeps the invariant.
LEMMA MmuNext == MmuInv /\ [Next]_vars => MmuInv'
<1> SUFFICES ASSUME MmuInv, [Next]_vars PROVE MmuInv'
  OBVIOUS
<1> USE DEF Goto
<1>0. /\ 0 \in Cores /\ 1 \in Cores
      /\ PagesOf(layout.drom) \cap PagesOf(layout.irom) = {}
      /\ PagesOf(layout.drom) \subseteq Entries
      /\ PagesOf(layout.irom) \subseteq Entries
  BY PagesApart DEF Cores, MmuInv, TypeOK
<1>1. CASE DisableProCache \/ UnmaskBuses \/ EnableProCache \/ EnableAppCache
  <2>1. TypeOK'
    <3>1. cacheOn' \in [Cores -> BOOLEAN]
      BY <1>1 DEF MmuInv, TypeOK, DisableProCache, UnmaskBuses, EnableProCache,
                  EnableAppCache
    <3>2. masked' \in [Cores -> SUBSET Buses]
      BY <1>1 DEF MmuInv, TypeOK, DisableProCache, UnmaskBuses, EnableProCache,
                  EnableAppCache
    <3>3. pc' \in Pcs /\ UNCHANGED <<layout, table, lines, failed>>
      BY <1>1, PcsListed DEF PcSets, DisableProCache, UnmaskBuses,
                             EnableProCache, EnableAppCache
    <3> QED  BY <3>1, <3>2, <3>3 DEF MmuInv, TypeOK
  <2>2. CachesClean'
    BY <1>1, <1>0 DEF MmuInv, TypeOK, CachesClean, ProOn, AppClean, Cores,
           DisableProCache, UnmaskBuses, EnableProCache, EnableAppCache
  <2>3. Served'
    BY <1>1 DEF MmuInv, TypeOK, Served, ProOn, DisableProCache, UnmaskBuses,
                EnableProCache, EnableAppCache
  <2>4. Fresh'
    BY <1>1 DEF MmuInv, Fresh, DisableProCache, UnmaskBuses, EnableProCache,
                EnableAppCache
  <2>5. PlacedInOrder'
    BY <1>1 DEF MmuInv, PlacedInOrder, BothAligned, Placed, PageAt, ProOn,
           IromOfAppSet, IromOfProSet, DromOfAppSet, DromOfProSet,
           DisableProCache, UnmaskBuses, EnableProCache, EnableAppCache
  <2> QED  BY <2>1, <2>2, <2>3, <2>4, <2>5 DEF MmuInv
<1>2. CASE FlushProCache \/ FlushAppCache \/ InvalidateProTable
  <2>1. TypeOK'
    <3>1. table' \in [Cores -> [Entries -> Int]]
          /\ lines' \in [Cores -> [Entries -> Int]]
      BY <1>2 DEF MmuInv, TypeOK, FlushProCache, FlushAppCache, Flush,
                  InvalidateProTable, Invalid, Nothing
    <3>2. pc' \in Pcs /\ UNCHANGED <<layout, cacheOn, masked, failed>>
      BY <1>2, PcsListed DEF PcSets, FlushProCache, FlushAppCache,
                             InvalidateProTable
    <3> QED  BY <3>1, <3>2 DEF MmuInv, TypeOK
  <2>2. CachesClean'
    BY <1>2, <1>0 DEF MmuInv, TypeOK, CachesClean, ProOn, AppClean, Flush,
           FlushProCache, FlushAppCache, InvalidateProTable
  <2>3. Served'
    BY <1>2 DEF MmuInv, Served, ProOn, FlushProCache, FlushAppCache,
                InvalidateProTable
  <2>4. Fresh'
    BY <1>2, <1>0 DEF MmuInv, TypeOK, Fresh, FlushProCache, FlushAppCache,
                      InvalidateProTable
  <2>5. PlacedInOrder'
    BY <1>2 DEF MmuInv, PlacedInOrder, BothAligned, Placed, PageAt, ProOn,
           IromOfAppSet, IromOfProSet, DromOfAppSet, DromOfProSet,
           FlushProCache, FlushAppCache, InvalidateProTable
  <2> QED  BY <2>1, <2>2, <2>3, <2>4, <2>5 DEF MmuInv
<1>3. CASE MapDromOfPro
  <2>1. PlaceStep("invalid", "drom0", 0, layout.drom)
    BY <1>3 DEF MapDromOfPro, PlaceStep
  <2>2. PlacedInOrder'
    BY <1>0, <2>1, PlaceNext DEF PlacedInOrder, PlaceStep, ProOn,
       IromOfAppSet, IromOfProSet, DromOfAppSet, DromOfProSet, Placed, PageAt
  <2> QED  BY <1>0, <2>1, <2>2, PlaceNext DEF MmuInv
<1>4. CASE MapDromOfApp
  <2>1. PlaceStep("drom0", "drom1", 1, layout.drom)
    BY <1>4 DEF MapDromOfApp, PlaceStep
  <2>2. PlacedInOrder'
    BY <1>0, <2>1, PlaceNext DEF MmuInv, PlacedInOrder, PlaceStep, ProOn,
       IromOfAppSet, IromOfProSet, DromOfAppSet, DromOfProSet, Placed, PageAt
  <2> QED  BY <1>0, <2>1, <2>2, PlaceNext DEF MmuInv
<1>5. CASE MapIromOfPro
  <2>1. PlaceStep("drom1", "irom0", 0, layout.irom)
    BY <1>5 DEF MapIromOfPro, PlaceStep
  <2>2. BothAligned => Placed(table'[0], layout.drom)
    BY <1>0, <2>1, PlaceNext, StaysPlaced DEF MmuInv, PlacedInOrder, PlaceStep,
       DromOfProSet, DromOfAppSet
  <2>3. PlacedInOrder'
    BY <1>0, <2>1, <2>2, PlaceNext DEF MmuInv, PlacedInOrder, PlaceStep, ProOn,
       IromOfAppSet, IromOfProSet, DromOfAppSet, DromOfProSet, Placed, PageAt
  <2> QED  BY <1>0, <2>1, <2>3, PlaceNext DEF MmuInv
<1>6. CASE MapIromOfApp
  <2>1. PlaceStep("irom0", "irom1", 1, layout.irom)
    BY <1>6 DEF MapIromOfApp, PlaceStep
  <2>2. BothAligned => Placed(table'[1], layout.drom)
    BY <1>0, <2>1, PlaceNext, StaysPlaced DEF MmuInv, PlacedInOrder, PlaceStep,
       DromOfProSet, DromOfAppSet, IromOfProSet
  <2>3. PlacedInOrder'
    BY <1>0, <2>1, <2>2, PlaceNext DEF MmuInv, PlacedInOrder, PlaceStep, ProOn,
       IromOfAppSet, IromOfProSet, DromOfAppSet, DromOfProSet, Placed, PageAt
  <2> QED  BY <1>0, <2>1, <2>3, PlaceNext DEF MmuInv
<1>7. ASSUME NEW core \in Cores, NEW entry \in Entries, Read(core, entry)
      PROVE  MmuInv'
  <2>1. UNCHANGED <<pc, layout, table, cacheOn, masked, failed>>
    BY <1>7 DEF Read
  <2>2. lines' \in [Cores -> [Entries -> Int]]
    BY <1>7 DEF Read, MmuInv, TypeOK
  <2>3. CachesClean'
    <3>1. cacheOn[core]
      BY <1>7 DEF Read
    <3>2. \A e \in Entries :
             lines'[core][e] \in {lines[core][e], table[core][e]}
      BY <1>7 DEF Read, MmuInv, TypeOK
    <3>3. \A c \in Cores : c # core => lines'[c] = lines[c]
      BY <1>7 DEF Read, MmuInv, TypeOK
    <3> QED  BY <1>0, <2>1, <3>1, <3>2, <3>3 DEF MmuInv, CachesClean, Cores,
                ProOn, AppClean
  <2>4. Served' /\ Fresh'
    BY <2>1 DEF MmuInv, Served, Fresh
  <2>5. PlacedInOrder'
    BY <2>1 DEF MmuInv, PlacedInOrder, BothAligned, Placed, PageAt
  <2>6. TypeOK'
    BY <2>1, <2>2 DEF MmuInv, TypeOK
  <2> QED  BY <2>3, <2>4, <2>5, <2>6 DEF MmuInv
<1>8. CASE UNCHANGED vars
  BY <1>8 DEF vars, MmuInv, TypeOK, CachesClean, Served, Fresh, PlacedInOrder,
              BothAligned, Placed, PageAt
<1> QED
  BY <1>1, <1>2, <1>3, <1>4, <1>5, <1>6, <1>7, <1>8
  DEF Next, MapRomSegments, StartOtherCore

\* The invariant holds, for all layouts and page sizes.
LEMMA MmuInvariant == Spec => []MmuInv
BY MmuInit, MmuNext, PTL DEF Spec

-----------------------------------------------------------------------------
(* What follows from it *)

\* A core whose table places an aligned segment, and whose cache holds nothing
\* else, reads each byte from where the image has it.
LEMMA PlacedReadsRight ==
    ASSUME MmuInv, NEW core \in Cores, NEW seg, NEW bus \in Buses,
           IsSegment(seg), PageAligned(seg), Placed(table[core], seg),
           PagesOf(seg) \subseteq Entries,
           \A e \in Entries : lines[core][e] \in {Nothing, table[core][e]},
           masked[core] \cap Buses = {}
    PROVE  ReadsRight(core, seg, bus)
<1> DEFINE q == FirstPage(seg)
           m == AbsLma(seg) \div PageSize
<1>1. PageSize \in Nat \ {0} /\ SlotPage \in Nat /\ seg.vma \in Nat
      /\ seg.lma \in Nat /\ seg.size \in Nat
  BY MmuAssumption DEF IsSegment
<1>2. q \in Nat /\ seg.vma = PageSize * q
  <2>1. q \in Nat /\ seg.vma = PageSize * q + (seg.vma % PageSize)
    BY <1>1, DivMod DEF FirstPage
  <2>2. PageSize * q \in Nat
    BY <1>1, <2>1, MulNat
  <2> HIDE DEF q
  <2> QED  BY <2>1, <2>2 DEF PageAligned
<1>3. m \in Nat /\ AbsLma(seg) = PageSize * m
  <2> DEFINE k == seg.lma \div PageSize
  <2>1. k \in Nat /\ seg.lma = PageSize * k
    <3>1. k \in Nat /\ seg.lma = PageSize * k + (seg.lma % PageSize)
      BY <1>1, DivMod
    <3>2. PageSize * k \in Nat
      BY <1>1, <3>1, MulNat
    <3> HIDE DEF k
    <3> QED  BY <3>1, <3>2 DEF PageAligned
  <2> HIDE DEF k
  <2>2. AbsLma(seg) = PageSize * (SlotPage + k) + 0
    BY <1>1, <2>1 DEF AbsLma
  <2>3. SlotPage + k \in Nat /\ 0 \in 0..(PageSize - 1)
    BY <1>1, <2>1
  <2>4. (PageSize * (SlotPage + k) + 0) \div PageSize = SlotPage + k
    BY <1>1, <2>3, DivUnique
  <2>5. m = SlotPage + k
    BY <2>2, <2>4
  <2>6. PageSize * (SlotPage + k) \in Nat
    BY <1>1, <2>3, MulNat
  <2> HIDE DEF m
  <2> QED  BY <2>2, <2>3, <2>5, <2>6
<1>4. ASSUME NEW i \in 0..(seg.size - 1)
      PROVE  /\ table[core][(seg.vma + i) \div PageSize] # Invalid
             /\ ReadsFrom(core, seg.vma + i) = AbsLma(seg) + i
  <2> DEFINE a == i \div PageSize
             b == i % PageSize
  <2>1. i \in Nat /\ a \in Nat /\ b \in 0..(PageSize - 1)
        /\ i = PageSize * a + b
    BY <1>1, DivMod
  <2> HIDE DEF a, b, q, m
  <2>2. seg.vma + i = PageSize * (q + a) + b /\ q + a \in Nat
    BY <1>1, <1>2, <2>1
  <2>3. (seg.vma + i) \div PageSize = q + a /\ (seg.vma + i) % PageSize = b
    <3>1. /\ (PageSize * (q + a) + b) \div PageSize = q + a
          /\ (PageSize * (q + a) + b) % PageSize = b
      BY <1>1, <2>1, <2>2, DivUnique
    <3> QED  BY <3>1, <2>2
  <2>4. q + a \in PagesOf(seg)
    <3>1. seg.vma \div PageSize = q
      BY DEF q, FirstPage
    <3>2. q + a <= (seg.vma + seg.size - 1) \div PageSize
      <4>1. seg.vma + i \in Nat /\ seg.vma + seg.size - 1 \in Nat
            /\ seg.vma + i <= seg.vma + seg.size - 1
        BY <1>1
      <4> QED  BY <4>1, <1>1, <2>3, DivMonotone
    <3>3. (seg.vma + seg.size - 1) \div PageSize \in Int
      BY <1>1, DivInt
    <3> QED  BY <3>1, <3>2, <3>3, <1>2, <2>1 DEF PagesOf
  <2>5. table[core][q + a] = m + a
    <3>1. table[core][q + a] = m + (q + a - q)
      <4>1. FirstPage(seg) = q /\ AbsLma(seg) \div PageSize = m
        BY DEF q, m
      <4>2. \A e \in PagesOf(seg) : table[core][e] =
                AbsLma(seg) \div PageSize + (e - FirstPage(seg))
        BY DEF Placed, PageAt
      <4>3. \A e \in PagesOf(seg) : table[core][e] = m + (e - q)
        BY <4>1, <4>2
      <4> QED  BY <2>4, <4>3, <1>2, <1>3, <2>1
    <3> QED  BY <3>1, <1>2, <2>1
  <2>6. ReadsFrom(core, seg.vma + i) = (m + a) * PageSize + b
    BY <2>3, <2>4, <2>5 DEF ReadsFrom
  <2>7. (m + a) * PageSize + b = AbsLma(seg) + i
    BY <1>1, <1>3, <2>1
  <2>8. m + a # Invalid
    BY <1>3, <2>1 DEF Invalid
  <2> QED  BY <2>3, <2>5, <2>6, <2>7, <2>8
<1> QED  BY <1>4 DEF ReadsRight

\* Once the cache of a core is enabled, the core reads page-aligned code and
\* data from the primary slot, byte for byte (map_rom_segments, start.c:226).
THEOREM ReadsRightSafe == Spec => []SegmentsReadRight
<1>1. MmuInv => SegmentsReadRight
  <2> SUFFICES ASSUME MmuInv, BothAligned, NEW core \in Cores, Mapped(core)
               PROVE  BothReadRight(core)
    BY DEF SegmentsReadRight, BothAligned
  <2>1. /\ layout \in Layouts
        /\ IsSegment(layout.drom) /\ IsSegment(layout.irom)
        /\ PagesOf(layout.drom) \subseteq Entries
        /\ PagesOf(layout.irom) \subseteq Entries
    BY LayoutSegments, PagesApart DEF MmuInv, TypeOK
  <2>2. \/ core = 0 /\ pc \in ProOn
        \/ core = 1 /\ pc = "app_on"
    BY DEF Mapped, Cores, ProOn
  <2>3. Placed(table[core], layout.drom) /\ Placed(table[core], layout.irom)
    BY <2>2 DEF MmuInv, PlacedInOrder, ProOn, IromOfAppSet, IromOfProSet,
                DromOfAppSet, DromOfProSet
  <2>4. \A e \in Entries : lines[core][e] \in {Nothing, table[core][e]}
    BY <2>2 DEF MmuInv, CachesClean, ProOn, AppClean
  <2>5. masked[core] \cap Buses = {}
    BY <2>2 DEF MmuInv, Served, ProOn
  <2>6. "DROM0" \in Buses /\ "IRAM0" \in Buses
    BY DEF Buses
  <2> QED  BY <2>1, <2>3, <2>4, <2>5, <2>6, PlacedReadsRight
           DEF BothReadRight, BothAligned
<1> QED  BY <1>1, MmuInvariant, PTL

\* The result that __start ignores is ESP_OK (start.c:513).
THEOREM ResultSafe == Spec => []ResultMayBeIgnored
<1>1. MmuInv => ResultMayBeIgnored
  BY DEF MmuInv, PlacedInOrder, BothAligned, ResultMayBeIgnored
<1> QED  BY <1>1, MmuInvariant, PTL

\* No entry of MCUboot's is left in the PRO CPU's table (start.c:272).
THEOREM ProTableSafe == Spec => []ProTableFresh
<1>1. MmuInv => ProTableFresh
  BY DEF MmuInv, Fresh, ProTableFresh, Mapped
<1> QED  BY <1>1, MmuInvariant, PTL

\* No table changes under an enabled cache (start.c:269).
THEOREM UncachedSafe == Spec => TableChangesUncached
<1>1. MmuInv /\ [Next]_vars =>
          [\A core \in Cores : table'[core] # table[core] => ~cacheOn[core]]_vars
  <2> SUFFICES ASSUME MmuInv, Next, NEW core \in Cores,
                      table'[core] # table[core]
               PROVE  ~cacheOn[core]
    OBVIOUS
  <2>1. pc \in {"flushed", "invalid", "drom0", "drom1", "irom0"}
    BY DEF Next, MapRomSegments, StartOtherCore, DisableProCache, UnmaskBuses,
           EnableProCache, EnableAppCache, FlushProCache, FlushAppCache,
           InvalidateProTable, MapDromOfPro, MapDromOfApp, MapIromOfPro,
           MapIromOfApp, Read, Goto
  <2> QED  BY <2>1 DEF MmuInv, CachesClean, ProOn, Cores
<1> QED  BY <1>1, MmuInvariant, PTL DEF Spec, TableChangesUncached

\* The variables of FlashMmu, the tables and caches of both cores, have their types.
THEOREM MmuTypesOK == Spec => []TypeOK
BY MmuInvariant, PTL DEF MmuInv

-----------------------------------------------------------------------------
(* Segments that are only congruent *)

\* The count falls short of the segment's pages by one at most.
LEMMA CountMissesOne ==
    ASSUME NEW seg, IsSegment(seg)
    PROVE  LastPage(seg) <= FirstPage(seg) + Count(seg)
<1> DEFINE q == FirstPage(seg)
           o == seg.vma % PageSize
           k == (seg.size - 1) \div PageSize
           r == (seg.size - 1) % PageSize
<1>1. PageSize \in Nat \ {0} /\ seg.vma \in Nat /\ seg.size - 1 \in Nat
      /\ seg.size \in Nat
  BY MmuAssumption DEF IsSegment
<1>2. q \in Nat /\ o \in 0..(PageSize - 1) /\ seg.vma = PageSize * q + o
  BY <1>1, DivMod DEF FirstPage
<1>3. k \in Nat /\ r \in 0..(PageSize - 1) /\ seg.size - 1 = PageSize * k + r
  BY <1>1, DivMod
<1>4. Count(seg) = k + 1
  BY CountIsOfSize
<1> HIDE DEF q, o, k, r
<1>5. /\ seg.vma + seg.size - 1 \in Nat
      /\ PageSize * (q + k + 1) + (PageSize - 1) \in Nat
      /\ seg.vma + seg.size - 1 <= PageSize * (q + k + 1) + (PageSize - 1)
  <2>1. seg.vma + seg.size - 1 = PageSize * (q + k) + r + o
    BY <1>1, <1>2, <1>3
  <2>2. PageSize * (q + k + 1) = PageSize * (q + k) + PageSize
    BY <1>1, <1>2, <1>3
  <2>3. PageSize * (q + k) \in Nat
    BY <1>1, <1>2, <1>3, MulNat
  <2> QED  BY <2>1, <2>2, <2>3, <1>1, <1>2, <1>3
<1>6. (PageSize * (q + k + 1) + (PageSize - 1)) \div PageSize = q + k + 1
  <2>1. q + k + 1 \in Nat /\ PageSize - 1 \in 0..(PageSize - 1)
    BY <1>1, <1>2, <1>3
  <2> QED  BY <2>1, <1>1, DivUnique
<1>7. LastPage(seg) <= q + k + 1
  BY <1>1, <1>5, <1>6, DivMonotone DEF LastPage
<1>8. FirstPage(seg) = q
  BY DEF q
<1> QED  BY <1>2, <1>3, <1>4, <1>7, <1>8

\* A table that has a segment's pages, but may lack the last of several.
MostlyPlaced(t, seg) ==
    \A e \in PagesOf(seg) :
        \/ t[e] = PageAt(seg, e)
        \/ t[e] = Invalid /\ e - 1 \in PagesOf(seg) /\ e + 1 \notin PagesOf(seg)

\* The ROM refuses no segment in its region, whatever its alignment, and into
\* invalid entries all of its pages are placed but for the last.
LEMMA MapMostly ==
    ASSUME NEW seg, IsSegment(seg), PagesOf(seg) \subseteq Entries,
           NEW core \in Cores, table \in [Cores -> [Entries -> Int]],
           MapSegment(core, seg)
    PROVE  /\ failed' = failed
           /\ (\A e \in PagesOf(seg) : table[core][e] = Invalid)
                  => MostlyPlaced(table'[core], seg)
<1> DEFINE q == FirstPage(seg)
           n == Count(seg)
           a == AbsLma(seg)
           m == a \div PageSize
           vaddr == Aligned(seg.vma)
           paddr == Aligned(a)
<1>1. PageSize \in Nat \ {0} /\ SlotPage \in Nat /\ seg.lma \in Nat
  BY MmuAssumption DEF IsSegment
<1>2. /\ q \in Nat /\ n \in Nat /\ n >= 1 /\ LastPage(seg) \in Nat
      /\ q + n - 1 <= LastPage(seg) /\ LastPage(seg) <= q + n
      /\ vaddr % PageSize = 0 /\ vaddr \div PageSize = q
  BY CountIsOfSize, CountFits, CountMissesOne
<1>3. m \in Nat /\ paddr % PageSize = 0 /\ paddr \div PageSize = m
  <2>1. a \in Nat
    BY <1>1, MulNat DEF AbsLma
  <2> DEFINE o == a % PageSize
  <2>2. m \in Nat /\ o \in 0..(PageSize - 1) /\ a = PageSize * m + o
    BY <2>1, <1>1, DivMod
  <2>6. paddr = a - o
    BY DEF Aligned
  <2> HIDE DEF a, m, o, paddr
  <2>3. PageSize * m \in Nat
    BY <1>1, <2>2, MulNat
  <2>4. paddr = PageSize * m + 0 /\ 0 \in 0..(PageSize - 1)
    BY <1>1, <2>1, <2>2, <2>3, <2>6
  <2>5. (PageSize * m + 0) \div PageSize = m /\ (PageSize * m + 0) % PageSize = 0
    BY <1>1, <2>2, <2>4, DivUnique
  <2> QED  BY <2>2, <2>4, <2>5
<1>4. q + n - 1 \in Region(q)
  <2>1. CASE Within(seg, Drom)
    <3>1. q \in Drom /\ LastPage(seg) \in Drom
      BY <2>1 DEF Within, LastPage, FirstPage
    <3> HIDE DEF q, n
    <3> QED  BY <3>1, <1>2, MmuAssumption DEF Region, Drom
  <2>2. CASE Within(seg, Irom)
    <3>1. q \in Irom /\ LastPage(seg) \in Irom
      BY <2>2 DEF Within, LastPage, FirstPage
    <3> HIDE DEF q, n
    <3>2. q \notin Drom
      BY <3>1, MmuAssumption DEF Drom, Irom
    <3> QED  BY <3>1, <3>2, <1>2, MmuAssumption DEF Region, Irom
  <2> QED  BY <2>1, <2>2 DEF IsSegment
<1>5. MmuAccepts(vaddr, paddr, n)
  <2> HIDE DEF q, n, vaddr, paddr
  <2> QED  BY <1>2, <1>3, <1>4 DEF MmuAccepts
<1>6. /\ failed' = failed
      /\ table' = [table EXCEPT ![core] = [e \in Entries |->
                       IF e \in q..(q + n - 1) THEN m + (e - q)
                                               ELSE table[core][e]]]
  BY <1>2, <1>3, <1>5 DEF MapSegment, cache_flash_mmu_set, Count
<1>7. PagesOf(seg) = q..LastPage(seg)
  BY DEF PagesOf, LastPage, FirstPage
<1>8. ASSUME \A e \in PagesOf(seg) : table[core][e] = Invalid
      PROVE  MostlyPlaced(table'[core], seg)
  <2> SUFFICES ASSUME NEW e \in PagesOf(seg)
               PROVE  \/ table'[core][e] = PageAt(seg, e)
                      \/ /\ table'[core][e] = Invalid
                         /\ e - 1 \in PagesOf(seg) /\ e + 1 \notin PagesOf(seg)
    BY DEF MostlyPlaced
  <2>1. e \in Entries /\ e \in q..LastPage(seg)
    BY <1>7
  <2>6. /\ q \in Nat /\ n \in Nat /\ n >= 1 /\ LastPage(seg) \in Nat
        /\ q + n - 1 <= LastPage(seg) /\ LastPage(seg) <= q + n
    BY <1>2
  <2>2. PageAt(seg, e) = m + (e - q)
    BY DEF PageAt
  <2> HIDE DEF q, n, m
  <2>3. table'[core][e] = IF e \in q..(q + n - 1) THEN m + (e - q)
                                                  ELSE table[core][e]
    BY <1>6, <2>1
  <2>4. CASE e \in q..(q + n - 1)
    BY <2>2, <2>3, <2>4
  <2>5. CASE e \notin q..(q + n - 1)
    <3>1. e = LastPage(seg) /\ e = q + n
      BY <2>1, <2>5, <2>6
    <3>3. e - 1 \in q..LastPage(seg) /\ e + 1 \notin q..LastPage(seg)
      BY <3>1, <2>6
    <3>2. e - 1 \in PagesOf(seg) /\ e + 1 \notin PagesOf(seg)
      BY <3>3, <1>7
    <3> QED  BY <2>3, <2>5, <3>2, <1>8
  <2> QED  BY <2>4, <2>5
<1> QED  BY <1>6, <1>8

\* Until a segment is mapped for the PRO CPU, its entries are invalid.
Unset ==
    /\ pc = "invalid" => \A e \in PagesOf(layout.drom) : table[0][e] = Invalid
    /\ pc \in {"invalid", "drom0", "drom1"} =>
           \A e \in PagesOf(layout.irom) : table[0][e] = Invalid

MostlyInOrder ==
    /\ ~failed
    /\ pc \in DromOfProSet => MostlyPlaced(table[0], layout.drom)
    /\ pc \in IromOfProSet => MostlyPlaced(table[0], layout.irom)

LayoutInv == MmuInv /\ Unset /\ MostlyInOrder

\* It holds at the start, where nothing is mapped ...
LEMMA LayoutInit == Init => LayoutInv
BY MmuInit DEF Init, LayoutInv, Unset, MostlyInOrder, ProOn, DromOfProSet,
               DromOfAppSet, IromOfProSet, IromOfAppSet

\* ... and every step keeps it.
LEMMA LayoutNext == LayoutInv /\ [Next]_vars => LayoutInv'
<1> SUFFICES ASSUME LayoutInv, [Next]_vars PROVE LayoutInv'
  OBVIOUS
<1> USE DEF Goto
<1>0. /\ MmuInv /\ MmuInv' /\ Unset /\ MostlyInOrder
      /\ 0 \in Cores /\ 1 \in Cores
      /\ table \in [Cores -> [Entries -> Int]]
      /\ IsSegment(layout.drom) /\ IsSegment(layout.irom)
      /\ PagesOf(layout.drom) \cap PagesOf(layout.irom) = {}
      /\ PagesOf(layout.drom) \subseteq Entries
      /\ PagesOf(layout.irom) \subseteq Entries
  BY MmuNext, PagesApart, LayoutSegments DEF LayoutInv, MmuInv, TypeOK, Cores
<1> SUFFICES Unset' /\ MostlyInOrder'
  BY <1>0 DEF LayoutInv
<1> USE DEF ProOn, DromOfProSet, DromOfAppSet, IromOfProSet, IromOfAppSet
<1>1. CASE DisableProCache \/ FlushProCache
  BY <1>0, <1>1 DEF DisableProCache, FlushProCache, Unset, MostlyInOrder
<1>2. CASE InvalidateProTable
  <2>1. \A e \in Entries : table'[0][e] = Invalid
    BY <1>0, <1>2 DEF InvalidateProTable
  <2>2. Unset'
    BY <1>0, <1>2, <2>1 DEF InvalidateProTable, Unset
  <2>3. MostlyInOrder'
    BY <1>0, <1>2 DEF InvalidateProTable, MostlyInOrder
  <2> QED  BY <2>2, <2>3
<1>3. CASE MapDromOfPro
  <2>1. failed' = failed /\ MostlyPlaced(table'[0], layout.drom)
    BY <1>0, <1>3, MapMostly DEF MapDromOfPro, Unset
  <2>2. \A e \in PagesOf(layout.irom) : table'[0][e] = table[0][e]
    BY <1>0, <1>3, MapKeepsOthers DEF MapDromOfPro, MmuInv, TypeOK
  <2>3. Unset'
    BY <1>0, <1>3, <2>2 DEF MapDromOfPro, Unset
  <2>4. MostlyInOrder'
    BY <1>0, <1>3, <2>1 DEF MapDromOfPro, MostlyInOrder
  <2> QED  BY <2>3, <2>4
<1>4. CASE MapDromOfApp
  <2>1. failed' = failed /\ table'[0] = table[0]
    BY <1>0, <1>4, MapMostly, MapKeepsOthers DEF MapDromOfApp, MmuInv, TypeOK
  <2>2. Unset'
    BY <1>0, <1>4, <2>1 DEF MapDromOfApp, Unset
  <2>3. MostlyInOrder'
    BY <1>0, <1>4, <2>1 DEF MapDromOfApp, MostlyInOrder, MostlyPlaced, PageAt
  <2> QED  BY <2>2, <2>3
<1>5. CASE MapIromOfPro
  <2>1. failed' = failed /\ MostlyPlaced(table'[0], layout.irom)
    BY <1>0, <1>5, MapMostly DEF MapIromOfPro, Unset
  <2>2. \A e \in PagesOf(layout.drom) : table'[0][e] = table[0][e]
    BY <1>0, <1>5, MapKeepsOthers DEF MapIromOfPro, MmuInv, TypeOK
  <2>3. MostlyPlaced(table[0], layout.drom)
    BY <1>0, <1>5 DEF MapIromOfPro, MostlyInOrder
  <2>4. MostlyPlaced(table'[0], layout.drom)
    BY <2>2, <2>3 DEF MostlyPlaced
  <2>5. Unset'
    BY <1>5 DEF MapIromOfPro, Unset
  <2>6. MostlyInOrder'
    BY <1>0, <1>5, <2>1, <2>4 DEF MapIromOfPro, MostlyInOrder
  <2> QED  BY <2>5, <2>6
<1>6. CASE MapIromOfApp
  <2>1. failed' = failed /\ table'[0] = table[0]
    <3>1. MapSegment(1, layout.irom)
      BY <1>6 DEF MapIromOfApp
    <3>2. failed' = failed
      BY <1>0, <3>1, MapMostly
    <3>3. \A c \in Cores : c # 1 => table'[c] = table[c]
      BY <1>0, <3>1, MapKeepsOthers DEF MmuInv, TypeOK
    <3> QED  BY <1>0, <3>2, <3>3
  <2>2. Unset'
    BY <1>6 DEF MapIromOfApp, Unset
  <2>3. MostlyInOrder'
    BY <1>0, <1>6, <2>1 DEF MapIromOfApp, MostlyInOrder, MostlyPlaced, PageAt
  <2> QED  BY <2>2, <2>3
<1>7. CASE UnmaskBuses \/ EnableProCache \/ FlushAppCache \/ EnableAppCache
  BY <1>0, <1>7 DEF UnmaskBuses, EnableProCache, FlushAppCache, EnableAppCache,
                    Unset, MostlyInOrder, MostlyPlaced, PageAt
<1>8. ASSUME NEW core \in Cores, NEW entry \in Entries, Read(core, entry)
      PROVE  Unset' /\ MostlyInOrder'
  BY <1>0, <1>8 DEF Read, Unset, MostlyInOrder, MostlyPlaced, PageAt
<1>9. CASE UNCHANGED vars
  BY <1>0, <1>9 DEF vars, Unset, MostlyInOrder, MostlyPlaced, PageAt
<1> QED
  BY <1>1, <1>2, <1>3, <1>4, <1>5, <1>6, <1>7, <1>8, <1>9
  DEF Next, MapRomSegments, StartOtherCore

\* A byte of a congruent segment is as far into its page in memory as in flash.
LEMMA ByteAt ==
    ASSUME NEW seg, IsSegment(seg), Congruent(seg), NEW i \in 0..(seg.size - 1)
    PROVE  PageAt(seg, (seg.vma + i) \div PageSize) * PageSize
               + ((seg.vma + i) % PageSize) = AbsLma(seg) + i
<1> DEFINE q == FirstPage(seg)
           o == seg.vma % PageSize
           k == seg.lma \div PageSize
           e == (seg.vma + i) \div PageSize
           b == (seg.vma + i) % PageSize
<1>1. PageSize \in Nat \ {0} /\ SlotPage \in Nat /\ seg.vma \in Nat
      /\ seg.lma \in Nat /\ seg.size \in Nat /\ i \in Nat
  BY MmuAssumption DEF IsSegment
<1>2. q \in Nat /\ o \in 0..(PageSize - 1) /\ seg.vma = PageSize * q + o
  BY <1>1, DivMod DEF FirstPage
<1>3. k \in Nat /\ seg.lma = PageSize * k + o
  BY <1>1, DivMod DEF Congruent
<1>4. e \in Nat /\ b \in 0..(PageSize - 1) /\ seg.vma + i = PageSize * e + b
  <2>1. seg.vma + i \in Nat
    BY <1>1
  <2> QED  BY <2>1, <1>1, DivMod
<1>5. AbsLma(seg) \div PageSize = SlotPage + k
      /\ AbsLma(seg) = PageSize * (SlotPage + k) + o
  <2> HIDE DEF k, o
  <2>1. AbsLma(seg) = PageSize * (SlotPage + k) + o
    BY <1>1, <1>2, <1>3 DEF AbsLma
  <2>2. (PageSize * (SlotPage + k) + o) \div PageSize = SlotPage + k
    <3>1. SlotPage + k \in Nat
      BY <1>1, <1>3
    <3> QED  BY <3>1, <1>1, <1>2, DivUnique
  <2> QED  BY <2>1, <2>2
<1>6. PageAt(seg, e) = SlotPage + k + (e - q)
  BY <1>5 DEF PageAt
<1> HIDE DEF q, o, k, e, b
<1>7. (SlotPage + k + (e - q)) * PageSize + b = AbsLma(seg) + i
  <2>1. (SlotPage + k + (e - q)) * PageSize
            = PageSize * (SlotPage + k) + PageSize * e - PageSize * q
    BY <1>1, <1>2, <1>3, <1>4
  <2>2. /\ PageSize * (SlotPage + k) \in Int
        /\ PageSize * e \in Int /\ PageSize * q \in Int
    BY <1>1, <1>2, <1>3, <1>4
  <2> QED  BY <2>1, <2>2, <1>1, <1>2, <1>4, <1>5
<1> QED  BY <1>6, <1>7 DEF e, b

\* Of congruent segments the PRO CPU reads the image's bytes or faults, on a
\* last page that was not counted (start.c:281), for any page size and layout.
THEOREM UncountedSafe == Spec => []UncountedPageInvalid
<1>1. LayoutInv => UncountedPageInvalid
  <2> SUFFICES ASSUME LayoutInv, Mapped(0),
                      Congruent(layout.drom), Congruent(layout.irom),
                      NEW seg \in {layout.drom, layout.irom},
                      NEW entry \in Entries, entry \in PagesOf(seg)
               PROVE  \/ \A i \in 0..(seg.size - 1) :
                            (seg.vma + i) \div PageSize = entry =>
                                ReadsFrom(0, seg.vma + i) = AbsLma(seg) + i
                      \/ /\ table[0][entry] = Invalid
                         /\ entry - 1 \in PagesOf(seg)
                         /\ entry + 1 \notin PagesOf(seg)
    BY DEF UncountedPageInvalid, LayoutInv, MostlyInOrder
  <2>1. pc \in ProOn /\ MostlyPlaced(table[0], seg)
    BY DEF Mapped, LayoutInv, MostlyInOrder, ProOn, IromOfProSet, DromOfProSet,
           IromOfAppSet, DromOfAppSet
  <2>2. lines[0][entry] \in {Nothing, table[0][entry]}
    BY <2>1 DEF LayoutInv, MmuInv, CachesClean, ProOn
  <2>3. IsSegment(seg) /\ Congruent(seg)
    BY LayoutSegments DEF LayoutInv, MmuInv, TypeOK
  <2>4. ASSUME table[0][entry] = PageAt(seg, entry),
               NEW i \in 0..(seg.size - 1), (seg.vma + i) \div PageSize = entry
        PROVE  ReadsFrom(0, seg.vma + i) = AbsLma(seg) + i
    <3>1. ReadsFrom(0, seg.vma + i) =
              PageAt(seg, entry) * PageSize + ((seg.vma + i) % PageSize)
      BY <2>2, <2>4 DEF ReadsFrom
    <3> QED  BY <3>1, <2>3, <2>4, ByteAt
  <2> QED  BY <2>1, <2>4 DEF MostlyPlaced
<1> QED  BY <1>1, LayoutInit, LayoutNext, PTL DEF Spec
=============================================================================
