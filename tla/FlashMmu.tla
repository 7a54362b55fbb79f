------------------------------ MODULE FlashMmu ------------------------------
(***************************************************************************)
(* The flash MMU as the application sets it up (map_rom_segments in start.c, *)
(* completed for the APP CPU by start_other_core). Each core has a table      *)
(* from pages of its address space to pages of flash, and a cache that keeps  *)
(* what was read through the table. MCUboot leaves both as it used them.      *)
(* Addresses are those the tables translate: the read-only data is linked     *)
(* into the first DromPages pages, the code into the IromPages that follow.   *)
(***************************************************************************)
EXTENDS Integers

CONSTANTS
    PageSize,    \* MMU_BLOCK_SIZE, 64 KB
    DromPages,   \* pages of the data bus
    IromPages,   \* pages of the instruction bus
    SlotPage,    \* CONFIG_ESP_APPLICATION_PRIMARY_START_ADDRESS, in pages
    Layouts,     \* what the linker may produce
    BootTables   \* tables that MCUboot may leave

Drom    == 0..(DromPages - 1)
Irom    == DromPages..(DromPages + IromPages - 1)
Entries == Drom \cup Irom
Cores   == {0, 1}
Invalid == -1                     \* DPORT_FLASH_MMU_TABLE_INVALID_VAL
Nothing == -2                     \* no cache line is filled
Buses   == {"DROM0", "IRAM0"}

\* The linker gives each segment an address, a place in the image and a size,
\* and keeps it within its region.
Within(seg, region) ==
    /\ seg.vma \div PageSize \in region
    /\ (seg.vma + seg.size - 1) \div PageSize \in region
    /\ seg.size > 0

ASSUME MmuAssumption ==
    /\ PageSize \in Nat \ {0}
    /\ DromPages \in Nat \ {0} /\ IromPages \in Nat \ {0}
    /\ SlotPage \in Nat
    /\ \A l \in Layouts :
          /\ \A seg \in {l.drom, l.irom} :
                seg.vma \in Nat /\ seg.lma \in Nat /\ seg.size \in Nat
          /\ Within(l.drom, Drom) /\ Within(l.irom, Irom)
    /\ BootTables \subseteq [Entries -> Int]

VARIABLES
    pc,       \* how far the PRO CPU is
    layout,   \* the application's segments
    table,    \* [core -> [entry -> page of flash, or Invalid]]
    lines,    \* [core -> [entry -> page of flash its cache lines hold]]
    cacheOn,  \* [core -> its cache is enabled]
    masked,   \* [core -> buses its cache does not serve]
    failed    \* rc of map_rom_segments is not ESP_OK

vars == <<pc, layout, table, lines, cacheOn, masked, failed>>

Steps == <<"boot", "disabled", "flushed", "invalid", "drom0", "drom1",
           "irom0", "irom1", "unmasked", "pro_on", "app_flushed", "app_on">>
Pcs == {Steps[i] : i \in DOMAIN Steps}

Goto(from, to) == pc = from /\ pc' = to

-----------------------------------------------------------------------------
(* Segments and pages *)

\* An address is cut to its page.
Aligned(a) == a - (a % PageSize)

\* Mutant: the size is rounded down.
CountPagesDown(size, vaddr) == (size + vaddr - Aligned(vaddr)) \div PageSize

\* Mutant: one page more, for good measure.
CountPagesAndOne(size, vaddr) ==
    (size + vaddr - Aligned(vaddr) + PageSize) \div PageSize + 1

count_mmu_pages(size, vaddr) ==
    (size + (vaddr - Aligned(vaddr)) + PageSize - 1) \div PageSize

AbsLma(seg) == SlotPage * PageSize + seg.lma

Region(entry) == IF entry \in Drom THEN Drom ELSE Irom

\* cache_flash_mmu_set of the ROM refuses what is not aligned and what leaves
\* the region.
MmuAccepts(vaddr, paddr, num) ==
    /\ vaddr % PageSize = 0 /\ paddr % PageSize = 0
    /\ LET first == vaddr \div PageSize
       IN  (first + num - 1) \in Region(first) \/ num = 0

cache_flash_mmu_set(core, vaddr, paddr, num) ==
    LET first == vaddr \div PageSize
        mapped == first..(first + num - 1)
    IN  IF MmuAccepts(vaddr, paddr, num)
        THEN /\ table' = [table EXCEPT ![core] = [e \in Entries |->
                             IF e \in mapped
                             THEN paddr \div PageSize + (e - first)
                             ELSE table[core][e]]]
             /\ failed' = failed
        ELSE /\ failed' = TRUE
             /\ table' = table

MapSegment(core, seg) ==
    LET vaddr == Aligned(seg.vma)
    IN  cache_flash_mmu_set(core, vaddr, Aligned(AbsLma(seg)),
                            count_mmu_pages(seg.size, vaddr))

-----------------------------------------------------------------------------
(* map_rom_segments *)

\* Mutant: the cache stays enabled.
KeepProCache ==
    /\ Goto("boot", "disabled")
    /\ UNCHANGED <<layout, table, lines, cacheOn, masked, failed>>

DisableProCache ==
    /\ Goto("boot", "disabled")
    /\ cacheOn' = [cacheOn EXCEPT ![0] = FALSE]
    /\ UNCHANGED <<layout, table, lines, masked, failed>>

Flush(core) == lines' = [lines EXCEPT ![core] = [e \in Entries |-> Nothing]]

FlushProCache ==
    /\ Goto("disabled", "flushed")
    /\ Flush(0)
    /\ UNCHANGED <<layout, table, cacheOn, masked, failed>>

\* Mutant: the loop ends one entry early.
InvalidateAllButLast ==
    /\ Goto("flushed", "invalid")
    /\ table' = [table EXCEPT ![0] = [e \in Entries |->
                     IF e + 1 \in Entries THEN Invalid ELSE table[0][e]]]
    /\ UNCHANGED <<layout, lines, cacheOn, masked, failed>>

InvalidateProTable ==
    /\ Goto("flushed", "invalid")
    /\ table' = [table EXCEPT ![0] = [e \in Entries |-> Invalid]]
    /\ UNCHANGED <<layout, lines, cacheOn, masked, failed>>

MapDromOfPro ==
    /\ Goto("invalid", "drom0")
    /\ MapSegment(0, layout.drom)
    /\ UNCHANGED <<layout, lines, cacheOn, masked>>

MapDromOfApp ==
    /\ Goto("drom0", "drom1")
    /\ MapSegment(1, layout.drom)
    /\ UNCHANGED <<layout, lines, cacheOn, masked>>

MapIromOfPro ==
    /\ Goto("drom1", "irom0")
    /\ MapSegment(0, layout.irom)
    /\ UNCHANGED <<layout, lines, cacheOn, masked>>

MapIromOfApp ==
    /\ Goto("irom0", "irom1")
    /\ MapSegment(1, layout.irom)
    /\ UNCHANGED <<layout, lines, cacheOn, masked>>

UnmaskBuses ==
    /\ Goto("irom1", "unmasked")
    /\ masked' = [c \in Cores |-> masked[c] \ Buses]
    /\ UNCHANGED <<layout, table, lines, cacheOn, failed>>

\* The result is returned, and __start ignores it.
EnableProCache ==
    /\ Goto("unmasked", "pro_on")
    /\ cacheOn' = [cacheOn EXCEPT ![0] = TRUE]
    /\ UNCHANGED <<layout, table, lines, masked, failed>>

\* start_other_core prepares the cache of the APP CPU.
FlushAppCache ==
    /\ Goto("pro_on", "app_flushed")
    /\ Flush(1)
    /\ UNCHANGED <<layout, table, cacheOn, masked, failed>>

EnableAppCache ==
    /\ Goto("app_flushed", "app_on")
    /\ cacheOn' = [cacheOn EXCEPT ![1] = TRUE]
    /\ UNCHANGED <<layout, table, lines, masked, failed>>

\* A core reads through its cache: a line that is not there is filled.
Read(core, entry) ==
    /\ cacheOn[core]
    /\ lines[core][entry] = Nothing
    /\ table[core][entry] # Invalid
    /\ lines' = [lines EXCEPT ![core][entry] = table[core][entry]]
    /\ UNCHANGED <<pc, layout, table, cacheOn, masked, failed>>

-----------------------------------------------------------------------------
\* MCUboot leaves its entries in the tables, and lines read through them, or
\* through earlier ones, in the caches; its cache is on or off. The APP CPU
\* has not run.
LinesOf(t) == [e \in Entries |-> IF t[e] = Invalid THEN Nothing ELSE t[e]]
BootLines  == {LinesOf(t) : t \in BootTables}

Init ==
    /\ pc = "boot"
    /\ layout \in Layouts
    /\ table \in [Cores -> BootTables]
    /\ lines \in [Cores -> BootLines]
    /\ cacheOn \in {[c \in Cores |-> FALSE], [c \in Cores |-> c = 0]}
    /\ masked = [c \in Cores |-> Buses]
    /\ failed = FALSE

MapRomSegments ==
    \/ DisableProCache \/ FlushProCache \/ InvalidateProTable
    \/ MapDromOfPro \/ MapDromOfApp \/ MapIromOfPro \/ MapIromOfApp
    \/ UnmaskBuses \/ EnableProCache

StartOtherCore == FlushAppCache \/ EnableAppCache

Next ==
    \/ MapRomSegments \/ StartOtherCore
    \/ \E core \in Cores, entry \in Entries : Read(core, entry)

Spec == Init /\ [][Next]_vars

-----------------------------------------------------------------------------
TypeOK ==
    /\ pc \in Pcs
    /\ layout \in Layouts
    /\ table \in [Cores -> [Entries -> Int]]
    /\ lines \in [Cores -> [Entries -> Int]]
    /\ cacheOn \in [Cores -> BOOLEAN]
    /\ masked \in [Cores -> SUBSET Buses]
    /\ failed \in BOOLEAN

\* Where in flash a core's read of an address goes.
ReadsFrom(core, addr) ==
    LET entry == addr \div PageSize
        line  == lines[core][entry]
        page  == IF line # Nothing THEN line ELSE table[core][entry]
    IN  page * PageSize + (addr % PageSize)

\* The core reads each byte of the segment from where the image has it.
ReadsRight(core, seg, bus) ==
    /\ bus \notin masked[core]
    /\ \A i \in 0..(seg.size - 1) :
          /\ table[core][(seg.vma + i) \div PageSize] # Invalid
          /\ ReadsFrom(core, seg.vma + i) = AbsLma(seg) + i

BothReadRight(core) ==
    /\ ReadsRight(core, layout.drom, "DROM0")
    /\ ReadsRight(core, layout.irom, "IRAM0")

PageAligned(seg) == seg.vma % PageSize = 0 /\ seg.lma % PageSize = 0

Mapped(core) == IF core = 0 THEN pc \in {"pro_on", "app_flushed", "app_on"}
                            ELSE pc = "app_on"

\* Both segments aligned to pages, as the linker script aligns them: once the
\* cache of a core is enabled, the core reads every byte of code and data from
\* its place in the primary slot, whatever MCUboot left in the tables (only one
\* of which is cleared) and in the caches.
SegmentsReadRight ==
    PageAligned(layout.drom) /\ PageAligned(layout.irom) =>
        \A core \in Cores : Mapped(core) => BothReadRight(core)

\* ... and then the result that __start ignores (start.c:513) is ESP_OK: the
\* ROM refuses neither segment, not even one that fills its region.
ResultMayBeIgnored ==
    PageAligned(layout.drom) /\ PageAligned(layout.irom) => ~failed

PagesOf(seg) == (seg.vma \div PageSize)..((seg.vma + seg.size - 1) \div PageSize)

Congruent(seg) == seg.vma % PageSize = seg.lma % PageSize

\* Of segments that are only congruent the offset in the first page is not
\* counted (start.c:281 passes the address already cut). For these too, where
\* the PRO CPU reads a byte at all it is the image's. What can be missing is the
\* last page, never the only one, and its entry is invalid: the read is an
\* exception, and not a read of what MCUboot had there.
UncountedPageInvalid ==
    Mapped(0) /\ Congruent(layout.drom) /\ Congruent(layout.irom) =>
        /\ ~failed
        /\ \A seg \in {layout.drom, layout.irom}, entry \in Entries :
              entry \in PagesOf(seg) =>
                  \/ \A i \in 0..(seg.size - 1) :
                        (seg.vma + i) \div PageSize = entry =>
                            ReadsFrom(0, seg.vma + i) = AbsLma(seg) + i
                  \/ /\ table[0][entry] = Invalid
                     /\ entry - 1 \in PagesOf(seg)
                     /\ entry + 1 \notin PagesOf(seg)

\* The PRO CPU keeps no page of the bootloader: "Invalidate MMU entries, for
\* fresh start with app".
ProTableFresh ==
    Mapped(0) =>
        \A e \in Entries : table[0][e] # Invalid =>
            e \in PagesOf(layout.drom) \cup PagesOf(layout.irom)

\* A table never changes under an enabled cache, which would go on serving the
\* lines of the old page.
TableChangesUncached ==
    [][\A core \in Cores : table'[core] # table[core] => ~cacheOn[core]]_vars
=============================================================================
