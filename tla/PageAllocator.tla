---------------------------- MODULE PageAllocator ----------------------------
(***************************************************************************)
(* The physical page allocator, kernel/memory/pmm.c: which pages the boot  *)
(* loader's description of the machine makes free, and how pages are       *)
(* handed out and taken back.  Addresses are u32; a page is named by its   *)
(* index in the bitmap.  The readings in KiB that only the Memory screen   *)
(* shows are left out.                                                     *)
(***************************************************************************)
EXTENDS Integers, FiniteSetsExt

CONSTANTS
    Word,        \* 2^32
    PageSize,    \* HNM_PMM_PAGE_SIZE
    MaxTracked,  \* HNM_PMM_MAX_TRACKED_MEMORY
    LowLimit,    \* HNM_PMM_LOW_MEMORY_LIMIT, where the kernel starts too
    KernelEnd,   \* the address of the linker's kernel_end
    InfoSize,    \* the size of struct hnm_multiboot_info
    Machines     \* what the boot loader may report

Address == 0 .. Word - 1

\* A region of the memory map.  Base and length are of 64 bits: the low and
\* the high words of the entry are their remainder and quotient by Word.
Region == [base : Nat, length : Nat, available : BOOLEAN]

\* info is the address of the structure, 0 without one.  The entries of map lie
\* in the mapLength bytes (mmap_length) from mapAt (mmap_addr), 0 bytes when the
\* flag for the map is not set.  lower and upper are mem_lower and mem_upper in
\* bytes, both 0 when the flag for them is not set.
Machine == [info : Address, map : SUBSET Region, mapAt : Address, mapLength : Address,
            lower : Nat, upper : Nat]

\* hnm_pmm_init goes by the map, not by lower and upper.
HasMap(m) == m.info # 0 /\ m.mapAt # 0 /\ m.mapLength # 0

High(x) == x \div Word
Low(x) == x % Word

ASSUME SizesAssumption ==
    /\ {Word, PageSize, MaxTracked, LowLimit, KernelEnd, InfoSize} \subseteq Nat \ {0}
    /\ Word % PageSize = 0 /\ MaxTracked % PageSize = 0 /\ LowLimit % PageSize = 0
    /\ MaxTracked + PageSize < Word
    /\ LowLimit < KernelEnd /\ KernelEnd + PageSize <= MaxTracked
    /\ InfoSize <= PageSize

\* No usable memory starts within the last page below 4 GiB, where machines
\* have their firmware: align_up would wrap to address 0 there.
ASSUME MachinesAssumption ==
    /\ Machines \subseteq Machine
    /\ \A m \in Machines :
        /\ IsFiniteSet(m.map)
        /\ LowLimit + m.lower + m.upper < Word
        /\ m.info + PageSize < Word
        /\ \A e \in m.map : e.available => e.base + PageSize <= Word \/ e.base >= Word

-----------------------------------------------------------------------------
(* Arithmetic of hnm_pmm_init.                                             *)

Pages == 0 .. MaxTracked \div PageSize - 1

AlignDown(value) == value - (value % PageSize)
AlignUp(value) == AlignDown((value + PageSize - 1) % Word)

Before(address, page) == address <= page * PageSize

\* Fault: the start of a free region is rounded as that of a used one.
WholePagesOutward(base, length) ==
    {p \in Pages :
        /\ length >= PageSize
        /\ Before(AlignDown(base), p)
        /\ base + length >= Word \/ ~Before(AlignDown(base + length), p)}

\* hnm_pmm_mark_range_free: the pages wholly inside.
WholePages(base, length) ==
    {p \in Pages :
        /\ length >= PageSize
        /\ Before(AlignUp(base), p)
        /\ base + length >= Word \/ ~Before(AlignDown(base + length), p)}

\* hnm_pmm_mark_range_used: every page that is touched.
TouchedPages(base, length) ==
    {p \in Pages :
        /\ length # 0
        /\ Before(AlignDown(base), p)
        /\ base + length >= Word \/ ~Before(AlignUp(base + length), p)}

\* A start or a length that does not fit, or an end that wraps, counts as the
\* end of what is tracked; regions that are not available count as well.
RegionEnd(e) ==
    IF e.base + e.length < Word THEN e.base + e.length ELSE MaxTracked

HighestAddress(m) ==
    CASE m.info = 0 -> LowLimit
      [] HasMap(m) -> Max({LowLimit} \union {RegionEnd(e) : e \in m.map})
      [] OTHER -> m.lower + m.upper + LowLimit

\* hnm_pmm_prepare_bitmap
TotalPages(m) == AlignUp(Min({HighestAddress(m), MaxTracked})) \div PageSize

\* Only the low word of a length is used when the region is freed.
MarkedFree(m) ==
    CASE m.info = 0 -> {}
      [] HasMap(m) ->
            UNION {WholePages(e.base, Low(e.length)) :
                   e \in {r \in m.map : r.available /\ High(r.base) = 0}}
      [] OTHER -> WholePages(LowLimit, m.upper)

\* hnm_pmm_reserve_kernel_ranges
Reserved(m) ==
    TouchedPages(0, LowLimit)
    \union TouchedPages(LowLimit, AlignUp(KernelEnd) - LowLimit)
    \union (IF m.info = 0 THEN {} ELSE TouchedPages(m.info, PageSize))

BootFree(m) == {p \in MarkedFree(m) : p < TotalPages(m)} \ Reserved(m)

-----------------------------------------------------------------------------
VARIABLES
    machine,     \* what this machine's boot loader reported
    free,        \* the pages whose bit is clear in hnm_pmm_bitmap
    freePages,   \* hnm_pmm_stats.free_pages
    usedPages,   \* hnm_pmm_stats.used_pages
    nextSearch,  \* hnm_pmm_next_search_page
    held,        \* history: the pages that callers other than the heap hold
    astray       \* history: the pages that were given back by somebody else

pmmVars == <<machine, free, freePages, usedPages, nextSearch, held, astray>>

\* The state hnm_pmm_init leaves: every mark moves a page between the counters.
PmmInit ==
    /\ machine \in Machines
    /\ free = BootFree(machine)
    /\ freePages = Cardinality(free)
    /\ usedPages = TotalPages(machine) - freePages
    /\ nextSearch = 0
    /\ held = {}
    /\ astray = {}

\* The page that the circular search of hnm_pmm_alloc_page comes to after
\* `scanned` others.
Scanned(scanned) == (nextSearch + scanned) % TotalPages(machine)

\* Fault: the search stops at the last page.
FirstFreeUnwrapped(p) ==
    /\ p \in free /\ p >= nextSearch
    /\ \A q \in nextSearch .. p - 1 : q \notin free

FirstFree(p) ==
    \E k \in 0 .. TotalPages(machine) - 1 :
        /\ p = Scanned(k) /\ p \in free
        /\ \A j \in 0 .. k - 1 : Scanned(j) \notin free

\* hnm_pmm_alloc_page returns page p, and when it returns a null pointer.
Takes(p) ==
    /\ freePages # 0
    /\ FirstFree(p)
    /\ free' = free \ {p}
    /\ freePages' = freePages - 1
    /\ usedPages' = usedPages + 1
    /\ nextSearch' = p + 1
    /\ UNCHANGED <<machine, astray>>

OutOfPages == freePages = 0 \/ ~\E p \in Pages : FirstFree(p)

\* Fault: the bit is not looked at.
MarkFreeUnchecked(p) ==
    /\ free' = free \union {p}
    /\ freePages' = freePages + 1
    /\ usedPages' = usedPages - 1

\* Fault: the last page counts as one beyond them.
MarkFreeButLast(p) ==
    IF p + 1 < TotalPages(machine) /\ p \notin free
    THEN /\ free' = free \union {p}
         /\ freePages' = freePages + 1
         /\ usedPages' = usedPages - 1
    ELSE UNCHANGED <<free, freePages, usedPages>>

\* hnm_pmm_mark_page_free
MarkFree(p) ==
    IF p < TotalPages(machine) /\ p \notin free
    THEN /\ free' = free \union {p}
         /\ freePages' = freePages + 1
         /\ usedPages' = usedPages - 1
    ELSE UNCHANGED <<free, freePages, usedPages>>

AllocPage ==
    \E p \in Pages : Takes(p) /\ held' = held \union {p}

\* The pointers that hnm_pmm_free_page turns down.
Refused(address) == address = 0 \/ address % PageSize # 0

\* hnm_pmm_free_page, with any pointer: it does not know whose a page is.
FreePage(address) ==
    /\ IF Refused(address) THEN UNCHANGED <<free, freePages, usedPages>>
       ELSE MarkFree(address \div PageSize)
    /\ UNCHANGED <<machine, nextSearch>>

\* A caller gives back a page that it holds.
GiveBack(p) ==
    /\ FreePage(p * PageSize)
    /\ held' = held \ {p}
    /\ UNCHANGED astray

\* A call with a pointer that is not the caller's to give back: to no page, to
\* a page that is free already, or, kept too long or never owned, to one that
\* is reserved or that somebody else holds and goes on using.
GiveBackStray(address) ==
    /\ FreePage(address)
    /\ astray' = astray \union (free' \ free)
    /\ UNCHANGED held
=============================================================================
