-------------------------------- MODULE Heap --------------------------------
(***************************************************************************)
(* The kernel heap, kernel/memory/heap.c, on the page allocator: blocks    *)
(* are cut from the current page one behind the other, and a page that     *)
(* cannot hold the next block is left for a new one.  Nothing is freed.    *)
(* Callers of the page allocator, some of which give back what is not      *)
(* theirs, run against callers of the heap.  failed_allocations, which is  *)
(* only shown, is left out.                                                *)
(***************************************************************************)
EXTENDS PageAllocator

CONSTANTS
    Alignment,   \* HNM_HEAP_ALIGNMENT
    Requests,    \* the sizes that hnm_kmalloc is asked for
    Pointers,    \* the addresses that stray callers give to hnm_pmm_free_page
    MaxBlocks    \* bound: how many requests hnm_kmalloc grants

ASSUME HeapAssumption ==
    /\ Alignment \in Nat \ {0} /\ PageSize % Alignment = 0 /\ Word % Alignment = 0
    /\ Requests \subseteq Address /\ Pointers \subseteq Address
    /\ MaxBlocks \in Nat

VARIABLES
    heapPage,    \* hnm_heap_current_page, an address, 0 for none
    heapOffset,  \* hnm_heap_current_offset
    heapStats,   \* page_count, used_bytes, allocation_count
    blocks,      \* history: the blocks handed out, by address and size
    roomless     \* history: how many requests were granted without any room

heapVars == <<heapPage, heapOffset, heapStats, blocks, roomless>>
vars == <<pmmVars, heapVars>>

HeapInit ==
    /\ heapPage = 0
    /\ heapOffset = 0
    /\ heapStats = [pages |-> 0, used |-> 0, allocations |-> 0]
    /\ blocks = {}
    /\ roomless = 0

Init == PmmInit /\ HeapInit

Aligned(size) == LET s == (size + Alignment - 1) % Word IN s - (s % Alignment)

\* The rounding wraps for the last sizes below 2^32: such a request passes for
\* one of no bytes.
Wraps(size) == Aligned(size) < size

\* Fault: the room left is not looked at.
NeedsPageOnce(size) == heapPage = 0

\* The current page cannot hold a block of that size.
NeedsPage(size) == heapPage = 0 \/ heapOffset + size > PageSize

\* Who asked for `size` bytes was given `address`.
HandedOut(address, size) ==
    IF Wraps(size) THEN roomless' = roomless + 1 /\ UNCHANGED blocks
    ELSE blocks' = blocks \union {[address |-> address, size |-> size]} /\ UNCHANGED roomless

\* Fault: the next block starts right behind the bytes asked for.
CutUnaligned(page, offset, size, new) ==
    /\ heapPage' = page
    /\ heapOffset' = offset + size
    /\ heapStats' = [pages |-> heapStats.pages + new,
                     used |-> heapStats.used + size,
                     allocations |-> heapStats.allocations + 1]
    /\ HandedOut(page + offset, size)
    /\ UNCHANGED held

\* The rest of hnm_kmalloc: a block at `offset` of `page`, `new` pages taken.
Cut(page, offset, size, new) ==
    /\ heapPage' = page
    /\ heapOffset' = offset + Aligned(size)
    /\ heapStats' = [pages |-> heapStats.pages + new,
                     used |-> heapStats.used + Aligned(size),
                     allocations |-> heapStats.allocations + 1]
    /\ HandedOut(page + offset, size)
    /\ UNCHANGED held

\* A size that hnm_kmalloc answers with a null pointer at once.
BadSize(size) == size = 0 \/ Aligned(size) > PageSize

Kmalloc(size) ==
    /\ ~BadSize(size) /\ heapStats.allocations < MaxBlocks
    /\ \/ ~NeedsPage(Aligned(size)) /\ Cut(heapPage, heapOffset, size, 0)
          /\ UNCHANGED <<machine, free, freePages, usedPages, nextSearch, astray>>
       \/ NeedsPage(Aligned(size))
          /\ \E p \in Pages : Takes(p) /\ Cut(p * PageSize, 0, size, 1)

KmallocFails(size) ==
    /\ BadSize(size) \/ (NeedsPage(Aligned(size)) /\ OutOfPages)
    /\ UNCHANGED vars

\* Fault: a block's page goes back as if the block were alone on it.
KfreePage(block) ==
    /\ MarkFree(block.address \div PageSize)
    /\ UNCHANGED <<machine, nextSearch, held, astray, heapVars>>

\* hnm_kfree does nothing.
Kfree(block) == UNCHANGED vars

Next ==
    \/ AllocPage /\ UNCHANGED heapVars
    \/ OutOfPages /\ UNCHANGED vars
    \/ \E p \in held : GiveBack(p) /\ UNCHANGED heapVars
    \/ \E address \in Pointers : GiveBackStray(address) /\ UNCHANGED heapVars
    \/ \E size \in Requests : Kmalloc(size) \/ KmallocFails(size)
    \/ \E block \in blocks : Kfree(block)

Spec == Init /\ [][Next]_vars

-----------------------------------------------------------------------------
TypeOK ==
    /\ machine \in Machines
    /\ free \subseteq Pages /\ held \subseteq Pages /\ astray \subseteq Pages
    /\ freePages \in Nat /\ usedPages \in Nat /\ nextSearch \in Nat
    /\ heapPage \in Address /\ heapOffset \in 0 .. PageSize
    /\ heapStats \in [pages : Nat, used : Nat, allocations : 0 .. MaxBlocks]
    /\ blocks \subseteq [address : Address, size : 1 .. PageSize]
    /\ roomless \in Nat

PageOf(block) == block.address \div PageSize
HeapPages ==
    {PageOf(b) : b \in blocks} \union (IF heapPage = 0 THEN {} ELSE {heapPage \div PageSize})

\* The two counters that hnm_pmm_alloc_page trusts and the Memory screen shows
\* agree with the bitmap, also after a page was given back twice or by somebody
\* else, a reserved one was, or a pointer was refused.
CountersAgree ==
    /\ freePages = Cardinality(free)
    /\ freePages + usedPages = TotalPages(machine)

Bytes(first, length) == first .. first + length - 1
PageBytes(p) == Bytes(p * PageSize, PageSize)

\* Memory that the boot loader reports as available, in one region.
Available(m, p) ==
    IF HasMap(m)
    THEN \E e \in m.map : e.available /\ PageBytes(p) \subseteq Bytes(e.base, e.length)
    ELSE PageBytes(p) \subseteq Bytes(LowLimit, m.upper)

\* Beyond low memory and the kernel's image, and not the boot loader's structure.
Spared(m, p) ==
    /\ PageBytes(p) \cap Bytes(0, KernelEnd) = {}
    /\ m.info # 0 => PageBytes(p) \cap Bytes(m.info, InfoSize) = {}

\* What docs/MEMORY.md lets the kernel use: not the bytes of the map itself (its
\* line 73) either, nor what an entry of the map reserves (line 85).
Usable(m, p) ==
    /\ Available(m, p) /\ Spared(m, p)
    /\ HasMap(m) =>
        /\ PageBytes(p) \cap Bytes(m.mapAt, m.mapLength) = {}
        /\ \A e \in m.map : ~e.available => PageBytes(p) \cap Bytes(e.base, e.length) = {}

\* A boot loader that puts the map where hnm_pmm_reserve_kernel_ranges keeps it,
\* in low memory or right behind its structure, and reports no byte both as
\* available and as reserved.
Tidy(m) ==
    HasMap(m) =>
        /\ Bytes(m.mapAt, m.mapLength) \subseteq Bytes(0, KernelEnd) \union Bytes(m.info, PageSize)
        /\ \A e, r \in m.map :
            e.available /\ ~r.available => Bytes(e.base, e.length) \cap Bytes(r.base, r.length) = {}

\* The pages that are handed out or can be, but for those that a stray caller
\* has put there.
Offered == (free \union held \union HeapPages) \ astray

\* No page is offered that is not available and spared, whatever the rounding
\* and the 32-bit arithmetic of hnm_pmm_init do with unaligned, huge or
\* overlapping regions; with a tidy boot loader all of them are usable.
HandedOutIsAvailable ==
    \A p \in Offered :
        /\ Available(machine, p) /\ Spared(machine, p)
        /\ Tidy(machine) => Usable(machine, p)

\* docs/MEMORY.md:68-74,85: whatever the map says, the kernel counts none of
\* these areas as usable.
HandedOutIsUsable == \A p \in Offered : Usable(machine, p)

\* A page has one owner: the bitmap, a caller of the page allocator or the heap.
\* A stray call costs only the owner of that page its page.
OneOwner ==
    /\ free \cap held \subseteq astray
    /\ HeapPages \cap (free \union held) \subseteq astray

Span(b) == Bytes(b.address, b.size)

\* The blocks whose page nobody else has given back.
Kept == {b \in blocks : PageOf(b) \notin astray}

\* Blocks of the heap do not overlap, start aligned and do not leave their
\* page, whose neighbour may be somebody else's.  A request that was granted
\* without room, and a page that went astray, do not cost others their room.
BlocksApart ==
    /\ Kept = blocks => Cardinality(blocks) + roomless = heapStats.allocations
    /\ \A b, c \in Kept : b # c => Span(b) \cap Span(c) = {}
    /\ \A b \in blocks : b.address % Alignment = 0 /\ Span(b) \subseteq PageBytes(PageOf(b))

\* A page is refused only when none is free: the search of
\* hnm_pmm_alloc_page misses none, wherever it starts.
RefusesOnlyWhenFull == OutOfPages <=> free = {}

\* Every page that hnm_pmm_init left free is still accounted for: it is free, a
\* caller's or the heap's, and the heap's page count says how many of the last
\* kind there are.  A page that hnm_kmalloc leaves for a new one is full of
\* blocks, not forgotten.
NoPageIsLost ==
    /\ BootFree(machine) \subseteq free \union held \union HeapPages
    /\ astray = {} => Cardinality(HeapPages) = heapStats.pages

=============================================================================
