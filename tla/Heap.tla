-------------------------------- MODULE Heap --------------------------------
(***************************************************************************)
(* The kernel's memory: the page allocator, the byte allocator above it    *)
(* (GlobalAllocator), the pages handed out as GlobalPage, and the coherent *)
(* memory of axdma, whose pages are remapped uncached.                     *)
(*                                                                         *)
(* Memory is a line of units, PAGE_SIZE of them to a page.  What the       *)
(* allocators of the crate "allocator" choose is left open: any free run   *)
(* of pages, any free run of bytes within one region given to a byte       *)
(* allocator, the first OVERHEAD units of a region excepted.               *)
(***************************************************************************)
EXTENDS Integers, Sequences, FiniteSets, FiniteSetsExt

CONSTANTS
    HeapTasks,
    PAGE_SIZE, MIN_HEAP_SIZE, OVERHEAD,
    DMA_PAGES,      \* pages the DMA allocator asks for at once
    RegionLists,    \* sequences of memory regions [start, size, free]
    ByteSizes, PageCounts, DmaSizes,
    MaxHeld         \* bound: blocks a task holds

VARIABLES
    regions, heapUp,
    pagesFree,      \* set of page addresses the page allocator has
    heap, dmaHeap,  \* regions <<start, size>> of the two byte allocators
    uncached,       \* page addresses mapped uncached
    balloc, dma,    \* holders of the two locks
    heapPc, heapArg, heapGot,
    held            \* task -> blocks [k, start, size] it holds

heapVars == <<regions, heapUp, pagesFree, heap, dmaHeap, uncached, balloc, dma, heapPc, heapArg, heapGot, held>>

Unlocked == "none"
Units(a, n) == a..(a + n - 1)
PagesOf(a, n) == {p \in Units(a, n) : p % PAGE_SIZE = 0}
Span(b) == Units(b.start, b.size)
AllHeld == UNION {held[t] : t \in HeapTasks}

HeapInit ==
    /\ regions \in RegionLists
    /\ heapUp = FALSE
    /\ pagesFree = {} /\ heap = {} /\ dmaHeap = {} /\ uncached = {}
    /\ balloc = Unlocked /\ dma = Unlocked
    /\ heapPc = [t \in HeapTasks |-> "out"]
    /\ heapArg = [t \in HeapTasks |-> 0]
    /\ heapGot = [t \in HeapTasks |-> 0]
    /\ held = [t \in HeapTasks |-> {}]

(* init_allocator(): the largest free region, the first one of that size,  *)
(* goes to the page allocator, the heap starts with pages of it; the other *)
(* free regions go to the byte allocator.                                  *)
InitHeap ==
    LET n == DOMAIN regions
        size == Max({regions[i].size : i \in {j \in n : regions[j].free}})
        big == regions[Min({i \in n : regions[i].free /\ regions[i].size = size})]
        rest == {<<regions[i].start, regions[i].size>> :
                    i \in {j \in n : regions[j].free /\ regions[j].start # big.start}}
    IN  /\ ~heapUp /\ size > MIN_HEAP_SIZE
        /\ heapUp' = TRUE
        /\ \E a \in PagesOf(big.start, big.size) :
               /\ Units(a, MIN_HEAP_SIZE) \subseteq Units(big.start, big.size)
               /\ pagesFree' = PagesOf(big.start, big.size) \ PagesOf(a, MIN_HEAP_SIZE)
               /\ heap' = rest \cup {<<a, MIN_HEAP_SIZE>>}
        /\ UNCHANGED <<regions, dmaHeap, uncached, balloc, dma, heapPc, heapArg, heapGot, held>>

-----------------------------------------------------------------------------
(* The allocators underneath.                                              *)

PageRuns(n) == IF n = 0 THEN {}
               ELSE {a \in pagesFree : PagesOf(a, n * PAGE_SIZE) \subseteq pagesFree
                                       /\ Cardinality(PagesOf(a, n * PAGE_SIZE)) = n}

ByteRuns(h, kind, n) ==
    {a \in UNION {Units(r[1] + OVERHEAD, r[2] - OVERHEAD) : r \in h} :
        /\ \E r \in h : Units(a, n) \subseteq Units(r[1] + OVERHEAD, r[2] - OVERHEAD)
        /\ \A b \in AllHeld : b.k = kind => Units(a, n) \cap Span(b) = {}}

TotalBytes(h) == MapThenSumSet(LAMBDA r : r[2], h)

RECURSIVE PowerOfTwo(_, _)
PowerOfTwo(n, p) == IF p >= n THEN p ELSE PowerOfTwo(n, 2 * p)
next_power_of_two(n) == PowerOfTwo(n, 1)

-----------------------------------------------------------------------------

HeapCall(t, pc, arg) ==
    /\ heapUp /\ heapPc[t] = "out" /\ Cardinality(held[t]) < MaxHeld
    /\ heapPc' = [heapPc EXCEPT ![t] = pc]
    /\ heapArg' = [heapArg EXCEPT ![t] = arg]
    /\ UNCHANGED <<regions, heapUp, pagesFree, heap, dmaHeap, uncached, balloc, dma, heapGot, held>>

At2(t, pcs, to) ==
    /\ heapPc[t] \in pcs
    /\ heapPc' = [heapPc EXCEPT ![t] = to]
    /\ UNCHANGED <<regions, heapUp>>

(* GlobalAllocator::alloc(): under the lock of the byte allocator.         *)
AllocFound(t) ==
    /\ balloc \in {Unlocked, t}
    /\ \E a \in ByteRuns(heap, "byte", heapArg[t]) :
           held' = [held EXCEPT ![t] = @ \cup {[k |-> "byte", start |-> a, size |-> heapArg[t]]}]
    /\ balloc' = Unlocked
    /\ At2(t, {"alloc"}, "out")
    /\ UNCHANGED <<pagesFree, heap, dmaHeap, uncached, dma, heapArg, heapGot>>

AllocFull(t) ==
    /\ balloc \in {Unlocked, t}
    /\ ByteRuns(heap, "byte", heapArg[t]) = {}
    /\ balloc' = t
    /\ At2(t, {"alloc"}, "expand")
    /\ UNCHANGED <<pagesFree, heap, dmaHeap, uncached, dma, heapArg, heapGot, held>>

(* The heap grows to at least twice its size.                              *)
ExpandSize(t) == Max({next_power_of_two(Max({TotalBytes(heap), heapArg[t]})), PAGE_SIZE})

MutExpand(t) ==
    LET size == ExpandSize(t)
    IN  /\ heapPc[t] = "expand"
        /\ \/ /\ PageRuns(size \div PAGE_SIZE) = {}
              /\ balloc' = Unlocked /\ At2(t, {"expand"}, "out") /\ UNCHANGED <<pagesFree, heap>>
           \/ \E a \in PageRuns(size \div PAGE_SIZE) :
              /\ pagesFree' = pagesFree \ {a}
              /\ heap' = heap \cup {<<a, size>>}
              /\ UNCHANGED balloc /\ At2(t, {"expand"}, "alloc")
        /\ UNCHANGED <<dmaHeap, uncached, dma, heapArg, heapGot, held>>

(* alloc_pages() and add_memory(); without pages the call fails.           *)
Expand(t) ==
    LET size == ExpandSize(t)
    IN  /\ heapPc[t] = "expand"
        /\ \/ /\ PageRuns(size \div PAGE_SIZE) = {}
              /\ balloc' = Unlocked /\ At2(t, {"expand"}, "out") /\ UNCHANGED <<pagesFree, heap>>
           \/ \E a \in PageRuns(size \div PAGE_SIZE) :
              /\ pagesFree' = pagesFree \ PagesOf(a, size)
              /\ heap' = heap \cup {<<a, size>>}
              /\ UNCHANGED balloc /\ At2(t, {"expand"}, "alloc")
        /\ UNCHANGED <<dmaHeap, uncached, dma, heapArg, heapGot, held>>

Dealloc(t, b) ==
    /\ heapPc[t] = "out" /\ b \in held[t] /\ b.k = "byte" /\ balloc = Unlocked
    /\ held' = [held EXCEPT ![t] = @ \ {b}]
    /\ UNCHANGED <<regions, heapUp, pagesFree, heap, dmaHeap, uncached, balloc, dma, heapPc, heapArg, heapGot>>

(* GlobalPage: one call of the page allocator.                             *)
PageAlloc(t, n) ==
    /\ heapUp /\ heapPc[t] = "out" /\ Cardinality(held[t]) < MaxHeld
    /\ \E a \in PageRuns(n) :
           /\ pagesFree' = pagesFree \ PagesOf(a, n * PAGE_SIZE)
           /\ held' = [held EXCEPT ![t] = @ \cup {[k |-> "page", start |-> a, size |-> n * PAGE_SIZE]}]
    /\ UNCHANGED <<regions, heapUp, heap, dmaHeap, uncached, balloc, dma, heapPc, heapArg, heapGot>>

PageDrop(t, b) ==
    /\ heapPc[t] = "out" /\ b \in held[t] /\ b.k = "page"
    /\ pagesFree' = pagesFree \cup PagesOf(b.start, b.size)
    /\ held' = [held EXCEPT ![t] = @ \ {b}]
    /\ UNCHANGED <<regions, heapUp, heap, dmaHeap, uncached, balloc, dma, heapPc, heapArg, heapGot>>

-----------------------------------------------------------------------------
(* Coherent memory; ALLOCATOR is locked for the whole of a call.           *)

Large(n) == n >= PAGE_SIZE
LayoutPages(n) == (n + PAGE_SIZE - 1) \div PAGE_SIZE

DmaLock(t) ==
    /\ dma = Unlocked /\ dma' = t
    /\ At2(t, {"dma"}, IF Large(heapArg[t]) THEN "dpages" ELSE "dbytes")
    /\ UNCHANGED <<pagesFree, heap, dmaHeap, uncached, balloc, heapArg, heapGot, held>>

(* alloc_coherent_pages().                                                 *)
DmaPages(t) ==
    LET n == LayoutPages(heapArg[t])
    IN  /\ heapPc[t] = "dpages"
        /\ \/ /\ PageRuns(n) = {}
              /\ dma' = Unlocked /\ At2(t, {"dpages"}, "out") /\ UNCHANGED <<pagesFree, heapGot>>
           \/ \E a \in PageRuns(n) :
              /\ pagesFree' = pagesFree \ PagesOf(a, n * PAGE_SIZE)
              /\ heapGot' = [heapGot EXCEPT ![t] = a]
              /\ UNCHANGED dma /\ At2(t, {"dpages"}, "dflags")
        /\ UNCHANGED <<heap, dmaHeap, uncached, balloc, heapArg, held>>

(* update_flags(), and the call returns.                                   *)
DmaPagesFlags(t) ==
    LET n == LayoutPages(heapArg[t]) * PAGE_SIZE
    IN  /\ uncached' = uncached \cup PagesOf(heapGot[t], n)
        /\ held' = [held EXCEPT ![t] = @ \cup {[k |-> "coherent", start |-> heapGot[t], size |-> n]}]
        /\ dma' = Unlocked
        /\ At2(t, {"dflags"}, "out")
        /\ UNCHANGED <<pagesFree, heap, dmaHeap, balloc, heapArg, heapGot>>

(* alloc_coherent_bytes(): one expansion, of as many pages as there are up *)
(* to DMA_PAGES; the count may be stale when the pages are asked for.  The *)
(* lock is kept, so the bytes are there after an expansion, and the error  *)
(* of a second failure is never returned.                                  *)
DmaBytes(t) ==
    /\ heapPc[t] \in {"dbytes", "dbytes2"}
    /\ \/ /\ \E a \in ByteRuns(dmaHeap, "dma", heapArg[t]) :
                held' = [held EXCEPT ![t] = @ \cup {[k |-> "dma", start |-> a, size |-> heapArg[t]]}]
          /\ dma' = Unlocked /\ At2(t, {"dbytes", "dbytes2"}, "out") /\ UNCHANGED heapGot
       \/ /\ ByteRuns(dmaHeap, "dma", heapArg[t]) = {}
          /\ heapGot' = [heapGot EXCEPT ![t] = Min({DMA_PAGES, Cardinality(pagesFree)})]
          /\ At2(t, {"dbytes"}, "dgrow") /\ UNCHANGED <<held, dma>>
    /\ UNCHANGED <<pagesFree, heap, dmaHeap, uncached, balloc, heapArg>>

DmaGrow(t) ==
    LET n == heapGot[t]
    IN  /\ heapPc[t] = "dgrow"
        /\ \/ /\ PageRuns(n) = {}
              /\ dma' = Unlocked /\ At2(t, {"dgrow"}, "out") /\ UNCHANGED <<pagesFree, uncached, dmaHeap>>
           \/ \E a \in PageRuns(n) :
              /\ pagesFree' = pagesFree \ PagesOf(a, n * PAGE_SIZE)
              /\ uncached' = uncached \cup PagesOf(a, n * PAGE_SIZE)
              /\ dmaHeap' = dmaHeap \cup {<<a, n * PAGE_SIZE>>}
              /\ UNCHANGED dma /\ At2(t, {"dgrow"}, "dbytes2")
        /\ UNCHANGED <<heap, balloc, heapArg, heapGot, held>>

DmaFreeBytes(t, b) ==
    /\ heapPc[t] = "out" /\ b \in held[t] /\ b.k = "dma" /\ dma = Unlocked
    /\ held' = [held EXCEPT ![t] = @ \ {b}]
    /\ UNCHANGED <<regions, heapUp, pagesFree, heap, dmaHeap, uncached, balloc, dma, heapPc, heapArg, heapGot>>

(* dealloc_coherent(): the pages are given back before they are remapped.  *)
DmaFreePages(t, b) ==
    /\ heapPc[t] = "out" /\ b \in held[t] /\ b.k = "coherent" /\ dma = Unlocked
    /\ dma' = t
    /\ pagesFree' = pagesFree \cup PagesOf(b.start, b.size)
    /\ held' = [held EXCEPT ![t] = @ \ {b}]
    /\ heapGot' = [heapGot EXCEPT ![t] = b.start]
    /\ heapArg' = [heapArg EXCEPT ![t] = b.size]
    /\ heapPc' = [heapPc EXCEPT ![t] = "dcached"]
    /\ UNCHANGED <<regions, heapUp, heap, dmaHeap, uncached, balloc>>

DmaCached(t) ==
    /\ uncached' = uncached \ PagesOf(heapGot[t], heapArg[t])
    /\ dma' = Unlocked
    /\ At2(t, {"dcached"}, "out")
    /\ UNCHANGED <<pagesFree, heap, dmaHeap, balloc, heapArg, heapGot, held>>

HeapStep(t) ==
    \/ AllocFound(t) \/ AllocFull(t) \/ Expand(t)
    \/ DmaLock(t) \/ DmaPages(t) \/ DmaPagesFlags(t) \/ DmaBytes(t) \/ DmaGrow(t) \/ DmaCached(t)

HeapNext ==
    \/ InitHeap
    \/ \E t \in HeapTasks :
        \/ \E n \in ByteSizes : HeapCall(t, "alloc", n)
        \/ \E n \in DmaSizes : HeapCall(t, "dma", n)
        \/ \E n \in PageCounts : PageAlloc(t, n)
        \/ \E b \in held[t] : Dealloc(t, b) \/ PageDrop(t, b) \/ DmaFreeBytes(t, b) \/ DmaFreePages(t, b)
        \/ HeapStep(t)

HeapSpec == HeapInit /\ [][HeapNext]_heapVars

-----------------------------------------------------------------------------

RegionUnits(h) == UNION {Units(r[1], r[2]) : r \in h}

(* Memory has one owner: blocks handed out never overlap, byte blocks lie  *)
(* in the heap they came from, the two heaps, the pages handed out and the *)
(* free pages are apart, and all of it is memory the boot loader said is   *)
(* free.  A block of coherent memory is uncached as long as it is held,    *)
(* though its pages may have been freed and remapped by another task, and  *)
(* no other page stays uncached.                                           *)
MemoryOwnedOnce ==
    LET own == RegionUnits(heap)
        coherent == RegionUnits(dmaHeap)
        free == UNION {Units(p, PAGE_SIZE) : p \in pagesFree}
        usable == UNION {Units(regions[i].start, regions[i].size) : i \in {j \in DOMAIN regions : regions[j].free}}
    IN  /\ \A b, c \in AllHeld : b # c => Span(b) \cap Span(c) = {}
        /\ \A t, u \in HeapTasks : t # u => held[t] \cap held[u] = {}
        /\ \A b \in AllHeld :
               CASE b.k = "byte" -> Span(b) \subseteq own
                 [] b.k = "dma" -> Span(b) \subseteq coherent
                 [] OTHER -> Span(b) \cap (own \cup coherent \cup free) = {}
        /\ own \cap coherent = {} /\ (own \cup coherent) \cap free = {}
        /\ own \cup coherent \cup free \subseteq usable
        /\ \A b \in AllHeld : b.k \in {"dma", "coherent"} =>
               \A u \in Span(b) : u - (u % PAGE_SIZE) \in uncached
        /\ dma = Unlocked => \A p \in uncached :
               p \in coherent \/ \E b \in AllHeld : b.k = "coherent" /\ p \in Span(b)

=============================================================================
