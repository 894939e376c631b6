----------------------------- MODULE AddrSpace -----------------------------
(***************************************************************************)
(* User address spaces: the areas, the page table and the physical frames  *)
(* under sys_mmap, sys_munmap, sys_mprotect, page faults, fork and the     *)
(* drop of an address space.  The lock of the address space makes each     *)
(* call one step; a page fault is taken (Access) before the handler gets   *)
(* the lock (HandlePageFault), and other threads run in between.           *)
(*                                                                         *)
(* Areas are kept per page: what MemorySet splits and merges makes no      *)
(* difference to any operation here.  The unmapped page or frame is None.  *)
(***************************************************************************)
EXTENDS Naturals, FiniteSets

CONSTANTS Spaces,    \* address spaces; First is the one of the first process
          First,
          Threads,
          SpaceOf,   \* SpaceOf[t]: the address space of a thread
          Pages,     \* page numbers of the user range
          Heap,      \* the pages of the heap that load_user_app maps
          Frames, None,
          MaxCalls,  \* bound: calls of mmap, munmap and mprotect
          Values     \* contents of a page; 0 is the zeroed page

\* PROT_NONE, whose entries the page tables of the architectures treat
\* differently, is left out.
Prots == {{"r"}, {"r", "w"}}

Areas == [prot : Prots, populate : BOOLEAN]

ASSUME AddrSpaceAssumption ==
    /\ First \in Spaces /\ SpaceOf \in [Threads -> Spaces]
    /\ Heap \subseteq Pages /\ Pages \subseteq Nat /\ IsFiniteSet(Pages)
    /\ IsFiniteSet(Frames) /\ IsFiniteSet(Threads)
    /\ None \notin Frames \cup Areas /\ 0 \in Values /\ MaxCalls \in Nat

VARIABLES
    live,   \* address spaces in use
    area,   \* area[s][v]: protection and populate flag of the area of page v, or None
    pt,     \* pt[s][v]: the frame that page v is mapped to, or None
    flags,  \* flags[s][v]: the protection in the page table entry of page v
    free,   \* free frames
    data,   \* contents of the frames
    pc,     \* run, fault, dead (of SIGSEGV), exited
    fault,  \* the page and the access of a fault
    calls   \* calls of mmap, munmap and mprotect so far

vars == <<live, area, pt, flags, free, data, pc, fault, calls>>

NoMap == [v \in Pages |-> None]
NoFlags == [v \in Pages |-> {}]

\* load_user_app has mapped the heap, with frames.
Init ==
    /\ live = {First}
    /\ \E f \in [Heap -> Frames] :
        /\ \A u, v \in Heap : f[u] = f[v] => u = v
        /\ pt = [s \in Spaces |-> [v \in Pages |->
                    IF s = First /\ v \in Heap THEN f[v] ELSE None]]
        /\ free = Frames \ {f[v] : v \in Heap}
    /\ area = [s \in Spaces |-> [v \in Pages |->
                    IF s = First /\ v \in Heap
                    THEN [prot |-> {"r", "w"}, populate |-> TRUE] ELSE None]]
    /\ flags = [s \in Spaces |-> [v \in Pages |->
                    IF s = First /\ v \in Heap THEN {"r", "w"} ELSE {}]]
    /\ data = [f \in Frames |-> 0]
    /\ pc = [t \in Threads |-> "run"]
    /\ fault = [t \in Threads |-> <<0, "r">>]
    /\ calls = 0

\* Ranges of pages that a call may name.
Ranges == {R \in SUBSET Pages : /\ R # {}
                                /\ \A u, w \in R, v \in Pages : u <= v /\ v <= w => v \in R}

Runs(t) == pc[t] = "run" /\ SpaceOf[t] \in live

Call(t) == Runs(t) /\ calls < MaxCalls /\ calls' = calls + 1

\* The frames of the pages R of s.
FramesOf(s, R) == {pt[s][v] : v \in R} \ {None}

\* The pages of R that get a frame of F when they are filled in order.
Filled(R, F) == {v \in R : Cardinality({u \in R : u < v}) < Cardinality(F)}

\* alloc_frame for every page of R: frames of F, none twice.
Alloc(R, F) == {f \in [R -> F] : \A u, v \in R : f[u] = f[v] => u = v}

\* m with the pages R set to f, or to x.
Mapped(m, R, f) == [v \in Pages |-> IF v \in R THEN f[v] ELSE m[v]]
Cleared(m, R, x) == [v \in Pages |-> IF v \in R THEN x ELSE m[v]]

\* The contents after frame f[v] of each page v of R was filled with d[v].
Filling(R, f, d) ==
    [g \in Frames |-> IF \E v \in R : f[v] = g
                      THEN d[CHOOSE v \in R : f[v] = g] ELSE data[g]]

Zeroes(R) == [v \in R |-> 0]
-----------------------------------------------------------------------------
\* sys_mmap: with MAP_FIXED the range is unmapped first; a range that
\* find_free_area chose has nothing to unmap.  A populated mapping (of a file)
\* takes frames at once, as long as there are any, and d is what it then reads:
\* zeroes where the file ends or reading fails, and the mapping stays even so.
Mmap(t, R, prot, populate) ==
    LET s == SpaceOf[t]
        avail == free \cup FramesOf(s, R)
        got == IF populate THEN Filled(R, avail) ELSE {} IN
    /\ Call(t)
    /\ area' = [area EXCEPT ![s] = Cleared(@, R, [prot |-> prot, populate |-> populate])]
    /\ \E f \in Alloc(got, avail), d \in [got -> Values] :
        /\ pt' = [pt EXCEPT ![s] = Mapped(Cleared(@, R, None), got, f)]
        /\ free' = avail \ {f[v] : v \in got}
        /\ data' = Filling(got, f, d)
    /\ flags' = [flags EXCEPT ![s] =
                    Mapped(Cleared(@, R, {}), got, [v \in got |-> prot])]
    /\ UNCHANGED <<live, pc, fault>>

\* A mutant: the frames are not given back.
MunmapLeaks(t, R) ==
    LET s == SpaceOf[t] IN
    /\ Call(t)
    /\ area' = [area EXCEPT ![s] = Cleared(@, R, None)]
    /\ pt' = [pt EXCEPT ![s] = Cleared(@, R, None)]
    /\ flags' = [flags EXCEPT ![s] = Cleared(@, R, {})]
    /\ UNCHANGED <<live, free, data, pc, fault>>

\* A mutant: the page table keeps its entries.
MunmapKeepsEntries(t, R) ==
    LET s == SpaceOf[t] IN
    /\ Call(t)
    /\ area' = [area EXCEPT ![s] = Cleared(@, R, None)]
    /\ free' = free \cup FramesOf(s, R)
    /\ UNCHANGED <<live, pt, flags, data, pc, fault>>

\* sys_munmap: the areas and the entries of the range go, and the frames with them.
Munmap(t, R) ==
    LET s == SpaceOf[t] IN
    /\ Call(t)
    /\ area' = [area EXCEPT ![s] = Cleared(@, R, None)]
    /\ pt' = [pt EXCEPT ![s] = Cleared(@, R, None)]
    /\ flags' = [flags EXCEPT ![s] = Cleared(@, R, {})]
    /\ free' = free \cup FramesOf(s, R)
    /\ UNCHANGED <<live, data, pc, fault>>

\* populate_area: the pages of R before the first hole, and those of them that
\* are to be filled.
BeforeHole(s, R) == {v \in R : \A u \in R : u <= v => area[s][u] # None}
Unfilled(s, R) == {v \in BeforeHole(s, R) : ~area[s][v].populate /\ pt[s][v] = None}

\* sys_mprotect: fills pages until there are no frames; only if all went well is
\* the protection changed, in the areas and in the entries (pages of populated
\* areas that have no entry are passed over).
Mprotect(t, R, prot) ==
    LET s == SpaceOf[t]
        got == Filled(Unfilled(s, R), free)
        ok == BeforeHole(s, R) = R /\ got = Unfilled(s, R)
        NewProt(v) == IF ok /\ v \in R THEN prot ELSE area[s][v].prot IN
    /\ Call(t)
    /\ \E f \in Alloc(got, free) :
        /\ pt' = [pt EXCEPT ![s] = Mapped(@, got, f)]
        /\ free' = free \ {f[v] : v \in got}
        /\ data' = Filling(got, f, Zeroes(got))
    /\ flags' = [flags EXCEPT ![s] = [v \in Pages |->
            IF v \in got \/ (ok /\ v \in R /\ pt[s][v] # None) THEN NewProt(v) ELSE @[v]]]
    /\ area' = [area EXCEPT ![s] = [v \in Pages |->
            IF ok /\ v \in R THEN [@[v] EXCEPT !.prot = prot] ELSE @[v]]]
    /\ UNCHANGED <<live, pc, fault>>
-----------------------------------------------------------------------------
Hit(t, v, acc) == pt[SpaceOf[t]][v] # None /\ acc \in flags[SpaceOf[t]][v]

\* An access that the page table does not allow traps.
Access(t, v, acc) ==
    /\ Runs(t) /\ ~Hit(t, v, acc)
    /\ pc' = [pc EXCEPT ![t] = "fault"]
    /\ fault' = [fault EXCEPT ![t] = <<v, acc>>]
    /\ UNCHANGED <<live, area, pt, flags, free, data, calls>>

\* A store that it allows.
Write(t, v, x) ==
    /\ Runs(t) /\ Hit(t, v, "w")
    /\ data' = [data EXCEPT ![pt[SpaceOf[t]][v]] = x]
    /\ UNCHANGED <<live, area, pt, flags, free, pc, fault, calls>>

\* AddrSpace::handle_page_fault finds an area that allows the access and takes
\* its frames on demand.
Legal(t) ==
    LET a == area[SpaceOf[t]][fault[t][1]] IN
    a # None /\ fault[t][2] \in a.prot /\ ~a.populate

\* handle_page_fault_alloc, which got the frame f: mapping it fails if the page
\* is mapped by now; the frame is then lost.
FaultAlloc(t, f) ==
    LET s == SpaceOf[t]
        v == fault[t][1]
        ok == pt[s][v] = None IN
    /\ free' = free \ {f}
    /\ data' = [data EXCEPT ![f] = 0]
    /\ pt' = IF ok THEN [pt EXCEPT ![s][v] = f] ELSE pt
    /\ flags' = IF ok THEN [flags EXCEPT ![s][v] = area[s][v].prot] ELSE flags
    /\ pc' = [pc EXCEPT ![t] = IF ok THEN "run" ELSE "dead"]

\* The handler of the trap: do_exit(SIGSEGV) if the fault is not handled, which
\* is also the case without free frames.
HandlePageFault(t) ==
    /\ pc[t] = "fault"
    /\ \/ Legal(t) /\ \E f \in free : FaultAlloc(t, f)
       \/ /\ ~Legal(t) \/ free = {}
          /\ pc' = [pc EXCEPT ![t] = "dead"]
          /\ UNCHANGED <<pt, flags, free, data>>
    /\ fault' = [fault EXCEPT ![t] = <<0, "r">>]
    /\ UNCHANGED <<live, area, calls>>
-----------------------------------------------------------------------------
\* The pages of s that a copy of s must have, and those for which it takes frames.
Present(s) == {v \in Pages : pt[s][v] # None}
Wanted(s) == Present(s) \cup {v \in Pages : area[s][v] # None /\ area[s][v].populate}

\* A mutant: clone_or_err maps the pages of the parent again.
ForkShares(t, n) ==
    LET s == SpaceOf[t] IN
    /\ Runs(t) /\ n \notin live /\ \A u \in Threads : SpaceOf[u] = n => pc[u] = "run"
    /\ live' = live \cup {n}
    /\ area' = [area EXCEPT ![n] = area[s]]
    /\ pt' = [pt EXCEPT ![n] = pt[s]]
    /\ flags' = [flags EXCEPT ![n] = flags[s]]
    /\ UNCHANGED <<free, data, pc, fault, calls>>

\* A mutant: the pages mapped on demand are not copied.
ForkSkipsLazy(t, n) ==
    LET s == SpaceOf[t] IN
    /\ Runs(t) /\ n \notin live /\ \A u \in Threads : SpaceOf[u] = n => pc[u] = "run"
    /\ live' = live \cup {n}
    /\ area' = [area EXCEPT ![n] = area[s]]
    /\ UNCHANGED <<pt, flags, free, data, pc, fault, calls>>

\* sys_clone without CLONE_VM: clone_or_err maps the areas of the parent in a new
\* address space, populated areas with as many frames as there are, and copies
\* every page the parent has; if a frame is missing for one of those, all is undone.
Fork(t, n) ==
    LET s == SpaceOf[t] IN
    /\ Runs(t) /\ n \notin live /\ \A u \in Threads : SpaceOf[u] = n => pc[u] = "run"
    /\ live' = live \cup {n}
    /\ area' = [area EXCEPT ![n] = area[s]]
    /\ \E got \in SUBSET Wanted(s) :
        /\ Present(s) \subseteq got
        /\ got = Wanted(s) \/ Cardinality(got) = Cardinality(free)
        /\ \E f \in Alloc(got, free) :
            /\ pt' = [pt EXCEPT ![n] = Mapped(NoMap, got, f)]
            /\ free' = free \ {f[v] : v \in got}
            /\ data' = Filling(got, f, [v \in got |->
                            IF v \in Present(s) THEN data[pt[s][v]] ELSE 0])
        /\ flags' = [flags EXCEPT ![n] =
                        Mapped(NoFlags, got, [v \in got |-> area[s][v].prot])]
    /\ UNCHANGED <<pc, fault, calls>>

\* The threads that are left exit.  They do so one by one, but a thread that has
\* gone and one that makes no call are the same to the address space.
Exit(s) ==
    /\ s \in live /\ \A t \in Threads : SpaceOf[t] = s => pc[t] # "fault"
    /\ pc' = [t \in Threads |-> IF SpaceOf[t] = s /\ pc[t] = "run" THEN "exited" ELSE pc[t]]
    /\ pc' # pc
    /\ UNCHANGED <<live, area, pt, flags, free, data, fault, calls>>

\* AddrSpace::drop, once the last thread is gone: the mappings are cleared.
DropSpace(s) ==
    /\ s \in live /\ \A t \in Threads : SpaceOf[t] = s => pc[t] \in {"dead", "exited"}
    /\ live' = live \ {s}
    /\ area' = [area EXCEPT ![s] = NoMap]
    /\ pt' = [pt EXCEPT ![s] = NoMap]
    /\ flags' = [flags EXCEPT ![s] = NoFlags]
    /\ free' = free \cup FramesOf(s, Pages)
    /\ UNCHANGED <<data, pc, fault, calls>>

Next ==
    \/ \E t \in Threads, R \in Ranges, prot \in Prots :
        \/ \E populate \in BOOLEAN : Mmap(t, R, prot, populate)
        \/ Mprotect(t, R, prot)
    \/ \E t \in Threads, R \in Ranges : Munmap(t, R)
    \/ \E t \in Threads, v \in Pages : \/ \E acc \in {"r", "w"} : Access(t, v, acc)
                                       \/ \E x \in Values : Write(t, v, x)
    \/ \E t \in Threads : HandlePageFault(t)
    \/ \E t \in Threads, n \in Spaces : Fork(t, n)
    \/ \E s \in Spaces : Exit(s) \/ DropSpace(s)

Spec == Init /\ [][Next]_vars
-----------------------------------------------------------------------------
Owned == UNION {FramesOf(s, Pages) : s \in Spaces}

\* The type of the state.
TypeOK ==
    /\ live \subseteq Spaces
    /\ area \in [Spaces -> [Pages -> Areas \cup {None}]]
    /\ pt \in [Spaces -> [Pages -> Frames \cup {None}]]
    /\ flags \in [Spaces -> [Pages -> Prots \cup {{}}]]
    /\ free \subseteq Frames /\ data \in [Frames -> Values]
    /\ pc \in [Threads -> {"run", "fault", "dead", "exited"}]
    /\ calls \in 0..MaxCalls
    /\ fault \in [Threads -> (Pages \cup {0}) \X {"r", "w"}]

\* No frame backs two pages, of one address space or of two, and no page is backed
\* by a frame the allocator considers free: whatever mmap, munmap, page faults and
\* forks do, a store reaches one page of one process (alloc_frame, unmap_alloc).
FramesDisjoint ==
    /\ Owned \cap free = {}
    /\ \A s, s2 \in Spaces, v, v2 \in Pages :
        pt[s][v] # None /\ pt[s][v] = pt[s2][v2] => s = s2 /\ v = v2

\* The page table never allows what the areas do not: every entry lies in an area
\* and has its protection, also after a protect that failed half-way (protect).
EntriesFollowAreas ==
    \A s \in Spaces, v \in Pages :
        pt[s][v] # None => area[s][v] # None /\ flags[s][v] = area[s][v].prot

\* Frames are lost only by a page fault that killed its thread: apart from at most
\* one for each such thread, every frame is free or mapped (unmap_alloc, drop).
LossBounded ==
    Cardinality(Frames \ (free \cup Owned)) <= Cardinality({t \in Threads : pc[t] = "dead"})

\* What a program reads at a page.
View(s, v) == IF pt[s][v] = None THEN 0 ELSE data[pt[s][v]]

\* A forked process has the areas of its parent and reads what the parent reads at
\* every page, and the parent still reads what it did (clone_or_err).
ForkCopies ==
    [][\A n \in live' \ live : \E s \in live :
        /\ area'[n] = area[s]
        /\ \A v \in Pages : View(n, v)' = View(s, v) /\ View(s, v)' = View(s, v)]_vars

\* "Returns `true` if the page fault is handled successfully (not a real fault)"
\* (handle_page_fault): a thread does not die of a fault at a page whose area
\* allows the access while there are frames.
SegvIsRealFault ==
    [][\A t \in Threads : pc[t] = "fault" /\ pc'[t] = "dead" => ~(Legal(t) /\ free # {})]_vars

\* A frame of memory backs one page of one address space, or is free: a store never
\* reaches a page of somebody else.
FramesKept == TypeOK /\ FramesDisjoint
=============================================================================
