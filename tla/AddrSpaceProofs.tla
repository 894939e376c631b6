------------------------------- MODULE AddrSpaceProofs --------------------------
(***************************************************************************)
(* For any address spaces, threads, pages and frames: no frame backs two   *)
(* pages, the page table follows the areas, frames are lost only by the    *)
(* page faults that kill a thread, and fork copies.                        *)
(***************************************************************************)
EXTENDS AddrSpace, FiniteSetTheorems, TLAPS

\* An address space that is not in use maps nothing.
UnusedEmpty ==
    \A s \in Spaces \ live : \A v \in Pages : area[s][v] = None /\ pt[s][v] = None

\* A fault that waits for its handler is at a page.
FaultsAtPages == \A t \in Threads : pc[t] = "fault" => fault[t][1] \in Pages

\* The frames that are neither free nor mapped, and the threads that died.
Lost == Frames \ (free \cup Owned)
Dead == {t \in Threads : pc[t] = "dead"}

\* The inductive invariant.
IInv ==
    /\ TypeOK
    /\ UnusedEmpty /\ FaultsAtPages
    /\ FramesDisjoint
    /\ EntriesFollowAreas
    /\ LossBounded

\* A frame is mapped when some entry of some page table holds it.
LEMMA OwnedFrames ==
    ASSUME NEW g
    PROVE  g \in Owned <=> g # None /\ \E s \in Spaces : \E v \in Pages : pt[s][v] = g
BY DEF Owned, FramesOf

\* What changes a page table does it this way: the pages R of s give back their
\* frames, some of them get new ones, distinct and free by then.
Remapped(s, R, got, f) ==
    /\ R \subseteq Pages /\ got \subseteq R
    /\ f \in Alloc(got, free \cup FramesOf(s, R))
    /\ pt' \in [Spaces -> [Pages -> Frames \cup {None}]]
    /\ \A w \in Spaces \ {s} : pt'[w] = pt[w]
    /\ \A v \in Pages : pt'[s][v] = IF v \in got THEN f[v] ELSE IF v \in R THEN None ELSE pt[s][v]
    /\ free' = (free \cup FramesOf(s, R)) \ {f[v] : v \in got}

\* A frame backs one page of one address space.
LEMMA OneOwner ==
    ASSUME FramesDisjoint, NEW w \in Spaces, NEW w2 \in Spaces, NEW v \in Pages, NEW v2 \in Pages,
           pt[w][v] # None, pt[w][v] = pt[w2][v2]
    PROVE  w = w2 /\ v = v2
  BY SMTT(40) DEF FramesDisjoint

\* Whatever does so keeps frames apart and loses none.
LEMMA RemappedKeepsFrames ==
    ASSUME TypeOK, FramesDisjoint, NEW s \in Spaces, NEW R, NEW got, NEW f,
           Remapped(s, R, got, f)
    PROVE  /\ free' \subseteq Frames
           /\ FramesDisjoint'
           /\ Lost' \subseteq Lost
<1> USE AddrSpaceAssumption
<1> DEFINE avail == free \cup FramesOf(s, R)
<1>1. avail \subseteq Frames /\ None \notin avail
  BY DEF Remapped, TypeOK, FramesOf
<1>2. /\ \A v \in got : f[v] \in avail /\ v \in Pages
      /\ \A u, v \in got : f[u] = f[v] => u = v
  BY DEF Remapped, Alloc
<1>3. free' \subseteq Frames
  BY <1>1 DEF Remapped
<1>4. \A w \in Spaces, v \in Pages :
        pt'[w][v] # None => \/ w = s /\ v \in got /\ pt'[w][v] = f[v]
                            \/ /\ pt'[w][v] = pt[w][v]
                               /\ ~(w = s /\ v \in R)
  BY DEF Remapped
<1>5. \A w \in Spaces, v \in Pages :
        pt[w][v] # None /\ ~(w = s /\ v \in R) => pt[w][v] \notin avail
  <2> SUFFICES ASSUME NEW w \in Spaces, NEW v \in Pages, pt[w][v] # None, ~(w = s /\ v \in R),
                      pt[w][v] \in avail
               PROVE  FALSE
    BY Zenon
  <2>1. pt[w][v] \notin free
    BY OwnedFrames DEF FramesDisjoint
  <2>2. PICK u \in R : pt[s][u] = pt[w][v]
    BY <2>1 DEF FramesOf
  <2> QED BY <2>2 DEF FramesDisjoint, Remapped
<1>6. \A w, w2 \in Spaces, v, v2 \in Pages :
        pt'[w][v] # None /\ pt'[w][v] = pt'[w2][v2] => w = w2 /\ v = v2
  <2> SUFFICES ASSUME NEW w \in Spaces, NEW w2 \in Spaces, NEW v \in Pages, NEW v2 \in Pages,
                      pt'[w][v] # None, pt'[w][v] = pt'[w2][v2]
               PROVE  w = w2 /\ v = v2
    OBVIOUS
  <2>1. CASE w = s /\ v \in got /\ pt'[w][v] = f[v]
    BY <1>2, <1>4, <1>5, <2>1
  <2>2. CASE pt'[w][v] = pt[w][v] /\ ~(w = s /\ v \in R)
    <3>1. pt[w][v] \notin avail
      BY <1>5, <2>2
    <3>2. pt'[w2][v2] \notin avail /\ pt'[w2][v2] # None
      BY <2>2, <3>1
    <3>3. pt'[w2][v2] = pt[w2][v2]
      <4>1. (v2 \in got /\ pt'[w2][v2] = f[v2]) \/ pt'[w2][v2] = pt[w2][v2]
        BY <1>4, <3>2
      <4>2. v2 \in got => f[v2] \in avail
        BY <1>2
      <4> HIDE DEF avail
      <4> QED BY <3>2, <4>1, <4>2
    <3>4. pt[w][v] # None /\ pt[w][v] = pt[w2][v2]
      BY <2>2, <3>3, Zenon
    <3> QED BY <3>4, OneOwner, SMTT(40), Zenon
  <2> QED BY <1>4, <2>1, <2>2
<1>7. \A w \in Spaces, v \in Pages : pt'[w][v] # None => pt'[w][v] \notin free'
  BY <1>4, <1>5 DEF Remapped
<1>8. FramesDisjoint'
  <2>1. (Owned \cap free)' = {}
    BY <1>7 DEF Owned, FramesOf
  <2> QED BY <1>6, <2>1, Zenon DEF FramesDisjoint
<1>9. Lost' \subseteq Lost
  <2> SUFFICES ASSUME NEW g \in free \cup Owned PROVE g \in free' \cup Owned'
    BY DEF Lost
  <2>1. g \in avail => g \in free' \/ \E v \in got : pt'[s][v] = g
    BY <1>2 DEF Remapped
  <2>2. \A w \in Spaces, v \in Pages : ~(w = s /\ v \in R) => pt'[w][v] = pt[w][v]
    BY DEF Remapped
  <2>3. ASSUME NEW w \in Spaces, NEW v \in Pages, pt'[w][v] = g, g # None
        PROVE  g \in Owned'
    BY <2>3 DEF Owned, FramesOf
  <2>4. CASE g \in avail
    BY <1>1, <1>2, <2>1, <2>3, <2>4, Zenon
  <2>5. CASE g \notin avail
    <3>1. g \in Owned
      BY <2>5
    <3>2. PICK w \in Spaces, v \in Pages : pt[w][v] = g /\ g # None
      BY <3>1, OwnedFrames
    <3>3. ~(w = s /\ v \in R)
      BY <2>5, <3>2 DEF FramesOf
    <3> QED BY <2>2, <2>3, <3>2, <3>3
  <2> QED BY <2>4, <2>5
<1> QED BY <1>3, <1>8, <1>9

\* No frame is lost and no thread revived: the bound stays.
LEMMA LossStays ==
    ASSUME TypeOK, LossBounded, Lost' \subseteq Lost, Dead \subseteq Dead', Dead' \subseteq Threads
    PROVE  LossBounded'
<1>1. IsFiniteSet(Lost) /\ IsFiniteSet(Dead')
  BY AddrSpaceAssumption, FS_Subset DEF Lost
<1>2. Cardinality(Lost') <= Cardinality(Lost) /\ Cardinality(Lost') \in Nat /\ Cardinality(Lost) \in Nat
  BY <1>1, FS_Subset, FS_CardinalityType
<1>3. Cardinality(Dead) <= Cardinality(Dead') /\ Cardinality(Dead) \in Nat /\ Cardinality(Dead') \in Nat
  BY <1>1, FS_Subset, FS_CardinalityType
<1>4. Cardinality(Lost) <= Cardinality(Dead)
  BY DEF LossBounded, Lost, Dead
<1>5. Cardinality(Lost') <= Cardinality(Dead')
  BY <1>2, <1>3, <1>4
<1> QED BY <1>5 DEF LossBounded, Lost, Dead

\* Filling puts d[v] into the frame of v and leaves the other frames alone.
LEMMA FillingAt ==
    ASSUME TypeOK, NEW R, NEW F \in SUBSET Frames, NEW f \in Alloc(R, F), NEW d \in [R -> Values]
    PROVE  /\ Filling(R, f, d) \in [Frames -> Values]
           /\ \A v \in R : Filling(R, f, d)[f[v]] = d[v]
           /\ \A g \in Frames : (\A v \in R : f[v] # g) => Filling(R, f, d)[g] = data[g]
<1>1. \A v \in R : f[v] \in Frames
  BY DEF Alloc
<1>2. ASSUME NEW v \in R
      PROVE  (CHOOSE u \in R : f[u] = f[v]) = v
  <2>1. (CHOOSE u \in R : f[u] = f[v]) \in R /\ f[CHOOSE u \in R : f[u] = f[v]] = f[v]
    OBVIOUS
  <2> QED BY <2>1 DEF Alloc
<1>3. \A v \in R : Filling(R, f, d)[f[v]] = d[v]
  BY <1>1, <1>2 DEF Filling
<1>4. \A g \in Frames : (\A v \in R : f[v] # g) => Filling(R, f, d)[g] = data[g]
  BY DEF Filling
<1>5. \A g \in Frames : Filling(R, f, d)[g] \in Values
  <2> SUFFICES ASSUME NEW g \in Frames PROVE Filling(R, f, d)[g] \in Values
    OBVIOUS
  <2>1. CASE \E v \in R : f[v] = g
    BY <1>3, <2>1
  <2>2. CASE \A v \in R : f[v] # g
    BY <1>4, <2>2 DEF TypeOK
  <2> QED BY <2>1, <2>2
<1>6. Filling(R, f, d) = [g \in Frames |-> Filling(R, f, d)[g]]
  BY DEF Filling
<1> QED BY <1>3, <1>4, <1>5, <1>6

\* What the actions that remap pages have in common.
LEMMA RemappedKeeps ==
    ASSUME IInv, NEW s \in Spaces, NEW R, NEW got, NEW f, Remapped(s, R, got, f),
           \A t \in Threads : pc[t] = "dead" => pc'[t] = "dead"
    PROVE  free' \subseteq Frames /\ FramesDisjoint' /\ LossBounded'
<1>1. free' \subseteq Frames /\ FramesDisjoint' /\ Lost' \subseteq Lost
  BY RemappedKeepsFrames DEF IInv
<1>2. Dead \subseteq Dead' /\ Dead' \subseteq Threads
  BY DEF Dead
<1> QED BY <1>1, <1>2, LossStays DEF IInv

\* Pages that are filled are among those asked for.
LEMMA FilledInside == ASSUME NEW R, NEW F PROVE Filled(R, F) \subseteq R
BY DEF Filled

\* map_alloc adds an area where none was, and populates it with frames nobody had.
LEMMA MmapKeeps ==
    ASSUME IInv, NEW t \in Threads, NEW R \in Ranges, NEW prot \in Prots, NEW populate \in BOOLEAN,
           Mmap(t, R, prot, populate)
    PROVE  IInv'
<1> DEFINE s == SpaceOf[t]
           avail == free \cup FramesOf(s, R)
           got == IF populate THEN Filled(R, avail) ELSE {}
           a == [prot |-> prot, populate |-> populate]
<1>1. s \in Spaces /\ s \in live /\ R \subseteq Pages /\ got \subseteq R /\ avail \subseteq Frames
  BY AddrSpaceAssumption, FilledInside, SMTT(40) DEF Mmap, Call, Runs, Ranges, IInv, TypeOK, FramesOf
<1>2. PICK f \in Alloc(got, avail), d \in [got -> Values] :
        /\ pt' = [pt EXCEPT ![s] = Mapped(Cleared(@, R, None), got, f)]
        /\ free' = avail \ {f[v] : v \in got}
        /\ data' = Filling(got, f, d)
  BY Zenon DEF Mmap
<1>3. /\ area' = [area EXCEPT ![s] = Cleared(@, R, a)]
      /\ flags' = [flags EXCEPT ![s] = Mapped(Cleared(@, R, {}), got, [v \in got |-> prot])]
      /\ calls' = calls + 1 /\ calls < MaxCalls
      /\ UNCHANGED <<live, pc, fault>>
  BY DEF Mmap, Call
<1>4. a \in Areas /\ a.prot = prot /\ a # None
  BY AddrSpaceAssumption DEF Areas
<1> HIDE DEF s, got, a, avail
<1>5. \A v \in Pages : pt'[s][v] = IF v \in got THEN f[v] ELSE IF v \in R THEN None ELSE pt[s][v]
  BY <1>1, <1>2 DEF IInv, TypeOK, Mapped, Cleared
<1>6. \A v \in got : f[v] \in Frames /\ f[v] # None
  BY <1>1, <1>2, AddrSpaceAssumption, SMTT(40) DEF Alloc
<1>7. pt' \in [Spaces -> [Pages -> Frames \cup {None}]]
  BY <1>1, <1>2, <1>6, SMTT(40) DEF IInv, TypeOK, Mapped, Cleared
<1>8. Remapped(s, R, got, f)
  BY <1>1, <1>2, <1>5, <1>7 DEF Remapped, avail, IInv, TypeOK
<1>9. free' \subseteq Frames /\ FramesDisjoint' /\ LossBounded'
  BY <1>1, <1>3, <1>8, RemappedKeeps
<1>10. data' \in [Frames -> Values]
  BY <1>1, <1>2, FillingAt, SMTT(40) DEF IInv
<1>11. area' \in [Spaces -> [Pages -> Areas \cup {None}]]
  BY <1>1, <1>3, <1>4, SMTT(40) DEF IInv, TypeOK, Cleared
<1>12. flags' \in [Spaces -> [Pages -> Prots \cup {{}}]]
  BY <1>1, <1>3, SMTT(40) DEF IInv, TypeOK, Cleared, Mapped
<1>13. calls' \in 0..MaxCalls
  BY <1>3, AddrSpaceAssumption, SMTT(40) DEF IInv, TypeOK
<1>14. TypeOK'
  BY <1>3, <1>7, <1>9, <1>10, <1>11, <1>12, <1>13, Zenon DEF IInv, TypeOK
<1>15. UnusedEmpty' /\ FaultsAtPages'
  BY <1>1, <1>2, <1>3 DEF IInv, TypeOK, UnusedEmpty, FaultsAtPages
<1>16. EntriesFollowAreas'
  <2> SUFFICES ASSUME NEW w \in Spaces, NEW v \in Pages, pt'[w][v] # None
               PROVE  area'[w][v] # None /\ flags'[w][v] = area'[w][v].prot
    BY SMTT(40) DEF EntriesFollowAreas
  <2>1. CASE w # s
    BY <1>2, <1>3, <2>1, SMTT(40) DEF IInv, TypeOK, EntriesFollowAreas
  <2>2. CASE w = s /\ v \in got
    BY <1>1, <1>3, <1>4, <2>2, SMTT(40) DEF IInv, TypeOK, Mapped, Cleared
  <2>3. CASE w = s /\ v \notin got
    <3>1. v \notin R /\ pt[s][v] # None
      BY <1>5, <2>3, SMTT(40)
    <3>2. area'[s][v] = area[s][v] /\ flags'[s][v] = flags[s][v]
      BY <1>1, <1>3, <2>3, <3>1 DEF IInv, TypeOK, Mapped, Cleared
    <3> QED BY <2>3, <3>1, <3>2, SMTT(40) DEF IInv, EntriesFollowAreas
  <2> QED BY <2>1, <2>2, <2>3, SMTT(40)
<1> QED BY <1>9, <1>14, <1>15, <1>16, SMTT(40) DEF IInv

\* unmap takes the entries with the areas it cuts.
LEMMA MunmapKeeps ==
    ASSUME IInv, NEW t \in Threads, NEW R \in Ranges, Munmap(t, R)
    PROVE  IInv'
<1> DEFINE s == SpaceOf[t]
           f == [v \in {} |-> None]
<1>1. s \in Spaces /\ s \in live /\ R \subseteq Pages
  BY AddrSpaceAssumption DEF Munmap, Call, Runs, Ranges
<1>2. /\ area' = [area EXCEPT ![s] = Cleared(@, R, None)]
      /\ pt' = [pt EXCEPT ![s] = Cleared(@, R, None)]
      /\ flags' = [flags EXCEPT ![s] = Cleared(@, R, {})]
      /\ free' = free \cup FramesOf(s, R)
      /\ calls' = calls + 1 /\ calls < MaxCalls
      /\ UNCHANGED <<live, data, pc, fault>>
  BY DEF Munmap, Call
<1>3. f \in Alloc({}, free \cup FramesOf(s, R))
  BY DEF Alloc
<1> HIDE DEF s, f
<1>4. \A v \in Pages : /\ pt'[s][v] = IF v \in R THEN None ELSE pt[s][v]
                       /\ area'[s][v] = IF v \in R THEN None ELSE area[s][v]
                       /\ flags'[s][v] = IF v \in R THEN {} ELSE flags[s][v]
  BY <1>1, <1>2 DEF IInv, TypeOK, Cleared
<1>5. pt' \in [Spaces -> [Pages -> Frames \cup {None}]]
  BY <1>1, <1>2, SMTT(40) DEF IInv, TypeOK, Cleared
<1>6. Remapped(s, R, {}, f)
  BY <1>1, <1>2, <1>3, <1>4, <1>5 DEF Remapped, IInv, TypeOK
<1>7. free' \subseteq Frames /\ FramesDisjoint' /\ LossBounded'
  BY <1>1, <1>2, <1>6, RemappedKeeps, SMTT(40)
<1>8. /\ area' \in [Spaces -> [Pages -> Areas \cup {None}]]
      /\ flags' \in [Spaces -> [Pages -> Prots \cup {{}}]]
  BY <1>1, <1>2 DEF IInv, TypeOK, Cleared
<1>9. calls' \in 0..MaxCalls
  BY <1>2, AddrSpaceAssumption, SMTT(40) DEF IInv, TypeOK
<1>10. TypeOK'
  BY <1>2, <1>5, <1>7, <1>8, <1>9, SMTT(40) DEF IInv, TypeOK
<1>11. UnusedEmpty' /\ FaultsAtPages'
  BY <1>1, <1>2 DEF IInv, TypeOK, UnusedEmpty, FaultsAtPages
<1>12. EntriesFollowAreas'
  <2> SUFFICES ASSUME NEW w \in Spaces, NEW v \in Pages, pt'[w][v] # None
               PROVE  area'[w][v] # None /\ flags'[w][v] = area'[w][v].prot
    BY DEF EntriesFollowAreas
  <2>1. CASE w # s
    BY <1>2, <2>1, SMTT(40) DEF IInv, TypeOK, EntriesFollowAreas
  <2>2. CASE w = s
    BY <1>4, <2>2 DEF IInv, EntriesFollowAreas
  <2> QED BY <2>1, <2>2
<1> QED BY <1>7, <1>10, <1>11, <1>12, SMTT(40) DEF IInv

\* protect changes flags: no frame, no extent of an area.
LEMMA MprotectKeeps ==
    ASSUME IInv, NEW t \in Threads, NEW R \in Ranges, NEW prot \in Prots, Mprotect(t, R, prot)
    PROVE  IInv'
<1> DEFINE s == SpaceOf[t]
           got == Filled(Unfilled(s, R), free)
           ok == BeforeHole(s, R) = R /\ got = Unfilled(s, R)
           NewProt(v) == IF ok /\ v \in R THEN prot ELSE area[s][v].prot
<1>1. s \in Spaces /\ s \in live /\ R \subseteq Pages
  BY AddrSpaceAssumption, SMTT(40) DEF Mprotect, Call, Runs, Ranges
<1>2. got \subseteq R /\ \A v \in got : v \in Pages /\ area[s][v] # None /\ pt[s][v] = None
  <2>1. got \subseteq Unfilled(s, R)
    BY FilledInside
  <2>2. \A v \in Unfilled(s, R) : v \in R /\ v <= v /\ area[s][v] # None /\ pt[s][v] = None
    BY <1>1, AddrSpaceAssumption DEF Unfilled, BeforeHole
  <2> HIDE DEF got
  <2> QED BY <1>1, <2>1, <2>2
<1>3. ok => \A v \in R : area[s][v] # None
  <2>1. \A v \in BeforeHole(s, R) : area[s][v] # None
    <3> SUFFICES ASSUME NEW v \in BeforeHole(s, R) PROVE area[s][v] # None
      OBVIOUS
    <3>1. v \in R /\ \A u \in R : u <= v => area[s][u] # None
      BY DEF BeforeHole
    <3>2. v \in Nat
      BY <1>1, <3>1, AddrSpaceAssumption, Zenon
    <3>3. v <= v
      BY <3>2
    <3> QED BY <3>1, <3>3
  <2> QED BY <2>1
<1>4. PICK f \in Alloc(got, free) :
        /\ pt' = [pt EXCEPT ![s] = Mapped(@, got, f)]
        /\ free' = free \ {f[v] : v \in got}
        /\ data' = Filling(got, f, Zeroes(got))
  BY Zenon DEF Mprotect
<1>5. /\ flags' = [flags EXCEPT ![s] = [v \in Pages |->
            IF v \in got \/ (ok /\ v \in R /\ pt[s][v] # None) THEN NewProt(v) ELSE @[v]]]
      /\ area' = [area EXCEPT ![s] = [v \in Pages |->
            IF ok /\ v \in R THEN [@[v] EXCEPT !.prot = prot] ELSE @[v]]]
      /\ calls' = calls + 1 /\ calls < MaxCalls
      /\ UNCHANGED <<live, pc, fault>>
  BY DEF Mprotect, Call
<1> HIDE DEF s, got, ok
<1>6. \A v \in Pages : area[s][v] # None => area[s][v] \in Areas /\ area[s][v].prot \in Prots
  BY <1>1 DEF IInv, TypeOK, Areas
<1>7. ASSUME NEW v \in Pages, ok, v \in R
      PROVE  /\ [area[s][v] EXCEPT !.prot = prot] \in Areas
             /\ [area[s][v] EXCEPT !.prot = prot].prot = prot
  BY <1>3, <1>6, <1>7, SMTT(40) DEF Areas
<1>8. \A v \in Pages : pt'[s][v] = IF v \in got THEN f[v] ELSE pt[s][v]
  BY <1>1, <1>4 DEF IInv, TypeOK, Mapped
<1>9. \A v \in Pages : /\ flags'[s][v] = IF v \in got \/ (ok /\ v \in R /\ pt[s][v] # None)
                                         THEN NewProt(v) ELSE flags[s][v]
                       /\ area'[s][v] = IF ok /\ v \in R THEN [area[s][v] EXCEPT !.prot = prot]
                                                         ELSE area[s][v]
  BY <1>1, <1>5 DEF IInv, TypeOK
<1>10. /\ \A w \in Spaces \ {s} : pt'[w] = pt[w] /\ area'[w] = area[w] /\ flags'[w] = flags[w]
       /\ pt' \in [Spaces -> [Pages -> Frames \cup {None}]]
  <2>1. \A v \in got : f[v] \in Frames
    BY <1>4 DEF Alloc, IInv, TypeOK
  <2>2. pt' \in [Spaces -> [Pages -> Frames \cup {None}]]
    BY <1>1, <1>2, <1>4, <2>1 DEF IInv, TypeOK, Mapped
  <2>3. \A w \in Spaces \ {s} : pt'[w] = pt[w] /\ area'[w] = area[w] /\ flags'[w] = flags[w]
    BY <1>1, <1>4, <1>5 DEF IInv, TypeOK
  <2> QED BY <2>2, <2>3
<1>11. FramesOf(s, got) = {}
  BY <1>2, SMTT(40) DEF FramesOf
<1>12. Remapped(s, got, got, f)
  <2>1. free \cup FramesOf(s, got) = free
    BY <1>11
  <2> QED BY <1>1, <1>2, <1>4, <1>8, <1>10, <2>1, Zenon DEF Remapped
<1>13. free' \subseteq Frames /\ FramesDisjoint' /\ LossBounded'
  BY <1>1, <1>5, <1>12, RemappedKeeps
<1>14. data' \in [Frames -> Values]
  <2>1. Zeroes(got) \in [got -> Values] /\ free \in SUBSET Frames
    BY AddrSpaceAssumption DEF Zeroes, IInv, TypeOK
  <2> QED BY <1>4, <2>1, FillingAt DEF IInv
<1>15. area' \in [Spaces -> [Pages -> Areas \cup {None}]]
  <2>1. \A v \in Pages : area'[s][v] \in Areas \cup {None}
    <3> SUFFICES ASSUME NEW v \in Pages PROVE area'[s][v] \in Areas \cup {None}
      OBVIOUS
    <3>1. CASE ok /\ v \in R
      <4>1. area'[s][v] = [area[s][v] EXCEPT !.prot = prot]
        BY <1>9, <3>1
      <4> QED BY <1>7, <3>1, <4>1
    <3>2. CASE ~(ok /\ v \in R)
      <4>1. area'[s][v] = area[s][v]
        BY <1>9, <3>2, Zenon
      <4> QED BY <1>1, <4>1 DEF IInv, TypeOK
    <3> QED BY <3>1, <3>2
  <2> QED BY <1>1, <1>5, <1>10, <2>1 DEF IInv, TypeOK
<1>16. flags' \in [Spaces -> [Pages -> Prots \cup {{}}]]
  <2>1. \A v \in Pages : v \in got \/ (ok /\ v \in R) => NewProt(v) \in Prots
    BY <1>2, <1>6
  <2>2. \A v \in Pages : flags'[s][v] \in Prots \cup {{}}
    <3> SUFFICES ASSUME NEW v \in Pages PROVE flags'[s][v] \in Prots \cup {{}}
      OBVIOUS
    <3>1. \/ flags'[s][v] = NewProt(v) /\ (v \in got \/ (ok /\ v \in R))
          \/ flags'[s][v] = flags[s][v]
      BY <1>9, Zenon
    <3>2. flags[s][v] \in Prots \cup {{}}
      BY <1>1 DEF IInv, TypeOK
    <3> HIDE DEF NewProt
    <3> QED BY <2>1, <3>1, <3>2
  <2> QED BY <1>1, <1>5, <1>10, <2>2 DEF IInv, TypeOK
<1>17. calls' \in 0..MaxCalls
  BY <1>5, AddrSpaceAssumption DEF IInv, TypeOK
<1>18. TypeOK'
  BY <1>5, <1>10, <1>13, <1>14, <1>15, <1>16, <1>17 DEF IInv, TypeOK
<1>19. UnusedEmpty' /\ FaultsAtPages'
  BY <1>1, <1>5, <1>10, SMTT(40) DEF IInv, UnusedEmpty, FaultsAtPages
<1>20. EntriesFollowAreas'
  <2> SUFFICES ASSUME NEW w \in Spaces, NEW v \in Pages, pt'[w][v] # None
               PROVE  area'[w][v] # None /\ flags'[w][v] = area'[w][v].prot
    BY DEF EntriesFollowAreas
  <2>1. CASE w # s
    BY <1>10, <2>1, SMTT(40) DEF IInv, EntriesFollowAreas
  <2>2. CASE w = s /\ ok /\ v \in R
    <3>1. area'[s][v] \in Areas /\ area'[s][v].prot = prot
      BY <1>7, <1>9, <2>2, Zenon
    <3>2. v \in got \/ pt[s][v] # None
      BY <1>8, <2>2
    <3>3. flags'[s][v] = prot
      BY <1>9, <2>2, <3>2, Zenon
    <3> QED BY <2>2, <3>1, <3>3, AddrSpaceAssumption
  <2>3. CASE w = s /\ ~(ok /\ v \in R) /\ v \in got
    BY <1>2, <1>9, <2>3, Zenon
  <2>4. CASE w = s /\ ~(ok /\ v \in R) /\ v \notin got
    <3>1. pt[s][v] # None
      BY <1>8, <2>4
    <3>2. flags'[s][v] = flags[s][v] /\ area'[s][v] = area[s][v]
      BY <1>9, <2>4, Zenon
    <3> QED BY <1>1, <2>4, <3>1, <3>2 DEF IInv, EntriesFollowAreas
  <2> QED BY <2>1, <2>2, <2>3, <2>4, SMTT(40)
<1> QED BY <1>13, <1>18, <1>19, <1>20 DEF IInv

\* Steps that leave areas, page tables and free frames alone.
LEMMA MapsUnchanged ==
    ASSUME IInv, UNCHANGED <<live, area, pt, flags, free>>,
           \A t \in Threads : pc[t] = "dead" => pc'[t] = "dead"
    PROVE  UnusedEmpty' /\ FramesDisjoint' /\ EntriesFollowAreas' /\ LossBounded'
<1>1. UnusedEmpty' /\ FramesDisjoint' /\ EntriesFollowAreas'
  BY DEF IInv, UnusedEmpty, FramesDisjoint, EntriesFollowAreas, Owned, FramesOf
<1>2. Lost' \subseteq Lost
  BY DEF Lost, Owned, FramesOf
<1>3. Dead \subseteq Dead' /\ Dead' \subseteq Threads
  BY DEF Dead
<1> QED BY <1>1, <1>2, <1>3, LossStays DEF IInv

\* A user access changes no entry: it succeeds, or the thread faults.
LEMMA AccessKeeps ==
    ASSUME IInv, NEW t \in Threads, NEW v \in Pages, NEW acc \in {"r", "w"}, Access(t, v, acc)
    PROVE  IInv'
<1>1. \A u \in Threads : pc[u] = "dead" => pc'[u] = "dead"
  BY SMTT(40) DEF Access, Runs, IInv, TypeOK
<1>2. TypeOK' /\ FaultsAtPages'
  BY DEF Access, IInv, TypeOK, FaultsAtPages
<1>3. UNCHANGED <<live, area, pt, flags, free>>
  BY DEF Access
<1> QED BY <1>1, <1>2, <1>3, MapsUnchanged DEF IInv

\* A user write changes contents and nothing else.
LEMMA WriteKeeps ==
    ASSUME IInv, NEW t \in Threads, NEW v \in Pages, NEW x \in Values, Write(t, v, x)
    PROVE  IInv'
<1>1. TypeOK' /\ FaultsAtPages'
  BY Zenon DEF Write, IInv, TypeOK, FaultsAtPages
<1>2. UNCHANGED <<live, area, pt, flags, free, pc>>
  BY DEF Write
<1> QED BY <1>1, <1>2, MapsUnchanged, SMTT(40) DEF IInv

\* The exit of a process ends its threads; the space stays until it is dropped.
LEMMA ExitKeeps ==
    ASSUME IInv, NEW s \in Spaces, Exit(s)
    PROVE  IInv'
<1>1. \A u \in Threads : /\ pc[u] = "dead" => pc'[u] = "dead"
                         /\ pc'[u] = "fault" => pc[u] = "fault"
  BY DEF Exit
<1>2. TypeOK'
  BY DEF Exit, IInv, TypeOK
<1>3. FaultsAtPages'
  BY <1>1 DEF Exit, IInv, FaultsAtPages
<1>4. UNCHANGED <<live, area, pt, flags, free>>
  BY DEF Exit
<1> QED BY <1>1, <1>2, <1>3, <1>4, MapsUnchanged DEF IInv

\* A page fault whose page was mapped by then loses a frame, and its thread dies.
LEMMA FaultLoses ==
    ASSUME IInv, NEW t \in Threads, pc[t] = "fault", NEW f \in free,
           free' = free \ {f}, pt' = pt, pc' = [pc EXCEPT ![t] = "dead"]
    PROVE  FramesDisjoint' /\ LossBounded'
<1>1. Owned' = Owned
  BY DEF Owned, FramesOf
<1>2. FramesDisjoint'
  BY <1>1 DEF FramesDisjoint, IInv
<1>3. f \in Frames /\ f \notin Lost /\ f \notin Owned
  BY DEF Lost, IInv, TypeOK, FramesDisjoint
<1>4. Lost' = Lost \cup {f}
  BY <1>1, <1>3 DEF Lost
<1>5. Dead' = Dead \cup {t} /\ t \notin Dead
  BY DEF Dead, IInv, TypeOK
<1>6. IsFiniteSet(Lost) /\ IsFiniteSet(Dead)
  BY AddrSpaceAssumption, FS_Subset DEF Lost, Dead
<1>7. Cardinality(Lost') = Cardinality(Lost) + 1 /\ Cardinality(Dead') = Cardinality(Dead) + 1
  BY <1>3, <1>4, <1>5, <1>6, FS_AddElement, Zenon
<1>8. Cardinality(Lost) \in Nat /\ Cardinality(Dead) \in Nat /\ Cardinality(Lost) <= Cardinality(Dead)
  BY <1>6, FS_CardinalityType DEF IInv, LossBounded, Lost, Dead
<1>9. Cardinality(Lost') <= Cardinality(Dead')
  BY <1>7, <1>8
<1> QED BY <1>2, <1>9 DEF LossBounded, Lost, Dead

\* handle_page_fault maps at most the one page of the fault, inside an area.
LEMMA HandlePageFaultKeeps ==
    ASSUME IInv, NEW t \in Threads, HandlePageFault(t)
    PROVE  IInv'
<1> DEFINE s == SpaceOf[t]
           v == fault[t][1]
<1>1. s \in Spaces /\ v \in Pages /\ pc[t] = "fault" /\ UNCHANGED <<live, area, calls>>
  BY AddrSpaceAssumption DEF HandlePageFault, IInv, FaultsAtPages
<1>2. fault' \in [Threads -> (Pages \cup {0}) \X {"r", "w"}]
  BY DEF HandlePageFault, IInv, TypeOK
<1>3. ASSUME NEW x \in {"run", "dead"}, pc' = [pc EXCEPT ![t] = x]
      PROVE  /\ FaultsAtPages' /\ pc' \in [Threads -> {"run", "fault", "dead", "exited"}]
             /\ \A u \in Threads : pc[u] = "dead" => pc'[u] = "dead"
  BY <1>1, <1>3 DEF HandlePageFault, IInv, FaultsAtPages, TypeOK
<1>4. CASE ~Legal(t) \/ free = {}
  <2>1. CASE pc' = [pc EXCEPT ![t] = "dead"] /\ UNCHANGED <<pt, flags, free, data>>
    <3>1. TypeOK'
      BY <1>1, <1>2, <1>3, <2>1 DEF IInv, TypeOK
    <3> QED BY <1>1, <1>3, <2>1, <3>1, MapsUnchanged, SMTT(40) DEF IInv
  <2> QED BY <1>4, <2>1 DEF HandlePageFault
<1>5. ASSUME Legal(t), NEW f \in free, FaultAlloc(t, f)
      PROVE  IInv'
  <2>1. f \in Frames /\ f # None /\ free' = free \ {f} /\ data' = [data EXCEPT ![f] = 0]
    BY <1>5, AddrSpaceAssumption, SMTT(40) DEF FaultAlloc, IInv, TypeOK
  <2>2. data' \in [Frames -> Values] /\ free' \subseteq Frames
    BY <2>1, AddrSpaceAssumption, SMTT(40) DEF IInv, TypeOK
  <2>3. area[s][v] # None /\ area[s][v].prot \in Prots
    BY <1>1, <1>5 DEF Legal, IInv, TypeOK, Areas
  <2>4. CASE pt[s][v] = None
    <3>1. /\ pt' = [pt EXCEPT ![s][v] = f]
          /\ flags' = [flags EXCEPT ![s][v] = area[s][v].prot]
          /\ pc' = [pc EXCEPT ![t] = "run"]
      BY <1>5, <2>4, SMTT(40) DEF FaultAlloc
    <3> HIDE DEF s, v
    <3> DEFINE g == [u \in {v} |-> f]
    <3>2. /\ pt' \in [Spaces -> [Pages -> Frames \cup {None}]]
          /\ flags' \in [Spaces -> [Pages -> Prots \cup {{}}]]
          /\ \A u \in Pages : pt'[s][u] = IF u = v THEN f ELSE pt[s][u]
          /\ \A w \in Spaces \ {s} : pt'[w] = pt[w]
      BY <1>1, <2>1, <2>3, <3>1 DEF IInv, TypeOK
    <3>3. FramesOf(s, {v}) = {} /\ g \in Alloc({v}, free) /\ {g[u] : u \in {v}} = {f}
      BY <2>4 DEF FramesOf, Alloc
    <3>4. free \cup FramesOf(s, {v}) = free /\ g[v] = f
      BY <3>3, SMTT(40)
    <3> HIDE DEF g
    <3>5. Remapped(s, {v}, {v}, g)
      BY <1>1, <2>1, <3>2, <3>3, <3>4, Zenon DEF Remapped
    <3>6. FramesDisjoint' /\ LossBounded'
      BY <1>1, <1>3, <3>1, <3>5, RemappedKeeps
    <3>7. TypeOK'
      BY <1>1, <1>2, <1>3, <2>2, <3>1, <3>2, Zenon DEF IInv, TypeOK
    <3>8. s \in live
      BY <1>1, <2>3 DEF IInv, UnusedEmpty
    <3>9. UnusedEmpty'
      BY <1>1, <3>2, <3>8, SMTT(40) DEF IInv, UnusedEmpty
    <3>10. EntriesFollowAreas'
      BY <1>1, <2>3, <3>1 DEF IInv, TypeOK, EntriesFollowAreas
    <3> QED BY <1>3, <3>1, <3>6, <3>7, <3>9, <3>10, SMTT(40) DEF IInv
  <2>5. CASE pt[s][v] # None
    <3>1. pt' = pt /\ flags' = flags /\ pc' = [pc EXCEPT ![t] = "dead"]
      BY <1>5, <2>5, SMTT(40) DEF FaultAlloc
    <3>2. FramesDisjoint' /\ LossBounded'
      BY <1>1, <2>1, <3>1, FaultLoses, Zenon
    <3>3. TypeOK'
      BY <1>1, <1>2, <1>3, <2>2, <3>1 DEF IInv, TypeOK
    <3>4. UnusedEmpty' /\ EntriesFollowAreas'
      BY <1>1, <3>1 DEF IInv, UnusedEmpty, EntriesFollowAreas
    <3> QED BY <1>3, <3>1, <3>2, <3>3, <3>4 DEF IInv
  <2> QED BY <2>4, <2>5, SMTT(40)
<1> QED BY <1>4, <1>5 DEF HandlePageFault

\* Dropping an address space frees each of its frames once.
LEMMA DropSpaceKeeps ==
    ASSUME IInv, NEW s \in Spaces, DropSpace(s)
    PROVE  IInv'
<1> DEFINE f == [v \in {} |-> None]
<1>1. /\ live' = live \ {s}
      /\ area' = [area EXCEPT ![s] = NoMap]
      /\ pt' = [pt EXCEPT ![s] = NoMap]
      /\ flags' = [flags EXCEPT ![s] = NoFlags]
      /\ free' = free \cup FramesOf(s, Pages)
      /\ UNCHANGED <<data, pc, fault, calls>>
  BY DEF DropSpace
<1>2. f \in Alloc({}, free \cup FramesOf(s, Pages)) /\ {f[v] : v \in {}} = {}
  BY SMTT(40) DEF Alloc
<1> HIDE DEF f
<1>3. /\ pt' \in [Spaces -> [Pages -> Frames \cup {None}]]
      /\ area' \in [Spaces -> [Pages -> Areas \cup {None}]]
      /\ flags' \in [Spaces -> [Pages -> Prots \cup {{}}]]
      /\ \A v \in Pages : pt'[s][v] = None /\ area'[s][v] = None
      /\ \A w \in Spaces \ {s} : pt'[w] = pt[w] /\ area'[w] = area[w] /\ flags'[w] = flags[w]
  BY <1>1, SMTT(40) DEF IInv, TypeOK, NoMap, NoFlags
<1>4. Remapped(s, Pages, {}, f)
  BY <1>1, <1>2, <1>3, Zenon DEF Remapped
<1>5. free' \subseteq Frames /\ FramesDisjoint' /\ LossBounded'
  BY <1>1, <1>4, RemappedKeeps, SMTT(40)
<1>6. TypeOK'
  BY <1>1, <1>3, <1>5, SMTT(40) DEF IInv, TypeOK
<1>7. UnusedEmpty' /\ FaultsAtPages' /\ EntriesFollowAreas'
  BY <1>1, <1>3 DEF IInv, UnusedEmpty, FaultsAtPages, EntriesFollowAreas
<1> QED BY <1>5, <1>6, <1>7, SMTT(40) DEF IInv

\* What a fork does, and that the child reads what its parent reads.
LEMMA ForkKeeps ==
    ASSUME IInv, NEW t \in Threads, NEW n \in Spaces, Fork(t, n)
    PROVE  /\ IInv'
           /\ live' = live \cup {n} /\ n \notin live
           /\ SpaceOf[t] \in live /\ area'[n] = area[SpaceOf[t]]
           /\ \A v \in Pages : /\ View(n, v)' = View(SpaceOf[t], v)
                               /\ View(SpaceOf[t], v)' = View(SpaceOf[t], v)
<1> DEFINE s == SpaceOf[t]
           D(got) == [v \in got |-> IF v \in Present(s) THEN data[pt[s][v]] ELSE 0]
<1>1. s \in Spaces /\ s \in live /\ n \notin live /\ s # n
  BY AddrSpaceAssumption, SMTT(40) DEF Fork, Runs
<1>a. PICK got \in SUBSET Wanted(s) :
        /\ Present(s) \subseteq got
        /\ \E f \in Alloc(got, free) :
            /\ pt' = [pt EXCEPT ![n] = Mapped(NoMap, got, f)]
            /\ free' = free \ {f[v] : v \in got}
            /\ data' = Filling(got, f, D(got))
        /\ flags' = [flags EXCEPT ![n] = Mapped(NoFlags, got, [v \in got |-> area[s][v].prot])]
  BY Zenon DEF Fork
<1>2. PICK f \in Alloc(got, free) :
        /\ got \in SUBSET Wanted(s) /\ Present(s) \subseteq got
        /\ pt' = [pt EXCEPT ![n] = Mapped(NoMap, got, f)]
        /\ free' = free \ {f[v] : v \in got}
        /\ data' = Filling(got, f, D(got))
        /\ flags' = [flags EXCEPT ![n] = Mapped(NoFlags, got, [v \in got |-> area[s][v].prot])]
  BY <1>a, Zenon
<1>3. /\ live' = live \cup {n} /\ area' = [area EXCEPT ![n] = area[s]]
      /\ UNCHANGED <<pc, fault, calls>>
  BY DEF Fork
<1>4. \A v \in Pages : pt[n][v] = None
  BY <1>1 DEF IInv, UnusedEmpty
<1> HIDE DEF s
<1>5. got \subseteq Pages /\ \A v \in got : area[s][v] # None /\ area[s][v].prot \in Prots
  <2>1. got \subseteq Pages
    BY <1>2, SMTT(40) DEF Wanted, Present
  <2>2. \A v \in got : area[s][v] # None
    BY <1>1, <1>2, SMTT(40) DEF Wanted, Present, IInv, EntriesFollowAreas
  <2> QED BY <1>1, <2>1, <2>2 DEF IInv, TypeOK, Areas
<1>6. \A v \in got : f[v] \in free /\ f[v] \in Frames /\ f[v] # None
  BY <1>2, AddrSpaceAssumption, SMTT(40) DEF Alloc, IInv, TypeOK
<1>7. \A v \in Pages : /\ pt'[n][v] = IF v \in got THEN f[v] ELSE None
                       /\ v \in got => flags'[n][v] = area[s][v].prot
                       /\ area'[n][v] = area[s][v]
  <2>1. n \in DOMAIN pt /\ n \in DOMAIN flags /\ n \in DOMAIN area
    BY Zenon DEF IInv, TypeOK
  <2>2. \A v \in Pages : pt'[n][v] = IF v \in got THEN f[v] ELSE None
    BY <1>2, <2>1, SMTT(40), Zenon DEF Mapped, NoMap
  <2>3. \A v \in Pages : v \in got => flags'[n][v] = area[s][v].prot
    BY <1>2, <2>1, SMTT(40), Zenon DEF Mapped
  <2>4. \A v \in Pages : area'[n][v] = area[s][v]
    BY <1>3, <2>1, SMTT(40), Zenon
  <2> QED BY <2>2, <2>3, <2>4, Zenon
<1>8. \A w \in Spaces \ {n} : pt'[w] = pt[w] /\ area'[w] = area[w] /\ flags'[w] = flags[w]
  BY <1>2, <1>3, SMTT(40) DEF IInv, TypeOK
<1>9. pt' \in [Spaces -> [Pages -> Frames \cup {None}]]
  BY <1>2, <1>6, SMTT(40) DEF IInv, TypeOK, Mapped, NoMap
<1>10. area' \in [Spaces -> [Pages -> Areas \cup {None}]]
  BY <1>1, <1>3, SMTT(40) DEF IInv, TypeOK
<1>11. flags' \in [Spaces -> [Pages -> Prots \cup {{}}]]
  BY <1>2, <1>5 DEF IInv, TypeOK, Mapped, NoFlags
<1>12. FramesOf(n, Pages) = {}
  BY <1>4, SMTT(40) DEF FramesOf
<1>13. Remapped(n, Pages, got, f)
  <2>1. free \cup FramesOf(n, Pages) = free
    BY <1>12
  <2> QED BY <1>2, <1>5, <1>7, <1>8, <1>9, <2>1, Zenon DEF Remapped
<1>14. free' \subseteq Frames /\ FramesDisjoint' /\ LossBounded'
  BY <1>3, <1>13, RemappedKeeps
<1>15. D(got) \in [got -> Values]
  <2>1. \A v \in Present(s) : pt[s][v] \in Frames
    BY <1>1, SMTT(40) DEF Present, IInv, TypeOK
  <2>2. \A v \in Present(s) : data[pt[s][v]] \in Values
    BY <2>1, SMTT(40) DEF IInv, TypeOK
  <2> QED BY <2>2, AddrSpaceAssumption, SMTT(40)
<1> HIDE DEF D
<1>16. /\ data' \in [Frames -> Values]
       /\ \A v \in got : data'[f[v]] = D(got)[v]
       /\ \A g \in Frames : (\A v \in got : f[v] # g) => data'[g] = data[g]
  <2>1. free \in SUBSET Frames
    BY SMTT(40) DEF IInv, TypeOK
  <2> QED BY <1>2, <1>15, <2>1, FillingAt, SMTT(40) DEF IInv
<1>17. TypeOK'
  BY <1>1, <1>3, <1>9, <1>10, <1>11, <1>14, <1>16, SMTT(40) DEF IInv, TypeOK
<1>18. UnusedEmpty' /\ FaultsAtPages'
  BY <1>3, <1>8 DEF IInv, UnusedEmpty, FaultsAtPages
<1>19. EntriesFollowAreas'
  <2> SUFFICES ASSUME NEW w \in Spaces, NEW v \in Pages, pt'[w][v] # None
               PROVE  area'[w][v] # None /\ flags'[w][v] = area'[w][v].prot
    BY DEF EntriesFollowAreas
  <2>1. CASE w # n
    BY <1>8, <2>1, SMTT(40) DEF IInv, EntriesFollowAreas
  <2>2. CASE w = n
    BY <1>5, <1>7, <2>2
  <2> QED BY <2>1, <2>2, SMTT(40)
<1>20. IInv'
  BY <1>14, <1>17, <1>18, <1>19, SMTT(40) DEF IInv
<1>21. area'[n] = area[s]
  BY <1>3 DEF IInv, TypeOK
<1>22. ASSUME NEW v \in Pages
       PROVE  View(n, v)' = View(s, v) /\ View(s, v)' = View(s, v)
  <2>1. View(s, v)' = View(s, v)
    <3>1. pt'[s][v] = pt[s][v]
      BY <1>1, <1>8
    <3>2. CASE pt[s][v] = None
      BY <3>1, <3>2, SMTT(40) DEF View
    <3>3. CASE pt[s][v] # None
      <4>1. pt[s][v] \in Frames /\ pt[s][v] \notin free
        BY <1>1, <3>3, OwnedFrames, SMTT(40) DEF IInv, TypeOK, FramesDisjoint
      <4>2. data'[pt[s][v]] = data[pt[s][v]]
        BY <1>6, <1>16, <4>1
      <4> QED BY <3>1, <3>3, <4>2, SMTT(40) DEF View
    <3> QED BY <3>2, <3>3
  <2>2. View(n, v)' = View(s, v)
    <3>1. CASE pt[s][v] # None
      <4>1. v \in got /\ v \in Present(s)
        BY <1>2, <3>1, SMTT(40) DEF Present
      <4>2. pt'[n][v] = f[v] /\ f[v] # None
        BY <1>6, <1>7, <4>1, SMTT(40)
      <4>3. data'[f[v]] = data[pt[s][v]]
        BY <1>16, <4>1 DEF D
      <4> QED BY <3>1, <4>2, <4>3, SMTT(40) DEF View
    <3>2. CASE pt[s][v] = None
      <4>1. CASE v \in got
        <5>1. pt'[n][v] = f[v] /\ f[v] # None
          BY <1>6, <1>7, <4>1, SMTT(40)
        <5>2. data'[f[v]] = 0
          BY <1>16, <3>2, <4>1, SMTT(40) DEF D, Present
        <5> QED BY <3>2, <5>1, <5>2, SMTT(40) DEF View
      <4>2. CASE v \notin got
        BY <1>7, <3>2, <4>2 DEF View
      <4> QED BY <4>1, <4>2, SMTT(40)
    <3> QED BY <3>1, <3>2
  <2> QED BY <2>1, <2>2
<1> QED BY <1>1, <1>3, <1>20, <1>21, <1>22, SMTT(40) DEF s

\* The empty address spaces of the start.
LEMMA InitIInv == Init => IInv
<1> SUFFICES ASSUME Init PROVE IInv
  OBVIOUS
<1> USE AddrSpaceAssumption
<1> DEFINE a == [prot |-> {"r", "w"}, populate |-> TRUE]
<1>1. PICK f \in [Heap -> Frames] :
        /\ \A u, v \in Heap : f[u] = f[v] => u = v
        /\ pt = [s \in Spaces |-> [v \in Pages |->
                    IF s = First /\ v \in Heap THEN f[v] ELSE None]]
        /\ free = Frames \ {f[v] : v \in Heap}
  BY Zenon DEF Init
<1>2. area = [s \in Spaces |-> [v \in Pages |-> IF s = First /\ v \in Heap THEN a ELSE None]]
  BY DEF Init
<1>3. a \in Areas /\ a.prot = {"r", "w"} /\ a # None
  <2>1. {"r", "w"} \in Prots
    BY DEF Prots
  <2>2. a \in Areas /\ a.prot = {"r", "w"}
    BY <2>1 DEF Areas
  <2> HIDE DEF a
  <2> QED BY <2>2
<1> HIDE DEF a
<1>4. \A s \in Spaces, v \in Pages :
        /\ pt[s][v] = IF s = First /\ v \in Heap THEN f[v] ELSE None
        /\ area[s][v] = IF s = First /\ v \in Heap THEN a ELSE None
        /\ flags[s][v] = IF s = First /\ v \in Heap THEN {"r", "w"} ELSE {}
  <2>1. flags = [s \in Spaces |-> [v \in Pages |->
                    IF s = First /\ v \in Heap THEN {"r", "w"} ELSE {}]]
    BY DEF Init
  <2>2. \A s \in Spaces, v \in Pages : pt[s][v] = IF s = First /\ v \in Heap THEN f[v] ELSE None
    BY <1>1
  <2>3. \A s \in Spaces, v \in Pages : area[s][v] = IF s = First /\ v \in Heap THEN a ELSE None
    BY <1>2
  <2>4. \A s \in Spaces, v \in Pages :
            flags[s][v] = IF s = First /\ v \in Heap THEN {"r", "w"} ELSE {}
    BY <2>1, SMTT(40)
  <2> QED BY <2>2, <2>3, <2>4
<1>5. TypeOK
  <2>1. area \in [Spaces -> [Pages -> Areas \cup {None}]]
    BY <1>2, <1>3
  <2>2. pt \in [Spaces -> [Pages -> Frames \cup {None}]]
    BY <1>1
  <2>3. flags \in [Spaces -> [Pages -> Prots \cup {{}}]]
    BY DEF Init, Prots
  <2> QED BY <1>1, <2>1, <2>2, <2>3 DEF Init, TypeOK
<1>6. UnusedEmpty /\ FaultsAtPages
  BY <1>4 DEF Init, UnusedEmpty, FaultsAtPages
<1>7. EntriesFollowAreas
  BY <1>3, <1>4, Zenon DEF EntriesFollowAreas
<1>8. FramesDisjoint
  BY <1>1, <1>4, OwnedFrames DEF FramesDisjoint
<1>9. LossBounded
  <2>1. Lost = {}
    <3> SUFFICES ASSUME NEW g \in Frames, g \notin free PROVE g \in Owned
      BY DEF Lost
    <3>1. PICK v \in Heap : f[v] = g
      BY <1>1
    <3>2. pt[First][v] = g /\ v \in Pages /\ First \in Spaces
      BY <1>4, <3>1
    <3> QED BY <3>2, OwnedFrames
  <2>2. Dead = {}
    BY DEF Dead, Init
  <2> QED BY <2>1, <2>2, FS_EmptySet, SMTT(40) DEF LossBounded, Lost, Dead
<1> QED BY <1>5, <1>6, <1>7, <1>8, <1>9 DEF IInv

\* Every step, and the stuttering ones, keep the inductive invariant.
LEMMA NextIInv == IInv /\ [Next]_vars => IInv'
<1> SUFFICES ASSUME IInv, [Next]_vars PROVE IInv'
  OBVIOUS
<1>1. CASE UNCHANGED vars
  <2>1. UNCHANGED <<live, area, pt, flags, free, pc>> /\ TypeOK' /\ FaultsAtPages'
    BY <1>1, SMTT(40) DEF vars, IInv, TypeOK, FaultsAtPages
  <2> QED BY <2>1, MapsUnchanged, SMTT(40) DEF IInv
<1>2. CASE Next
  BY <1>2, MmapKeeps, MprotectKeeps, MunmapKeeps, AccessKeeps, WriteKeeps, HandlePageFaultKeeps,
     ForkKeeps, ExitKeeps, DropSpaceKeeps, Zenon DEF Next
<1> QED BY <1>1, <1>2

\* The inductive invariant holds always.
LEMMA AlwaysIInv == Spec => []IInv
BY InitIInv, NextIInv, PTL DEF Spec

\* In every run, for any number of address spaces, threads, pages and frames, a
\* frame backs one page of one address space or is free: whatever mmap, munmap,
\* mprotect, page faults, forks and drops do, a store reaches one page only
\* (alloc_frame, map_alloc, unmap_alloc, clone_or_err).
THEOREM FramesAlwaysKept == Spec => []FramesKept
<1>1. IInv => FramesKept
  BY DEF IInv, FramesKept
<1> QED BY <1>1, AlwaysIInv, PTL

\* In every run the page table allows no more than the areas do, a protect that
\* failed half-way included (AddrSpace::protect, handle_page_fault_alloc).
THEOREM EntriesAlwaysFollowAreas == Spec => []EntriesFollowAreas
<1>1. IInv => EntriesFollowAreas
  BY DEF IInv
<1> QED BY <1>1, AlwaysIInv, PTL

\* In every run the frames that are neither free nor mapped are at most as many as
\* the threads that died of a page fault (handle_page_fault_alloc drops no frame
\* when the page was mapped meanwhile; nothing else loses one).
THEOREM LossAlwaysBounded == Spec => []LossBounded
<1>1. IInv => LossBounded
  BY DEF IInv
<1> QED BY <1>1, AlwaysIInv, PTL

\* No step but a fork brings an address space into use.
LEMMA OnlyForkAdds ==
    ASSUME Next, NEW n \in live' \ live
    PROVE  \E t \in Threads, m \in Spaces : Fork(t, m)
<1>1. ASSUME NEW t, NEW R, NEW prot, NEW populate,
             Mmap(t, R, prot, populate) \/ Mprotect(t, R, prot) \/ Munmap(t, R)
      PROVE  live' = live
  <2>1. CASE Mmap(t, R, prot, populate)
    BY <2>1, Zenon DEF Mmap
  <2>2. CASE Mprotect(t, R, prot)
    BY <2>2 DEF Mprotect
  <2>3. CASE Munmap(t, R)
    BY <2>3, SMTT(40) DEF Munmap
  <2> QED BY <1>1, <2>1, <2>2, <2>3, SMTT(40)
<1>2. ASSUME NEW t, NEW v, NEW acc, NEW x,
             Access(t, v, acc) \/ Write(t, v, x) \/ HandlePageFault(t)
      PROVE  live' = live
  BY <1>2, SMTT(40) DEF Access, Write, HandlePageFault
<1>3. ASSUME NEW s \in Spaces, Exit(s) \/ DropSpace(s)
      PROVE  live' \subseteq live
  BY <1>3 DEF Exit, DropSpace
<1> QED BY <1>1, <1>2, <1>3 DEF Next

\* Every fork gives the child the areas of its parent and the contents of every
\* page of it, and changes nothing the parent reads (AddrSpace::clone_or_err).
THEOREM ForkAlwaysCopies == Spec => ForkCopies
<1> DEFINE Copies == \A n \in live' \ live : \E s \in live :
        /\ area'[n] = area[s]
        /\ \A v \in Pages : View(n, v)' = View(s, v) /\ View(s, v)' = View(s, v)
<1>1. IInv /\ [Next]_vars => [Copies]_vars
  <2> SUFFICES ASSUME IInv, Next, NEW n \in live' \ live
               PROVE  \E s \in live :
                        /\ area'[n] = area[s]
                        /\ \A v \in Pages : View(n, v)' = View(s, v) /\ View(s, v)' = View(s, v)
    OBVIOUS
  <2>1. PICK t \in Threads, m \in Spaces : Fork(t, m)
    BY OnlyForkAdds, SMTT(40)
  <2>2. n = m
    BY <2>1, ForkKeeps
  <2> QED BY <2>1, <2>2, ForkKeeps
<1> QED BY <1>1, AlwaysIInv, PTL DEF Spec, ForkCopies
=============================================================================
