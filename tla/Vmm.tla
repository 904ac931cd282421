-------------------------------- MODULE Vmm --------------------------------
(***************************************************************************)
(* kernel/vm/vmm.c: address spaces and the regions in them, on top of the  *)
(* physical allocator of module Pmm and of the mappings the architecture   *)
(* keeps.  Addresses and sizes are counted in pages.                       *)
(*                                                                         *)
(* A call that needs memory takes it from pmm under pmm's lock, makes its  *)
(* region under vmm_lock, and gives the pages of a failed or of a freed    *)
(* region back under pmm's lock again, one list at a time: each is a step, *)
(* and other threads run in between.                                       *)
(***************************************************************************)
EXTENDS Pmm, FiniteSets

CONSTANTS Threads,
          Aspaces,          \* address spaces: [base, size], by name
          Kernel,           \* the one that is always there
          VRange,           \* addresses are modulo VRange
          KernelPages,      \* the pages of the kernel image
          Device,           \* a device's first page, in no arena
          Sizes, Aligns, Spots,   \* the sizes, alignments and fixed addresses asked for
          KSizes,           \* the runs asked for with pmm_alloc_kpages()
          NULL

VARIABLES pmm,
          aspace_list,      \* the address spaces that exist
          region_list,      \* of each: its regions [base, size, pages], in list order
          mmu,              \* of each: the page mapped at each address, or NULL
          kpages,           \* runs obtained with pmm_alloc_kpages()
          call              \* the vmm call each thread is in

vars == <<pmm, aspace_list, region_list, mmu, kpages, call>>

Idle == [pc |-> "idle"]
Base(as) == Aspaces[as].base
End(as) == Aspaces[as].base + Aspaces[as].size     \* may be VRange itself
Addresses(as) == Base(as)..(End(as) - 1)
RegionPages(r) == r.base..(r.base + r.size - 1)

\* vm_init_preheap(): the kernel's own pages are taken, one at a time, and never given back.
Init ==
  /\ pmm = LET mark(p, page) == pmm_alloc_range(p, page, 1).pmm
           IN FoldLeft(mark, FreshPmm, SetToSeq(KernelPages))
  /\ aspace_list = {Kernel}
  /\ region_list = [as \in DOMAIN Aspaces |-> <<>>]
  /\ mmu = [as \in DOMAIN Aspaces |-> [va \in Addresses(as) |-> NULL]]
  /\ kpages = {}
  /\ call = [t \in Threads |-> Idle]

(***************************************************************************)
(* Finding a place for a region                                            *)
(***************************************************************************)
is_inside_aspace(as, va) == va \in Addresses(as)

is_region_inside_aspace(as, va, size) ==
  /\ is_inside_aspace(as, va)
  /\ (va + size - 1) % VRange >= va
  /\ (va + size - 1) % VRange <= End(as) - 1

trim_to_aspace(as, va, size) ==
  IF va - Base(as) + size >= Aspaces[as].size THEN Aspaces[as].size - (va - Base(as)) ELSE size

\* Fault: the next region's start is not looked at.
AfterPrevious(as, i, base, size) ==
  LET rs == region_list[as]
  IN i = 0 \/ base > rs[i].base + rs[i].size - 1

\* does it go behind region i of the list (behind none for 0), before the next one?
GoesBehind(as, i, base, size) ==
  LET rs == region_list[as]
  IN /\ i = 0 \/ base > rs[i].base + rs[i].size - 1
     /\ i = Len(rs) \/ base + size - 1 < rs[i + 1].base

\* add_region_to_aspace(): the index it goes behind, -1 when it does not fit
PlaceFor(as, base, size) ==
  LET fits == {i \in 0..Len(region_list[as]) : GoesBehind(as, i, base, size)}
  IN IF is_region_inside_aspace(as, base, size) /\ fits # {}
     THEN CHOOSE i \in fits : \A j \in fits : i <= j ELSE -1

\* Fault: a gap is taken when the region fits before the start is aligned.
FitsUnaligned(gap_beg, gap_end, spot, size) == gap_end - gap_beg + 1 >= size

HasRoom(gap_beg, gap_end, spot, size) == spot <= gap_end /\ gap_end - spot + 1 >= size

NextGap == -2
NotFound == -1

\* check_gap() behind region i: the address, or to go on searching, or to give up
check_gap(as, i, align, size) ==
  LET rs == region_list[as]
      gap_beg == (IF i = 0 THEN Base(as) ELSE rs[i].base + rs[i].size) % VRange
      gap_end == (IF i = Len(rs) THEN End(as) ELSE rs[i + 1].base) - 1
      spot == RoundUp(gap_beg, align) % VRange
  IN CASE i < Len(rs) /\ gap_beg = gap_end + 1 -> NextGap
       [] i = Len(rs) /\ gap_beg = End(as) % VRange -> NotFound
       [] OTHER -> IF spot < gap_beg THEN NotFound
                   ELSE IF HasRoom(gap_beg, gap_end, spot, size) THEN spot ELSE NextGap

\* alloc_spot(): the gap it takes (-1 for none), the first at which the search stops
alloc_spot(as, align, size) ==
  LET stops == {i \in 0..Len(region_list[as]) : check_gap(as, i, align, size) # NextGap}
      i == CHOOSE j \in stops : \A k \in stops : j <= k
  IN IF stops = {} \/ check_gap(as, i, align, size) = NotFound THEN -1 ELSE i

\* alloc_region(): the place in the list and the base; at is NULL or the address asked for
Place(as, size, at, align) ==
  LET i == IF at # NULL THEN PlaceFor(as, at, size) ELSE alloc_spot(as, align, size)
  IN IF i = -1 THEN NULL
     ELSE [behind |-> i, base |-> IF at # NULL THEN at ELSE check_gap(as, i, align, size)]

AddRegion(as, place, size, list) ==
  region_list' = [region_list EXCEPT ![as] =
                    InsertAt(@, place.behind + 1, [base |-> place.base, size |-> size, pages |-> list])]

\* the architecture's part
arch_mmu_map(m, va, list) ==
  [v \in DOMAIN m |-> IF v \in va..(va + Len(list) - 1) THEN list[v - va + 1] ELSE m[v]]
arch_mmu_unmap(m, va, count) == [v \in DOMAIN m |-> IF v \in va..(va + count - 1) THEN NULL ELSE m[v]]

(***************************************************************************)
(* Calls                                                                   *)
(***************************************************************************)
\* vmm_reserve_space(): one step, under vmm_lock
vmm_reserve_space(as, size, va) ==
  /\ as \in aspace_list /\ is_inside_aspace(as, va)
  /\ LET trimmed == trim_to_aspace(as, va, size)
         place == Place(as, trimmed, va, 1)
     IN place # NULL /\ AddRegion(as, place, trimmed, <<>>)
  /\ UNCHANGED <<pmm, aspace_list, mmu, kpages, call>>

\* vmm_alloc_physical(): one step; when the pages cannot be mapped the region is removed again
vmm_alloc_physical(as, size, at, align) ==
  LET place == Place(as, size, at, align)
      list == [i \in 1..size |-> Device + i - 1]
  IN /\ as \in aspace_list /\ place # NULL
     /\ AddRegion(as, place, size, <<>>)
     /\ mmu' = [mmu EXCEPT ![as] = arch_mmu_map(@, place.base, list)]
     /\ UNCHANGED <<pmm, aspace_list, kpages, call>>

\* t has the pages for a region, and next makes it
ToRegion(t, as, size, at, align, contiguous, list) ==
  call' = [call EXCEPT ![t] = [pc |-> "region", as |-> as, size |-> size, at |-> at, align |-> align,
                               contiguous |-> contiguous, lists |-> <<list>>]]
\* t has lists of pages to give back
ToFree(t, as, lists, pc) == call' = [call EXCEPT ![t] = [pc |-> pc, as |-> as, lists |-> lists]]

\* vmm_alloc(): the pages first, and those there were go back when there are too few
vmm_alloc(t, as, size, at, align) ==
  LET s == pmm_alloc_pages(pmm, size)
  IN /\ call[t] = Idle /\ as \in aspace_list
     /\ pmm' = s.pmm
     /\ IF Len(s.list) < size THEN ToFree(t, as, <<s.list>>, "free")
        ELSE ToRegion(t, as, size, at, align, FALSE, s.list)
     /\ UNCHANGED <<aspace_list, region_list, mmu, kpages>>

\* vmm_alloc_contiguous(): the run first; nothing happens when there is none
vmm_alloc_contiguous(t, as, size, at, align) ==
  LET s == pmm_alloc_contiguous(pmm, size, align)
  IN /\ call[t] = Idle /\ as \in aspace_list /\ s.list # <<>>
     /\ pmm' = s.pmm
     /\ ToRegion(t, as, size, at, align, TRUE, s.list)
     /\ UNCHANGED <<aspace_list, region_list, mmu, kpages>>

\* then the region, under vmm_lock
MakeRegion(t) ==
  LET c == call[t]
      place == Place(c.as, c.size, c.at, c.align)
  IN /\ c.pc = "region" /\ place # NULL
     /\ AddRegion(c.as, place, c.size, c.lists[1])
     /\ mmu' = [mmu EXCEPT ![c.as] = arch_mmu_map(@, place.base, c.lists[1])]
     /\ call' = [call EXCEPT ![t] = Idle]
     /\ UNCHANGED <<pmm, aspace_list, kpages>>

\* no place for it, or no memory for its descriptor
NoRegion(t) ==
  /\ call[t].pc = "region"
  /\ ToFree(t, call[t].as, call[t].lists, "free")
  /\ UNCHANGED <<pmm, aspace_list, region_list, mmu, kpages>>

\* Fault: only the page that could not be mapped is unmapped.
UnmapLast(m, base, size, n) == arch_mmu_unmap(m, base + n, 1)

UnmapRegion(m, base, size, n) == arch_mmu_unmap(m, base, size)

\* Fault: the page that could not be mapped is on neither list.
LosesThePage(list, n) == <<SubSeq(list, 1, n), SubSeq(list, n + 2, Len(list))>>

MappedAndRest(list, n) == <<SubSeq(list, 1, n), SubSeq(list, n + 2, Len(list)) \o <<list[n + 1]>> >>

\* vmm_alloc(): after n pages one cannot be mapped, and the region is removed; the pages that were mapped,
\* then the rest, with the one that failed at the end, go back.  (A run is mapped in one call, n = 0.)
MapFails(t) ==
  LET c == call[t]
      place == Place(c.as, c.size, c.at, c.align)
      list == c.lists[1]
  IN /\ c.pc = "region" /\ place # NULL
     /\ \E n \in 0..(IF c.contiguous THEN 0 ELSE c.size - 1) :
          /\ mmu' = [mmu EXCEPT ![c.as] =
                       UnmapRegion(arch_mmu_map(@, place.base, SubSeq(list, 1, n)), place.base, c.size, n)]
          /\ ToFree(t, c.as, IF c.contiguous THEN <<list>> ELSE MappedAndRest(list, n), "free")
     /\ UNCHANGED <<pmm, aspace_list, region_list, kpages>>

\* vmm_free_region(): the region and its mappings go under vmm_lock
vmm_free_region(t, as, va) ==
  \E i \in 1..Len(region_list[as]) :
    LET r == region_list[as][i]
    IN /\ call[t] = Idle /\ as \in aspace_list /\ va \in RegionPages(r)
       /\ region_list' = [region_list EXCEPT ![as] = RemoveAt(@, i)]
       /\ mmu' = [mmu EXCEPT ![as] = arch_mmu_unmap(@, r.base, r.size)]
       /\ ToFree(t, as, <<r.pages>>, "free")
       /\ UNCHANGED <<pmm, aspace_list, kpages>>

\* pmm_free() of one list after the other
FreeList(t) ==
  LET c == call[t]
  IN /\ c.pc \in {"free", "destroy"} /\ c.lists # <<>>
     /\ pmm' = pmm_free(pmm, Head(c.lists))
     /\ call' = [call EXCEPT ![t] = IF c.pc = "free" /\ Tail(c.lists) = <<>> THEN Idle
                                    ELSE [c EXCEPT !.lists = Tail(@)]]
     /\ UNCHANGED <<aspace_list, region_list, mmu, kpages>>

InUse(as) == \E t \in Threads : call[t] # Idle /\ call[t].as = as

\* vmm_create_aspace()
vmm_create_aspace(as) ==
  /\ as \notin aspace_list /\ ~InUse(as)
  /\ aspace_list' = aspace_list \cup {as}
  /\ UNCHANGED <<pmm, region_list, mmu, kpages, call>>

\* vmm_free_aspace(): all its regions go under vmm_lock, their pages later.  The owner of an address
\* space destroys it when no other call is using it.
vmm_free_aspace(t, as) ==
  LET rs == region_list[as]
      unmap(m, r) == arch_mmu_unmap(m, r.base, r.size)
  IN /\ call[t] = Idle /\ as \in aspace_list \ {Kernel}
     /\ ~InUse(as)
     /\ aspace_list' = aspace_list \ {as}
     /\ region_list' = [region_list EXCEPT ![as] = <<>>]
     /\ mmu' = [mmu EXCEPT ![as] = FoldLeft(unmap, @, rs)]
     /\ ToFree(t, as, [i \in 1..Len(rs) |-> rs[i].pages], "destroy")
     /\ UNCHANGED <<pmm, kpages>>

\* then the address space itself
Destroyed(t) ==
  /\ call[t].pc = "destroy" /\ call[t].lists = <<>>
  /\ call' = [call EXCEPT ![t] = Idle]
  /\ UNCHANGED <<pmm, aspace_list, region_list, mmu, kpages>>

\* pmm_alloc_kpages() and pmm_free_kpages() of other parts of the kernel
AllocKpages(count) ==
  LET s == pmm_alloc_kpages(pmm, count)
  IN /\ s.list # <<>> /\ kpages = {}
     /\ pmm' = s.pmm /\ kpages' = kpages \cup {s.list}
     /\ UNCHANGED <<aspace_list, region_list, mmu, call>>

pmm_free_kpages(run) ==
  /\ pmm' = pmm_free(pmm, run) /\ kpages' = kpages \ {run}
  /\ UNCHANGED <<aspace_list, region_list, mmu, call>>

Next ==
  \/ \E t \in Threads, as \in DOMAIN Aspaces, n \in Sizes, at \in Spots \cup {NULL} :
       vmm_alloc(t, as, n, at, 1)
  \/ \E t \in Threads, as \in DOMAIN Aspaces, n \in Sizes, al \in Aligns :
       vmm_alloc_contiguous(t, as, n, NULL, al)
  \/ \E as \in DOMAIN Aspaces, n \in Sizes, at \in Spots : vmm_reserve_space(as, n, at)
  \/ \E as \in DOMAIN Aspaces, n \in Sizes : vmm_alloc_physical(as, n, NULL, 1)
  \/ \E t \in Threads : MakeRegion(t) \/ NoRegion(t) \/ MapFails(t) \/ FreeList(t) \/ Destroyed(t)
  \/ \E t \in Threads, as \in DOMAIN Aspaces : \E va \in Addresses(as) : vmm_free_region(t, as, va)
  \/ \E as \in DOMAIN Aspaces : vmm_create_aspace(as)
  \/ \E t \in Threads, as \in DOMAIN Aspaces : vmm_free_aspace(t, as)
  \/ \E n \in KSizes : AllocKpages(n)
  \/ \E run \in kpages : pmm_free_kpages(run)

Spec == Init /\ [][Next]_vars

(***************************************************************************)
(* Properties                                                              *)
(***************************************************************************)
TypeOK ==
  /\ pmm.nonfree \subseteq Pages /\ pmm.free_count \in [Arenas -> Nat]
  /\ aspace_list \subseteq DOMAIN Aspaces /\ Kernel \in aspace_list
  /\ \A t \in Threads : call[t] = Idle \/ call[t].pc \in {"region", "free", "destroy"}

\* the lists a page can be on, other than the arenas', each with its holder
HeldLists ==
  {<<"kpages", 0, run>> : run \in kpages}
  \cup UNION {{<<as, i, region_list[as][i].pages>> : i \in 1..Len(region_list[as])} : as \in DOMAIN Aspaces}
  \cup UNION {{<<t, i, call[t].lists[i]>> : i \in 1..Len(call[t].lists)} : t \in {u \in Threads : call[u] # Idle}}

\* Every page is in one place: on its arena's list, where the counts say how many are and no page is
\* flagged, or on just one list of a caller or of a region, or part of the kernel.  No failed call
\* keeps a page and no page is handed out twice.
PageHasOneHome ==
  /\ \A a \in Arenas :
       /\ pmm.free_count[a] = Len(pmm.free_list[a])
       /\ ToSet(pmm.free_list[a]) = PagesOf(a) \ pmm.nonfree
       /\ Cardinality(ToSet(pmm.free_list[a])) = Len(pmm.free_list[a])
  /\ UNION {ToSet(h[3]) : h \in HeldLists} = pmm.nonfree \ KernelPages
  /\ \A g, h \in HeldLists : g # h => ToSet(g[3]) \cap ToSet(h[3]) = {}

\* An address space's regions are in the order of their addresses, inside it, and apart.
RegionsAreApart ==
  \A as \in DOMAIN Aspaces : LET rs == region_list[as] IN
    /\ \A i \in 1..Len(rs) : RegionPages(rs[i]) \subseteq Addresses(as)
    /\ \A i \in 1..(Len(rs) - 1) : rs[i].base + rs[i].size - 1 < rs[i + 1].base

\* What is mapped is what regions hold: each page of a region's list is mapped at its place in the
\* region, nothing else but a device is mapped anywhere, so no page is free while it is mapped.
MappedIsHeld ==
  \A as \in DOMAIN Aspaces :
    LET rs == region_list[as]
        backed == {i \in 1..Len(rs) : rs[i].pages # <<>>}
    IN /\ \A i \in backed : \A k \in 1..rs[i].size : mmu[as][rs[i].base + k - 1] = rs[i].pages[k]
       /\ \A va \in Addresses(as) : mmu[as][va] \in Pages => \E i \in backed : va \in RegionPages(rs[i])

\* alloc_spot() finds the lowest aligned address at which there is room, and fails only if there is
\* none: where it would put a region, for every size and alignment.
SpotIsTheLowest ==
  \A as \in DOMAIN Aspaces, n \in Sizes, al \in Aligns :
    LET used == UNION {RegionPages(region_list[as][i]) : i \in 1..Len(region_list[as])}
        good == {va \in Addresses(as) : /\ va % al = 0 /\ va + n <= End(as)
                                        /\ (va..(va + n - 1)) \cap used = {}}
        place == Place(as, n, NULL, al)
    IN IF good = {} THEN place = NULL
       ELSE place # NULL /\ place.base = CHOOSE va \in good : \A vb \in good : va <= vb

\* pmm_alloc_contiguous() finds the first aligned run of free pages, and fails only if there is none.
RunIsTheFirst ==
  \A a \in Arenas, n \in Sizes, al \in Aligns :
    LET good == {q \in PagesOf(a) : q % al = 0 /\ q..(q + n - 1) \subseteq PagesOf(a) \ pmm.nonfree}
        at == FindRun(pmm, a, n, al)
    IN Added[a].kmap =>
         at = IF good = {} THEN -1 ELSE (CHOOSE q \in good : \A r \in good : q <= r) - Added[a].base
=============================================================================
