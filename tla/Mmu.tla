-------------------------------- MODULE Mmu --------------------------------
(***************************************************************************)
(* The page tables of the three architectures that have them, driven the   *)
(* way kernel/vm/vmm.c drives them: a region is mapped in one call or page *)
(* by page, the whole region is unmapped when one of the calls fails or    *)
(* when it is freed, an address space is destroyed with its regions        *)
(* unmapped.  arch is one of the three, for good.                          *)
(*                                                                         *)
(* The translation caches of the processors are taken to be as full as     *)
(* they can be: whatever a walk can find is cached at once, and goes only  *)
(* when it is invalidated.                                                 *)
(***************************************************************************)
EXTENDS ArmMmu, RiscvMmu, X86Mmu, Functions

CONSTANTS
  Users,       \* user address spaces
  Cpus,
  Spots,       \* where regions start
  Sizes,       \* pages of a region
  Frames,      \* where physical runs start
  Flags,       \* sets of flags a region can have
  MaxRegions   \* bound: regions at a time, in all address spaces

VARIABLES
  arch,        \* "arm64", "riscv" or "x86"
  mem,         \* the page tables
  others,      \* pages the rest of the kernel holds
  root,        \* the top table of each address space, or NULL
  regions,     \* the regions of each: base, the page at each place, flags
  active,      \* the user address space each processor runs in, or NULL
  tlb          \* the translations each processor has cached

vars == <<arch, mem, others, root, regions, active, tlb>>

Aspaces == Users \cup {KernelName}
Live == {as \in Aspaces : root[as] # NULL}
KernelTables == {KernelTop} \cup {KernelL2[i] : i \in DOMAIN KernelL2}
All == 0..(Fanout ^ Levels - 1)
\* RISC-V has both halves in one tree; arm64 has a tree for each, x86 the kernel only
PagesOf(as) == IF arch # "riscv" THEN All
               ELSE {va \in All : (IndexOf(va, Levels - 1) \in DOMAIN KernelL2) <=> (as = KernelName)}
Running == IF arch = "x86" THEN {CHOOSE c \in Cpus : TRUE} ELSE Cpus

(***************************************************************************)
(* arch_mmu_*() of the architecture                                        *)
(***************************************************************************)
arch_mmu_map(m, as, va, pa, n, flags) ==
  CASE arch = "arm64" -> ArmMap(m, root[as], va, pa, n, flags)
    [] arch = "riscv" -> RiscvMap(m, as, root[as], va, pa, n, flags)
    [] arch = "x86" -> X86Map(m, root[as], va, pa, n, flags)
arch_mmu_unmap(m, as, va, n) ==
  CASE arch = "arm64" -> ArmUnmap(m, root[as], va, n)
    [] arch = "riscv" -> RiscvUnmap(m, root[as], va, n)
    [] arch = "x86" -> X86Unmap(m, root[as], va, n)
arch_mmu_query(as, va) ==
  CASE arch = "arm64" -> ArmQuery(mem, root[as], va)
    [] arch = "riscv" -> RiscvQuery(mem, root[as], va)
    [] arch = "x86" -> X86Query(mem, root[as], va)

(***************************************************************************)
(* Translation caches (hardware)                                           *)
(***************************************************************************)
SpaceOf(as) == IF as = KernelName THEN "kernel" ELSE "user"

\* what a walk from table t can cache
Found(m, t, pages, space) ==
  {[space |-> space, at |-> Extent(m, t, va, Levels - 1), entry |-> Walk(m, t, va, Levels - 1)] :
     va \in {v \in pages : Walk(m, t, v, Levels - 1) # NULL /\ Extent(m, t, v, Levels - 1).base = v}}

\* with user space unloaded, arm64 walks the kernel's tree only, RISC-V has the kernel's top table
Visible(m, rt, as) ==
  LET top == IF arch = "riscv" /\ as # NULL THEN rt[as] ELSE KernelTop
  IN Found(m, top, PagesOf(KernelName), "kernel")
       \cup (IF as = NULL THEN {} ELSE Found(m, rt[as], PagesOf(as), "user"))

Covers(e, va) == va >= e.at.base /\ va < e.at.base + e.at.pages
Survivors(cached, as, inv) == {e \in cached : ~(e.space = SpaceOf(as) /\ \E va \in inv : Covers(e, va))}

\* Every processor drops what was invalidated, and caches what it can see then.
Refill(m, as) ==
  /\ mem' = [m EXCEPT !.inv = {}]
  /\ tlb' = [c \in Cpus |-> IF c \in Running
                            THEN Survivors(tlb[c], as, m.inv) \cup Visible(m, root', active'[c])
                            ELSE {}]

(***************************************************************************)
(* The kernel's calls, each under vmm_lock                                 *)
(***************************************************************************)
PagesFrom(r) == r.base..(r.base + Len(r.pas) - 1)
CanHold(as, pages) ==
  /\ FoldFunction(+, 0, [a \in Aspaces |-> Cardinality(regions[a])]) < MaxRegions
  /\ pages \subseteq PagesOf(as)
  /\ \A r \in regions[as] : PagesFrom(r) \cap pages = {}

\* one call, or as many as there are pages, until one fails
RECURSIVE MapPages(_, _, _, _, _)
MapPages(m, as, va, pas, flags) ==
  LET r == arch_mmu_map(m, as, va, Head(pas), 1, flags)
  IN IF r.ok /\ Len(pas) > 1 THEN MapPages(r.mem, as, va + 1, Tail(pas), flags) ELSE r

\* r is what became of the calls
MapEnds(as, region, r) ==
  /\ regions' = IF r.ok THEN [regions EXCEPT ![as] = @ \cup {region}] ELSE regions
  /\ UNCHANGED <<arch, others, root, active>>
  /\ Refill(IF r.ok THEN r.mem ELSE arch_mmu_unmap(r.mem, as, region.base, Len(region.pas)), as)

\* vmm_alloc_physical(), vmm_alloc_contiguous()
MapRun(as, va, pa, n, flags) ==
  LET region == [base |-> va, pas |-> [i \in 1..n |-> pa + i - 1], flags |-> flags]
  IN /\ as \in Live /\ CanHold(as, PagesFrom(region))
     /\ MapEnds(as, region, arch_mmu_map(mem, as, va, pa, n, flags))

\* vmm_alloc(): pages from the pmm's list, in falling order here
MapList(as, va, pa, n, flags) ==
  LET region == [base |-> va, pas |-> [i \in 1..n |-> pa + n - i], flags |-> flags]
  IN /\ as \in Live /\ n > 1 /\ CanHold(as, PagesFrom(region))
     /\ MapEnds(as, region, MapPages(mem, as, va, region.pas, flags))

\* vmm_free_region()
UnmapRegion(as, r) ==
  /\ as \in Live /\ r \in regions[as]
  /\ regions' = [regions EXCEPT ![as] = @ \ {r}]
  /\ UNCHANGED <<arch, others, root, active>>
  /\ Refill(arch_mmu_unmap(mem, as, r.base, Len(r.pas)), as)

\* arch_mmu_init_aspace() of a user address space, from vmm_create_aspace()
arch_mmu_init_aspace(as) ==
  /\ arch # "x86" /\ root[as] = NULL /\ mem.free # {}
  /\ root' = [root EXCEPT ![as] = NextTable(mem)]
  /\ UNCHANGED <<arch, others, regions, active>>
  /\ Refill(IF arch = "arm64" THEN ArmInit(mem, as) ELSE RiscvInit(mem, as), as)

\* vmm_free_aspace() on processor c: every region is unmapped, then the tables go.  No other
\* processor runs in the address space.
arch_mmu_destroy_aspace(c, as) ==
  LET unmap(r, m) == arch_mmu_unmap(m, as, r.base, Len(r.pas))
      m1 == FoldSet(unmap, mem, regions[as])
  IN /\ as \in Live \ {KernelName}
     /\ \A d \in Cpus \ {c} : active[d] # as
     /\ regions' = [regions EXCEPT ![as] = {}]
     /\ root' = [root EXCEPT ![as] = NULL]
     /\ active' = [active EXCEPT ![c] = IF @ = as THEN NULL ELSE @]
     /\ UNCHANGED <<arch, others>>
     /\ Refill(IF arch = "arm64" THEN ArmDestroy(m1, as, root[as]) ELSE RiscvDestroy(m1, as, root[as]), as)

\* arm64: TLBI ASIDE1 when a user address space is loaded; RISC-V: sfence.vma of everything
AfterSwitch(cached, as) ==
  IF arch = "arm64" THEN {e \in cached : as = NULL \/ e.space = "kernel"} ELSE {}

\* arch_mmu_context_switch(), from vmm_context_switch()
arch_mmu_context_switch(c, as) ==
  /\ arch # "x86" /\ as # active[c] /\ as \in (Live \ {KernelName}) \cup {NULL}
  /\ active' = [active EXCEPT ![c] = as]
  /\ tlb' = [tlb EXCEPT ![c] = AfterSwitch(@, as) \cup Visible(mem, root, as)]
  /\ UNCHANGED <<arch, mem, others, root, regions>>

\* the rest of the kernel takes and gives back pages
OthersTake ==
  /\ mem.free # {}
  /\ mem' = [mem EXCEPT !.free = @ \ {NextTable(mem)}] /\ others' = others \cup {NextTable(mem)}
  /\ UNCHANGED <<arch, root, regions, active, tlb>>
OthersGive ==
  /\ others # {}
  /\ mem' = [mem EXCEPT !.free = @ \cup {Min(others)}] /\ others' = others \ {Min(others)}
  /\ UNCHANGED <<arch, root, regions, active, tlb>>

Init ==
  /\ arch \in {"arm64", "riscv", "x86"}
  /\ mem = [tbl |-> [t \in Tables \cup KernelTables |->
                       IF t = KernelTop /\ arch = "riscv" THEN CopyOfKernel(EmptyTable) ELSE EmptyTable],
            free |-> Tables, pt_list |-> [as \in Aspaces |-> {}], inv |-> {}]
  /\ others = {} /\ regions = [as \in Aspaces |-> {}]
  /\ root = [as \in Aspaces |-> IF as = KernelName THEN KernelTop ELSE NULL]
  /\ active = [c \in Cpus |-> NULL] /\ tlb = [c \in Cpus |-> {}]

Next ==
  \/ \E as \in Aspaces, va \in Spots, pa \in Frames, n \in Sizes, f \in Flags :
       MapRun(as, va, pa, n, f) \/ MapList(as, va, pa, n, f)
  \/ \E as \in Aspaces : \E r \in regions[as] : UnmapRegion(as, r)
  \/ \E as \in Users : arch_mmu_init_aspace(as)
  \/ \E c \in Cpus, as \in Users : arch_mmu_destroy_aspace(c, as)
  \/ \E c \in Cpus, as \in Users \cup {NULL} : arch_mmu_context_switch(c, as)
  \/ OthersTake \/ OthersGive

Spec == Init /\ [][Next]_vars

(***************************************************************************)
(* Properties                                                              *)
(***************************************************************************)
\* Types of the state.
TypeOK ==
  /\ arch \in {"arm64", "riscv", "x86"}
  /\ mem.free \subseteq Tables /\ others \subseteq Tables \ mem.free
  /\ \A as \in Aspaces : root[as] \in Tables \cup {KernelTop, NULL}
  /\ active \in [Cpus -> Users \cup {NULL}]

\* arch_mmu_query() finds at every address the page and the flags of the region that is there, and
\* nothing where there is none: whatever was mapped, unmapped, refused for want of a table, or done in
\* another address space.  On RISC-V a user's tree shows the kernel's half as the kernel's own does.
MapsFollowRegions ==
  \A as \in Live :
    /\ \A va \in PagesOf(as) :
         LET here == {r \in regions[as] : va \in PagesFrom(r)}
         IN IF here = {} THEN arch_mmu_query(as, va) = NULL
            ELSE \A r \in here : arch_mmu_query(as, va) = [pa |-> r.pas[va - r.base + 1], flags |-> r.flags]
    /\ arch = "riscv" => \A va \in PagesOf(KernelName) : arch_mmu_query(as, va) = arch_mmu_query(KernelName, va)

\* A mapping asked for as device memory is at least uncached, where the tables can say so: ARCH_MMU_FLAG_UNCACHED_DEVICE
\* "only exists on some arches, otherwise UNCACHED".  (x86 tests one bit of the two, and caches it.)
DeviceIsUncached ==
  arch = "x86" => \A r \in regions[KernelName] : \A va \in PagesFrom(r) :
    "device" \in r.flags => arch_mmu_query(KernelName, va).flags \cap {"device", "uncached"} # {}

\* No table is lost, shared or freed while it is linked: the pages that are neither free nor in other
\* hands are the tables under the top tables, each under one link.  On arm64 and x86 none of them but a
\* top table is empty, which a map refused half way would leave; on RISC-V the list that frees them is right.
TablesAddUp ==
  LET under(as) == TablesUnder(mem, root[as]) \ KernelTables
      held == Tables \ (mem.free \cup others)
      tables == UNION {under(as) : as \in Live}
      links == {<<t, i>> \in (tables \cup {KernelTop}) \X (0..(Fanout - 1)) :
                  IsLink(mem.tbl[t][i]) /\ mem.tbl[t][i].table \notin KernelTables}
      roots == {root[as] : as \in Live}
  IN /\ held = tables
     /\ arch # "riscv" => /\ Cardinality(links) = Cardinality(tables \ roots)
                          /\ \A t \in tables \ roots : ~IsClear(mem.tbl[t])
     /\ arch = "riscv" => \A as, bs \in Live : /\ under(as) \ under(KernelName) = mem.pt_list[as] \ mem.pt_list[KernelName]
                                               /\ as # bs => mem.pt_list[as] \cap mem.pt_list[bs] = {}

\* No translation outlives its mapping: what a processor has cached is what the tables of the address
\* space it runs in, or of the kernel, still say; with user space unloaded, of some address space.
TlbIsCurrent ==
  \A c \in Running : \A e \in tlb[c] :
    IF e.space = "kernel" THEN e \in Visible(mem, root, NULL)
    ELSE \E as \in (IF active[c] = NULL THEN Live \ {KernelName} ELSE {active[c]}) : e \in Visible(mem, root, as)
=============================================================================
