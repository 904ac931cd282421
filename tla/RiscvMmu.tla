------------------------------ MODULE RiscvMmu ------------------------------
(***************************************************************************)
(* arch/riscv/mmu.cc: one walker with callbacks.  Tables are freed only    *)
(* with their address space; the kernel's tables below the top are there   *)
(* from the start, and a user's top table takes a copy of the links.       *)
(***************************************************************************)
EXTENDS PageTables

CONSTANTS
  KernelTop,     \* kernel_pgtable, a table of its own outside the pmm
  KernelL2,      \* kernel_l2_pgtable: from the top indices of the kernel to tables outside the pmm
  KernelName     \* the kernel's address space

\* flags the entry has bits for: R is always set, W unless the page is read only; caching is not kept
mmu_flags_to_pte(flags) ==
  {"R"} \cup (IF "ro" \in flags THEN {} ELSE {"W"}) \cup (IF "nx" \in flags THEN {} ELSE {"X"})
        \cup (IF "user" \in flags THEN {"U"} ELSE {})

pte_flags_to_mmu_flags(pte) ==
  (IF pte \cap {"R", "W"} = {"R"} THEN {"ro"} ELSE {}) \cup (IF "X" \in pte THEN {} ELSE {"nx"})
    \cup (IF "U" \in pte THEN {"user"} ELSE {})

\* alloc_ptable(): a page, on the list of the address space
alloc_ptable(mem, as) ==
  [TakeTable(mem) EXCEPT !.pt_list[as] = @ \cup {NextTable(mem)}]

\* riscv_pt_walk() with map_cb for one page: tables are made on the way down.  (A page that is mapped
\* already is a panic, and has no case here.)
RECURSIVE MapPage(_, _, _, _, _, _, _)
MapPage(mem, as, t, level, va, pa, attrs) ==
  LET index == IndexOf(va, level)
      e == mem.tbl[t][index]
  IN CASE IsLink(e) -> MapPage(mem, as, e.table, level - 1, va, pa, attrs)
       [] e = NULL /\ level = 0 -> [mem |-> SetEntry(mem, t, index, Mapping(pa, attrs)), ok |-> TRUE]
       [] e = NULL /\ level > 0 /\ mem.free = {} -> [mem |-> mem, ok |-> FALSE]
       [] e = NULL /\ level > 0 /\ mem.free # {} ->
            MapPage(SetEntry(alloc_ptable(mem, as), t, index, Link(NextTable(mem))),
                    as, NextTable(mem), level - 1, va, pa, attrs)

\* The pages one after the other; what is mapped when one fails stays.
RECURSIVE RiscvMap(_, _, _, _, _, _, _)
RiscvMap(mem, as, root, va, pa, n, flags) ==
  LET r == MapPage(mem, as, root, Levels - 1, va, pa, mmu_flags_to_pte(flags))
  IN IF r.ok /\ n > 1 THEN RiscvMap(r.mem, as, root, va + 1, pa + 1, n - 1, flags) ELSE r

\* riscv_pt_walk() with unmap_cb for one page: an empty place is skipped
RECURSIVE UnmapPage(_, _, _, _)
UnmapPage(mem, t, level, va) ==
  LET index == IndexOf(va, level)
      e == mem.tbl[t][index]
  IN IF IsLink(e) THEN UnmapPage(mem, e.table, level - 1, va) ELSE SetEntry(mem, t, index, NULL)

riscv_tlb_flush_vma_range(mem, va, n) == [mem EXCEPT !.inv = @ \cup (va..(va + n - 1))]

RECURSIVE UnmapPages(_, _, _, _)
UnmapPages(mem, root, va, n) ==
  IF n = 0 THEN mem ELSE UnmapPages(UnmapPage(mem, root, Levels - 1, va), root, va + 1, n - 1)

RiscvUnmap(mem, root, va, n) == riscv_tlb_flush_vma_range(UnmapPages(mem, root, va, n), va, n)

RiscvQuery(mem, root, va) ==
  LET e == Walk(mem, root, va, Levels - 1)
  IN IF e = NULL THEN NULL ELSE [pa |-> e.pa, flags |-> pte_flags_to_mmu_flags(e.attrs)]

\* what a user's top table starts with: the kernel's links, as riscv_early_mmu_init() made them
CopyOfKernel(table) == [i \in DOMAIN table |-> IF i \in DOMAIN KernelL2 THEN Link(KernelL2[i]) ELSE NULL]

RiscvInit(mem, as) ==
  LET m == alloc_ptable(mem, as)
  IN [m EXCEPT !.tbl[NextTable(mem)] = CopyOfKernel(@)]

\* Fault: only the top table is freed.
FreesTop(mem, as, root) == FreeTable([mem EXCEPT !.pt_list[as] = {}], root)

RiscvDestroy(mem, as, root) ==
  [mem EXCEPT !.free = @ \cup mem.pt_list[as], !.pt_list[as] = {},
              !.tbl = [t \in DOMAIN @ |-> IF t \in mem.pt_list[as] THEN EmptyTable ELSE @[t]]]
=============================================================================
