------------------------------- MODULE X86Mmu -------------------------------
(***************************************************************************)
(* arch/x86/mmu.c: one address space, pages mapped one by one, tables freed *)
(* on the way up when an unmap leaves them empty, one processor.           *)
(***************************************************************************)
EXTENDS PageTables

\* a device mapping has no bit of its own, and is not taken for an uncached one either
get_x86_arch_flags(flags) ==
  (IF "ro" \in flags THEN {} ELSE {"RW"}) \cup (IF "user" \in flags THEN {"U"} ELSE {})
    \cup (IF "uncached" \in flags THEN {"PCD"} ELSE {}) \cup (IF "nx" \in flags THEN {"NX"} ELSE {})

get_arch_mmu_flags(bits) ==
  (IF "RW" \in bits THEN {} ELSE {"ro"}) \cup (IF "U" \in bits THEN {"user"} ELSE {})
    \cup (IF "PCD" \in bits THEN {"uncached"} ELSE {}) \cup (IF "NX" \in bits THEN {"nx"} ELSE {})

\* x86_mmu_add_mapping(): missing tables are made on the way down, and stay if one cannot be had
RECURSIVE x86_mmu_add_mapping(_, _, _, _, _, _)
x86_mmu_add_mapping(mem, t, level, va, pa, bits) ==
  LET index == IndexOf(va, level)
      e == mem.tbl[t][index]
  IN IF level = 0 THEN [mem |-> SetEntry(mem, t, index, Mapping(pa, bits)), ok |-> TRUE]
     ELSE IF e # NULL THEN x86_mmu_add_mapping(mem, e.table, level - 1, va, pa, bits)
     ELSE IF mem.free = {} THEN [mem |-> mem, ok |-> FALSE]
     ELSE x86_mmu_add_mapping(SetEntry(TakeTable(mem), t, index, Link(NextTable(mem))),
                              NextTable(mem), level - 1, va, pa, bits)

tlbsync_local(mem, va) == [mem EXCEPT !.inv = @ \cup {va}]

RECURSIVE x86_mmu_unmap_entry(_, _, _, _)
x86_mmu_unmap_entry(mem, t, level, va) ==
  LET index == IndexOf(va, level)
      e == mem.tbl[t][index]
      below == x86_mmu_unmap_entry(mem, e.table, level - 1, va)
  IN IF e = NULL THEN mem
     ELSE IF level = 0 THEN tlbsync_local(SetEntry(mem, t, index, NULL), va)
     ELSE IF IsClear(below.tbl[e.table])
     THEN FreeTable(tlbsync_local(SetEntry(below, t, index, NULL), va), e.table)
     ELSE below

RECURSIVE X86Unmap(_, _, _, _)
X86Unmap(mem, root, va, n) ==
  IF n = 0 THEN mem ELSE X86Unmap(x86_mmu_unmap_entry(mem, root, Levels - 1, va), root, va + 1, n - 1)

\* x86_mmu_map_range(): the pages before the one that fails are unmapped
RECURSIVE x86_mmu_map_range(_, _, _, _, _, _, _)
x86_mmu_map_range(mem, root, va, pa, n, flags, index) ==
  LET r == x86_mmu_add_mapping(mem, root, Levels - 1, va + index, pa + index, get_x86_arch_flags(flags))
  IN IF index = n THEN [mem |-> mem, ok |-> TRUE]
     ELSE IF ~r.ok THEN [mem |-> X86Unmap(r.mem, root, va, index), ok |-> FALSE]
     ELSE x86_mmu_map_range(r.mem, root, va, pa, n, flags, index + 1)

X86Map(mem, root, va, pa, n, flags) == x86_mmu_map_range(mem, root, va, pa, n, flags, 0)

X86Query(mem, root, va) ==
  LET e == Walk(mem, root, va, Levels - 1)
  IN IF e = NULL THEN NULL ELSE [pa |-> e.pa, flags |-> get_arch_mmu_flags(e.attrs)]
=============================================================================
