------------------------------- MODULE ArmMmu -------------------------------
(***************************************************************************)
(* arch/arm64/mmu.c: mappings of whole blocks where address and size allow *)
(* it, tables freed as they empty, a failed map undone by the call itself. *)
(***************************************************************************)
EXTENDS PageTables

CONSTANT BlockMax      \* MMU_PTE_DESCRIPTOR_BLOCK_MAX_SHIFT, as a level

\* flags and descriptor attributes: sets of the bits that are set
mmu_flags_to_pte_attr(flags) ==
  (flags \cap {"uncached", "device", "user", "ro", "ns"})
    \cup (IF "nx" \in flags THEN {"uxn", "pxn"} ELSE IF "user" \in flags THEN {"pxn"} ELSE {"uxn"})

ArmFlags(attrs) ==
  (attrs \cap {"uncached", "device", "user", "ro", "ns"})
    \cup (IF (IF "user" \in attrs THEN "uxn" ELSE "pxn") \in attrs THEN {"nx"} ELSE {})

\* Fault: the last entry of a table is not looked at.
ClearButTheLast(table) == \A i \in 0..(Fanout - 2) : table[i] = NULL

page_table_is_clear(table) == IsClear(table)

\* Fault: the translation is invalidated only for a page, not for a block.
TlbiPages(mem, va, level) == IF level = 0 THEN [mem EXCEPT !.inv = @ \cup {va}] ELSE mem

\* the TLBI by address, broadcast to the inner shareable domain
ARM64_TLBI(mem, va, level) == [mem EXCEPT !.inv = @ \cup {va}]

\* size pages from va, at rel in the range of table t; a block goes as a whole
RECURSIVE arm64_mmu_unmap_pt(_, _, _, _, _, _)
arm64_mmu_unmap_pt(mem, t, level, va, rel, size) ==
  IF size = 0 THEN mem
  ELSE LET block == Span(level)
           rem == rel % block
           chunk == Min({size, block - rem})
           index == rel \div block
           e == mem.tbl[t][index]
           below == arm64_mmu_unmap_pt(mem, e.table, level - 1, va, rem, chunk)
           m == IF IsLink(e)
                THEN IF chunk = block \/ page_table_is_clear(below.tbl[e.table])
                     THEN FreeTable(SetEntry(below, t, index, NULL), e.table)
                     ELSE below
                ELSE IF e # NULL THEN ARM64_TLBI(SetEntry(mem, t, index, NULL), va, level)
                ELSE mem
       IN arm64_mmu_unmap_pt(m, t, level, va + chunk, rel + chunk, size - chunk)

\* arm64_mmu_get_page_table(): the table under an entry, a new one if there is none; NULL when the pmm
\* has no page or a block is in the way
arm64_mmu_get_page_table(mem, t, index) ==
  LET e == mem.tbl[t][index]
  IN CASE e = NULL /\ mem.free # {} -> SetEntry(TakeTable(mem), t, index, Link(NextTable(mem)))
       [] IsLink(e) -> mem
       [] OTHER -> NULL

NeedsTable(level, rel, pa, chunk) ==
  rel % Span(level) # 0 \/ pa % Span(level) # 0 \/ chunk # Span(level) \/ level > BlockMax

\* The loop of arm64_mmu_map_pt(), done pages into the size it was called for.
RECURSIVE arm64_mmu_map_pt(_, _, _, _, _, _, _, _, _)
arm64_mmu_map_pt(mem, t, level, va, rel, pa, size, attrs, done) ==
  LET block == Span(level)
      at == rel + done
      rem == at % block
      chunk == Min({size - done, block - rem})
      index == at \div block
      next == arm64_mmu_get_page_table(mem, t, index)
      below == arm64_mmu_map_pt(next, next.tbl[t][index].table, level - 1, va + done, rem, pa + done, chunk, attrs, 0)
      entry == Mapping(pa + done, attrs)
      Err(m) == [mem |-> arm64_mmu_unmap_pt(m, t, level, va, rel, done), ok |-> FALSE]
      Continue(m) == arm64_mmu_map_pt(m, t, level, va, rel, pa, size, attrs, done + chunk)
  IN IF done = size THEN [mem |-> mem, ok |-> TRUE]
     ELSE IF NeedsTable(level, at, pa + done, chunk)
     THEN IF next = NULL THEN Err(mem) ELSE IF ~below.ok THEN Err(below.mem) ELSE Continue(below.mem)
     ELSE IF mem.tbl[t][index] # NULL THEN Err(mem) ELSE Continue(SetEntry(mem, t, index, entry))

ArmMap(mem, root, va, pa, n, flags) ==
  arm64_mmu_map_pt(mem, root, Levels - 1, va, va, pa, n, mmu_flags_to_pte_attr(flags), 0)
ArmUnmap(mem, root, va, n) == arm64_mmu_unmap_pt(mem, root, Levels - 1, va, va, n)
ArmQuery(mem, root, va) ==
  LET e == Walk(mem, root, va, Levels - 1)
  IN IF e = NULL THEN NULL ELSE [pa |-> e.pa, flags |-> ArmFlags(e.attrs)]

\* arch_mmu_init_aspace(): a page for the top table; arch_mmu_destroy_aspace() frees no other
ArmInit(mem, as) == TakeTable(mem)
ArmDestroy(mem, as, root) == FreeTable(mem, root)
=============================================================================
