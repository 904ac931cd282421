----------------------------- MODULE PageTables -----------------------------
(***************************************************************************)
(* Page tables in memory, as the MMU drivers of arch/arm64, arch/riscv and *)
(* arch/x86 have them: a table has Fanout entries, each empty, a link to a *)
(* table one level down, or a mapping.  Level 0 is the lowest; addresses   *)
(* count pages.  mem.tbl holds the tables, mem.free the pages the pmm can  *)
(* still give, mem.pt_list the tables of each address space (RISC-V), and  *)
(* mem.inv the addresses whose translations were invalidated.              *)
(***************************************************************************)
EXTENDS Integers, Sequences, FiniteSets, FiniteSetsExt

CONSTANTS
  Levels,      \* depth of the tree
  Fanout,      \* entries per table
  Tables,      \* the pages that can hold a table, numbers
  NULL

Span(level) == Fanout ^ level                          \* pages under one entry
IndexOf(va, level) == (va \div Span(level)) % Fanout
EmptyTable == [i \in 0..(Fanout - 1) |-> NULL]
Link(t) == [table |-> t]
Mapping(pa, attrs) == [pa |-> pa, attrs |-> attrs]
IsLink(e) == e # NULL /\ "table" \in DOMAIN e
IsClear(table) == table = EmptyTable

SetEntry(mem, t, i, e) == [mem EXCEPT !.tbl[t][i] = e]

\* pmm_alloc_page() and the memset() that follows it in every driver: the tables of free pages are empty
NextTable(mem) == Min(mem.free)
TakeTable(mem) == [mem EXCEPT !.free = @ \ {NextTable(mem)}]
FreeTable(mem, t) == [mem EXCEPT !.free = @ \cup {t}, !.tbl[t] = EmptyTable]

\* What the walk of the hardware, and arch_mmu_query(), find for a page: the mapping moved to it, or NULL.
RECURSIVE Walk(_, _, _, _)
Walk(mem, t, va, level) ==
  LET e == mem.tbl[t][IndexOf(va, level)]
  IN IF e = NULL THEN NULL
     ELSE IF IsLink(e) THEN Walk(mem, e.table, va, level - 1)
     ELSE Mapping(e.pa + (va % Span(level)), e.attrs)

\* The tables under t, t itself included.
RECURSIVE TablesUnder(_, _)
TablesUnder(mem, t) ==
  {t} \cup UNION {TablesUnder(mem, mem.tbl[t][i].table) : i \in {j \in 0..(Fanout - 1) : IsLink(mem.tbl[t][j])}}

\* The first page and the number of pages of the mapping that covers va.
RECURSIVE Extent(_, _, _, _)
Extent(mem, t, va, level) ==
  LET e == mem.tbl[t][IndexOf(va, level)]
  IN IF IsLink(e) THEN Extent(mem, e.table, va, level - 1)
     ELSE [base |-> va - (va % Span(level)), pages |-> Span(level)]
=============================================================================
