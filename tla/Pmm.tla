-------------------------------- MODULE Pmm --------------------------------
(***************************************************************************)
(* kernel/vm/pmm.c: the physical page allocator.  A page is named by its   *)
(* physical page number, an alignment is a number of pages.  The state of  *)
(* the allocator is a record                                               *)
(*   free_list    each arena's list of free pages, first the head          *)
(*   free_count   each arena's count of them                               *)
(*   nonfree      the pages flagged VM_PAGE_FLAG_NONFREE                   *)
(* and each operation, made with the allocator's lock held, maps such a    *)
(* record and its arguments to a record [pmm, list]: the new state and the *)
(* pages added to the caller's list.                                       *)
(***************************************************************************)
EXTENDS Integers, Sequences, SequencesExt

CONSTANT Added    \* the arenas in the order the platform adds them: [base, size, priority, kmap]

Arenas == 1..Len(Added)
PagesOf(a) == Added[a].base..(Added[a].base + Added[a].size - 1)
Pages == UNION {PagesOf(a) : a \in Arenas}
Smaller(a, b) == IF a < b THEN a ELSE b
RoundUp(n, align) == ((n + align - 1) \div align) * align

\* pmm_add_arena(): before the first arena with a higher priority number
pmm_add_arena(list, arena) ==
  LET after == {i \in 1..Len(list) : Added[list[i]].priority > Added[arena].priority}
      at == IF after = {} THEN Len(list) + 1 ELSE CHOOSE i \in after : \A j \in after : i <= j
  IN InsertAt(list, at, arena)

arena_list == FoldLeft(pmm_add_arena, <<>>, [a \in Arenas |-> a])

FreshPmm ==
  [free_list |-> [a \in Arenas |-> [i \in 1..Added[a].size |-> Added[a].base + i - 1]],
   free_count |-> [a \in Arenas |-> Added[a].size],
   nonfree |-> {}]

\* from the head of the arenas' lists, as many as there are
pmm_alloc_pages(p, count) ==
  LET take(s, a) ==
        LET n == Smaller(count - Len(s.list), s.pmm.free_count[a])
            got == SubSeq(s.pmm.free_list[a], 1, n)
        IN [pmm |-> [free_list |-> [s.pmm.free_list EXCEPT ![a] = SubSeq(@, n + 1, Len(@))],
                     free_count |-> [s.pmm.free_count EXCEPT ![a] = @ - n],
                     nonfree |-> s.pmm.nonfree \cup ToSet(got)],
            list |-> s.list \o got]
  IN FoldLeft(take, [pmm |-> p, list |-> <<>>], arena_list)

\* Take these pages of arena a, wherever they are in its list.
TakeRun(s, a, run) ==
  [pmm |-> [free_list |-> [s.pmm.free_list EXCEPT ![a] = SelectSeq(@, LAMBDA q : q \notin ToSet(run))],
            free_count |-> [s.pmm.free_count EXCEPT ![a] = @ - Len(run)],
            nonfree |-> s.pmm.nonfree \cup ToSet(run)],
   list |-> s.list \o run]

\* from this address on, up to the first page that is taken or in no arena
pmm_alloc_range(p, address, count) ==
  LET extend(s, a) ==
        LET at == address + Len(s.list)
            fits == {n \in 0..(count - Len(s.list)) :
                       \A q \in at..(at + n - 1) : q \in PagesOf(a) \ s.pmm.nonfree}
            n == CHOOSE m \in fits : \A k \in fits : k <= m
        IN TakeRun(s, a, [i \in 1..n |-> at + i - 1])
  IN FoldLeft(extend, [pmm |-> p, list |-> <<>>], arena_list)

\* Fault: the search starts again at the page after the broken run, whatever its alignment.
RestartUnaligned(start, offset, i, align) == start + i + 1

\* where the search goes on after page i of the run at start was found taken
NextStart(start, offset, i, align) == RoundUp(start - offset + i + 1, align) + offset

\* The first run of count pages of this arena whose address is aligned: its index, or -1.
FindRun(p, a, count, align) ==
  LET base == Added[a].base
      offset == RoundUp(base, align) - base
      taken(start) == {i \in 0..(count - 1) : base + start + i \in p.nonfree}
      search[start \in 0..(Added[a].size + align)] ==
        IF start + count > Added[a].size THEN -1
        ELSE IF taken(start) = {} THEN start
        ELSE search[NextStart(start, offset, CHOOSE i \in taken(start) : \A j \in taken(start) : i <= j, align)]
  IN IF ~Added[a].kmap \/ offset > Added[a].size - 1 THEN -1 ELSE search[offset]

\* a whole run, or nothing
pmm_alloc_contiguous(p, count, align) ==
  LET try(s, a) == LET start == FindRun(p, a, count, align)
                   IN IF s.list # <<>> \/ start = -1 THEN s
                      ELSE TakeRun(s, a, [i \in 1..count |-> Added[a].base + start + i - 1])
  IN FoldLeft(try, [pmm |-> p, list |-> <<>>], arena_list)

\* to the head of the arena's list, one after the other
pmm_free(p, list) ==
  LET back(a) == SelectSeq(Reverse(list), LAMBDA q : q \in PagesOf(a))
  IN [free_list |-> [a \in Arenas |-> back(a) \o p.free_list[a]],
      free_count |-> [a \in Arenas |-> p.free_count[a] + Len(back(a))],
      nonfree |-> p.nonfree \ ToSet(list)]

\* one page from anywhere, or a run
pmm_alloc_kpages(p, count) ==
  IF count = 1 THEN pmm_alloc_pages(p, 1) ELSE pmm_alloc_contiguous(p, count, 1)
=============================================================================
