------------------------------- MODULE Cmpct -------------------------------
(***************************************************************************)
(* The kernel heap: lib/heap/cmpctmalloc/cmpctmalloc.c behind the malloc   *)
(* interface of lib/heap/heap_wrapper.c, over the pages of                 *)
(* lib/heap/page_alloc.c.                                                  *)
(*                                                                         *)
(* The heap is one record h, so that the C functions that work under the   *)
(* heap's lock are operators from heap to heap and a critical section is   *)
(* one step.  Sizes and addresses are bytes, with the real sizes of        *)
(* header_t and free_t on a 64-bit build; the page and the largest bucket  *)
(* are scaled down.  h.mem holds the headers: left, the size and the tag.  *)
(* A function that takes the lock more than once (memalign, realloc and    *)
(* the delayed frees) is one step for each time.                           *)
(***************************************************************************)
EXTENDS Integers, Sequences, FiniteSets, FiniteSetsExt, SequencesExt, TLC

CONSTANTS
  Threads,        \* the threads that allocate
  PageSize,       \* PAGE_SIZE
  GrowSize,       \* HEAP_GROW_SIZE
  VirtualBits,    \* HEAP_ALLOC_VIRTUAL_BITS
  NumPages,       \* pages the page allocator has; bound
  Sizes,          \* sizes asked for; bound
  Aligns,         \* alignments asked of memalign; bound
  MaxLive,        \* blocks held at a time; bound
  NULL

VARIABLES
  h,        \* theheap and the memory behind it
  live,     \* ghost: payload -> [size, align] of each block a caller holds
  delayed,  \* delayed_free_list
  calls     \* what each thread still has to do

vars == <<h, live, delayed, calls>>

Header == 16     \* sizeof(header_t)
FreeT == 32      \* sizeof(free_t)
MaxBucketed == 2 ^ VirtualBits
NUMBER_OF_BUCKETS == 1 + 15 + (VirtualBits - 7) * 8
Buckets == 0 .. NUMBER_OF_BUCKETS - 1

ROUNDUP(a, b) == ((a + b - 1) \div b) * b
ROUNDDOWN(a, b) == (a \div b) * b
Larger(a, b) == IF a > b THEN a ELSE b
Smaller(a, b) == IF a < b THEN a ELSE b

---------------------------------------------------------------------------
(* Buckets.  row is 60 - clzl(size), that is log2(size) - 3.               *)

Row(size) == CHOOSE r \in 0 .. VirtualBits + 4 :
                2 ^ (r + 3) <= size /\ size < 2 ^ (r + 4)

\* size_to_index_helper; rounded is *rounded_up_out.
size_to_index_helper(size, adjust, increment) ==
  IF size <= 128
  THEN [rounded |-> IF size <= FreeT - Header THEN FreeT - Header ELSE size,
        index |-> (size \div 8) - 1]
  ELSE LET s == size + adjust
           row == Row(s)
           rc == row * 8 + ((s \div 2 ^ row) % 8) + increment
       IN [rounded |-> (8 + (rc % 8)) * 2 ^ (rc \div 8), index |-> rc + 15 - 32]

size_to_index_allocating(size) == size_to_index_helper(ROUNDUP(size, 8), -8, 1)

size_to_index_freeing(size) == size_to_index_helper(size, 0, 0).index

\* The first bucket from index up whose bit is set, or -1.
find_nonempty_bucket(hp, index) ==
  LET above == {b \in hp.bits : b >= index}
  IN IF above = {} THEN -1 ELSE CHOOSE b \in above : \A c \in above : b <= c

---------------------------------------------------------------------------
(* Headers and free areas.                                                 *)

right_header(hp, a) == a + hp.mem[a].size
WithHeader(hp, a, left, size, free) ==
  [hp EXCEPT !.mem = (a :> [left |-> left, size |-> size, free |-> free]) @@ @]
WithoutHeaders(hp, S) ==
  [hp EXCEPT !.mem = [a \in DOMAIN hp.mem \ S |-> hp.mem[a]]]

is_start_of_os_allocation(hp, a) == hp.mem[a].left = NULL
is_end_of_os_allocation(hp, a) == hp.mem[a].size = 0

create_allocation_header(hp, a, size, left) == WithHeader(hp, a, left, size, FALSE)

FixLeftPointer(hp, right, left) == [hp EXCEPT !.mem[right].left = left]

\* create_free_area with no bucket given.  An index past the last bucket
\* fails the assertion of size_to_index_helper.
create_free_area(hp, a, left, size) ==
  LET b == size_to_index_freeing(size - Header)
      n == [WithHeader(hp, a, left, size, TRUE) EXCEPT !.remaining = @ + size]
  IN IF b \in Buckets
     THEN [n EXCEPT !.bits = @ \cup {b}, !.lists[b] = <<a>> \o @]
     ELSE [n EXCEPT !.broken = "bucket"]

\* Fault: the bit is cleared when the head goes, whatever follows it.
ClearWithHead(hp, a, b) ==
  [hp EXCEPT !.remaining = @ - hp.mem[a].size,
             !.lists[b] = SelectSeq(@, LAMBDA x : x # a),
             !.bits = IF Head(hp.lists[b]) = a THEN @ \ {b} ELSE @]

unlink_free(hp, a, b) ==
  LET rest == SelectSeq(hp.lists[b], LAMBDA x : x # a)
  IN [hp EXCEPT !.remaining = @ - hp.mem[a].size,
                !.lists[b] = rest,
                !.bits = IF rest = <<>> THEN @ \ {b} ELSE @]

unlink_free_unknown_bucket(hp, a) ==
  unlink_free(hp, a, size_to_index_freeing(hp.mem[a].size - Header))

PagesOf(a, size) == {n \in 1 .. NumPages : a <= n * PageSize /\ n * PageSize < a + size}

\* page_free of the pages from a up, with the size counter that follows it.
page_free(hp, a, size) ==
  [hp EXCEPT !.pages = @ \ PagesOf(a, size), !.size = @ - size]

\* Fault: memory goes to a free list although the whole OS allocation is free.
NeverToOs(hp, a, left, size) == create_free_area(hp, a, left, size)

free_memory(hp, a, left, size) ==
  IF /\ left % PageSize = 0
     /\ is_start_of_os_allocation(hp, left)
     /\ is_end_of_os_allocation(hp, a + size)
  THEN LET all == size + hp.mem[left].size + Header
       IN page_free(WithoutHeaders(hp, left .. left + all - 1), left, all)
  ELSE create_free_area(hp, a, left, size)

---------------------------------------------------------------------------
(* Growing.  p is the first page the page allocator found: pmm and novm    *)
(* both give contiguous pages and fail when they have no such run.         *)

GrossSize(size) == ROUNDUP(size + 2 * Header, PageSize)

page_alloc(hp, size) ==
  {p \in 1 .. NumPages : \A n \in p .. p + (size \div PageSize) - 1 :
                            n <= NumPages /\ n \notin hp.pages}

\* heap_grow and add_to_heap up to the free area between the two sentinels.
Sentinels(hp, p, gross) ==
  LET a == p * PageSize
      grown == [hp EXCEPT !.size = @ + gross, !.pages = @ \cup PagesOf(a, gross)]
  IN create_allocation_header(
       create_allocation_header(grown, a, Header, NULL),
       a + gross - Header, 0, a + Header)

heap_grow(hp, size, p) ==
  LET gross == GrossSize(size)
      a == p * PageSize
  IN create_free_area(Sentinels(hp, p, gross), a + Header, a, gross - 2 * Header)

\* The loop of cmpct_alloc: the amount the heap grows by, or 0 for failure.
RECURSIVE GrowBy(_, _, _)
GrowBy(hp, growby, rounded) ==
  IF page_alloc(hp, GrossSize(growby)) # {} THEN growby
  ELSE IF growby <= rounded THEN 0
  ELSE GrowBy(hp, Larger(growby \div 2, rounded), rounded)

---------------------------------------------------------------------------
(* The calls.  Took(hp, p) is a heap and the payload it gave out.          *)

Took(hp, p) == [heap |-> hp, ptr |-> p]

\* Whether the rest of a free area is worth a free area of its own.
CarvesOff(left_over, size) == left_over >= FreeT /\ left_over > size \div 64

\* cmpct_alloc once a bucket has been found.
TakeFrom(hp, bucket, size, rounded) ==
  LET head == Head(hp.lists[bucket])
      left_over == hp.mem[head].size - rounded
      right == right_header(hp, head)
      rest == head + rounded
      out == unlink_free(hp, head, bucket)
      cut == FixLeftPointer(create_free_area(out, rest, head, left_over), right, rest)
  IN IF CarvesOff(left_over, size)
     THEN Took(create_allocation_header(cut, head, rounded, hp.mem[head].left),
               head + Header)
     ELSE Took(create_allocation_header(out, head, hp.mem[head].size, hp.mem[head].left),
               head + Header)

\* large_alloc: it returns with the lock held when the heap cannot grow.
large_alloc(hp, size) ==
  LET gross == GrossSize(ROUNDUP(size, 8))
      area == gross - 2 * Header
  IN IF page_alloc(hp, gross) = {} THEN {Took([hp EXCEPT !.locked = TRUE], NULL)}
     ELSE {Took(create_allocation_header(Sentinels(hp, p, gross),
                                         p * PageSize + Header, area, p * PageSize),
                p * PageSize + 2 * Header) : p \in page_alloc(hp, gross)}

\* cmpct_alloc: the heaps it can leave, one for each place the heap grows at.
cmpct_alloc(hp, size) ==
  LET r == size_to_index_allocating(size)
      rounded == r.rounded + Header
      by == GrowBy(hp, Smaller(MaxBucketed,
                               Larger(hp.size \div 8, Larger(GrowSize, rounded))), rounded)
      From(g) == TakeFrom(g, find_nonempty_bucket(g, r.index), size, rounded)
  IN IF size = 0 THEN {Took(hp, NULL)}
     ELSE IF size + Header > MaxBucketed THEN large_alloc(hp, size)
     ELSE IF find_nonempty_bucket(hp, r.index) # -1 THEN {From(hp)}
     ELSE IF by = 0 THEN {Took(hp, NULL)}
     ELSE {From(heap_grow(hp, by, p)) : p \in page_alloc(hp, GrossSize(by))}

cmpct_free(hp, payload) ==
  LET a == payload - Header
      left == hp.mem[a].left
      right == right_header(hp, a)
      joinsLeft == left # NULL /\ hp.mem[left].free
      joinsRight == hp.mem[right].free
      first == IF joinsLeft THEN left ELSE a
      end == IF joinsRight THEN right_header(hp, right) ELSE right
      h1 == IF joinsLeft THEN unlink_free_unknown_bucket(hp, left) ELSE hp
      h2 == IF joinsRight THEN unlink_free_unknown_bucket(h1, right) ELSE h1
      h3 == FixLeftPointer(h2, end, first)
      gone == ({a} \cup (IF joinsRight THEN {right} ELSE {})) \ {first}
  IN free_memory(WithoutHeaders(h3, gone), first, hp.mem[first].left, end - first)

\* Fault: memalign asks for no room to move the payload to its alignment.
PadsLess(size, align) == size + FreeT + Header

\* What cmpct_memalign asks cmpct_alloc for.
Padded(size, align) == size + align + FreeT + Header

\* The second half of cmpct_memalign: the block is split at the payload.
Payload(un, align) == ROUNDDOWN(un + FreeT + Header + align - 1, align)
SplitAt(hp, un, payload) ==
  LET u == un - Header
      left_over == payload - un
      h1 == create_allocation_header(hp, payload - Header, hp.mem[u].size - left_over, u)
      h2 == FixLeftPointer(h1, right_header(hp, u), payload - Header)
  IN [h2 EXCEPT !.mem[u].size = left_over]

---------------------------------------------------------------------------
(* cmpct_trim, one free area at a time.                                    *)

TrimEnd(hp, a) ==
  LET right == right_header(hp, a)
      newEnd == ROUNDUP(a + Header + FreeT, PageSize)
      freed == ROUNDUP(right, PageSize) - newEnd
      kept == hp.mem[a].size - freed
      out == WithoutHeaders(unlink_free(hp, a, size_to_index_freeing(hp.mem[a].size - Header)),
                            {right})
  IN IF freed = 0 THEN hp
     ELSE page_free(create_free_area(create_allocation_header(out, a + kept, 0, a),
                                     a, hp.mem[a].left, kept),
                    newEnd, freed)

\* Fault: the sentinel keeps its size when too little is left for a free area.
PlainSentinel(kept) == Header

\* The left sentinel takes what is too small to be a free area.
SentinelSize(kept) == IF kept < FreeT THEN Header + kept ELSE Header

\* The sizes assume that the old sentinel was one header long.
TrimStart(hp, a) ==
  LET right == right_header(hp, a)
      left == hp.mem[a].left
      newStart == ROUNDDOWN(right - Header, PageSize)
      freed == newStart - ROUNDDOWN(a, PageSize)
      kept == hp.mem[a].size - freed
      sentinel == SentinelSize(kept)
      out == WithoutHeaders(unlink_free(hp, a, size_to_index_freeing(hp.mem[a].size - Header)),
                            {left, a})
      new == create_allocation_header(out, newStart, sentinel, NULL)
      first == newStart + sentinel
      done == IF kept < FreeT THEN FixLeftPointer(new, right, newStart)
              ELSE FixLeftPointer(create_free_area(new, first, newStart, kept), right, first)
  IN IF freed = 0 THEN hp
     ELSE [page_free(done, ROUNDDOWN(a, PageSize), freed)
             EXCEPT !.broken = IF hp.mem[left].size # Header THEN "torn" ELSE @]

TrimOne(hp, a) ==
  IF is_end_of_os_allocation(hp, right_header(hp, a)) THEN TrimEnd(hp, a)
  ELSE IF is_start_of_os_allocation(hp, hp.mem[a].left) THEN TrimStart(hp, a)
  ELSE hp

\* An area that is cut goes to the head of its list or to a smaller bucket,
\* so the loops visit the areas that were there at the start, once each.
cmpct_trim(hp) ==
  LET from == size_to_index_freeing(PageSize)
      areas == FlattenSeq([i \in 1 .. NUMBER_OF_BUCKETS - from |-> hp.lists[from + i - 1]])
  IN FoldLeft(TrimOne, hp, areas)

---------------------------------------------------------------------------
(* The threads.                                                            *)

Idle == [op |-> "idle"]

\* cmpct_init; the heap starts with one OS allocation that is all free.
EmptyHeap == [mem |-> <<>>, lists |-> [b \in Buckets |-> <<>>], bits |-> {},
              remaining |-> 0, size |-> 0, pages |-> {}, locked |-> FALSE, broken |-> "no"]

Init ==
  /\ h = heap_grow(EmptyHeap, GrowSize - 2 * Header, 1)
  /\ live = <<>>
  /\ delayed = <<>>
  /\ calls = [t \in Threads |-> Idle]

Able == ~h.locked /\ h.broken = "no"

Without(p) == [q \in DOMAIN live \ {p} |-> live[q]]
Kept(r) == IF r.op = "realloc" THEN Without(r.ptr) ELSE live
Goes(t, c) == calls' = [calls EXCEPT ![t] = c]

\* What is left of a call once cmpct_alloc has given it ptr.
Rest(r, ptr) ==
  CASE r.op = "memalign" -> [op |-> "split", ptr |-> ptr, req |-> r]
    [] r.op = "realloc" -> [op |-> "free", ptr |-> r.ptr]
    [] OTHER -> Idle

\* HEAP_MALLOC, HEAP_MEMALIGN and HEAP_REALLOC.  memalign and realloc use what
\* cmpct_alloc gave them without a look at it.
Allocate(t, r) ==
  \E got \in cmpct_alloc(h, IF r.op = "memalign"
                            THEN Padded(r.size, r.align) ELSE r.size) :
    LET faults == got.ptr = NULL /\ r.op # "malloc" /\ r.size > 0
    IN /\ h' = IF faults THEN [got.heap EXCEPT !.broken = "null"] ELSE got.heap
       /\ live' = IF got.ptr = NULL \/ r.op = "memalign" THEN Kept(r)
                  ELSE (got.ptr :> [size |-> r.size, align |-> 8]) @@ Kept(r)
       /\ Goes(t, IF faults THEN Idle ELSE Rest(r, got.ptr))

Perform(t, r) ==
  IF r.op = "trim"
  THEN h' = cmpct_trim(h) /\ Goes(t, Idle) /\ UNCHANGED live
  ELSE Allocate(t, r)

Requests ==
  [op : {"malloc"}, size : Sizes]
  \cup [op : {"memalign"}, size : Sizes \ {0}, align : Aligns]
  \cup [op : {"realloc"}, size : Sizes, ptr : DOMAIN live]
  \cup [op : {"trim"}]

\* malloc, memalign, realloc and heap_trim: the delayed frees come first.
Enter(t, r) ==
  /\ Able /\ calls[t] = Idle
  /\ r.op \in {"malloc", "memalign"} => Cardinality(DOMAIN live) + Len(delayed) < MaxLive
  /\ IF delayed = <<>>
     THEN Perform(t, r) /\ UNCHANGED delayed
     ELSE /\ Goes(t, [op |-> "drain", list |-> Reverse(delayed), req |-> r])
          /\ delayed' = <<>>
          /\ live' = Kept(r)
          /\ UNCHANGED h

\* The second loop of heap_free_delayed_list, then the call itself.
Drain(t) ==
  /\ Able /\ calls[t].op = "drain"
  /\ IF calls[t].list = <<>>
     THEN Perform(t, calls[t].req)
     ELSE /\ h' = cmpct_free(h, Head(calls[t].list))
          /\ Goes(t, [calls[t] EXCEPT !.list = Tail(@)])
          /\ UNCHANGED live
  /\ UNCHANGED delayed

\* The second critical section of cmpct_memalign.
Split(t) ==
  /\ Able /\ calls[t].op = "split"
  /\ LET un == calls[t].ptr
         r == calls[t].req
         p == Payload(un, r.align)
     IN /\ h' = SplitAt(h, un, p)
        /\ live' = (p :> [size |-> r.size, align |-> r.align]) @@ live
        /\ Goes(t, [op |-> "free", ptr |-> un])
  /\ UNCHANGED delayed

\* cmpct_free at the end of cmpct_memalign and of cmpct_realloc.
FreeLast(t) ==
  /\ Able /\ calls[t].op = "free"
  /\ h' = cmpct_free(h, calls[t].ptr)
  /\ Goes(t, Idle)
  /\ UNCHANGED <<live, delayed>>

free(t, p) ==
  /\ Able /\ calls[t] = Idle
  /\ h' = cmpct_free(h, p)
  /\ live' = Without(p)
  /\ UNCHANGED <<delayed, calls>>

\* heap_delayed_free, in a critical section: the heap's lock is not taken.
heap_delayed_free(p) ==
  /\ h.broken = "no"
  /\ delayed' = <<p>> \o delayed
  /\ live' = Without(p)
  /\ UNCHANGED <<h, calls>>

Next ==
  \/ \E t \in Threads, r \in Requests : Enter(t, r)
  \/ \E t \in Threads : Drain(t)
  \/ \E t \in Threads : Split(t)
  \/ \E t \in Threads : FreeLast(t)
  \/ \E t \in Threads, p \in DOMAIN live : free(t, p)
  \/ \E p \in DOMAIN live : heap_delayed_free(p)

Spec == Init /\ [][Next]_vars

---------------------------------------------------------------------------
(* Properties.                                                             *)

Sound == h.broken = "no"
FreeAreas == {a \in DOMAIN h.mem : h.mem[a].free}
InProgress == UNION {CASE calls[t].op = "drain" -> ToSet(calls[t].list)
                             \cup (IF calls[t].req.op = "realloc"
                                   THEN {calls[t].req.ptr} ELSE {})
                       [] calls[t].op \in {"split", "free"} -> {calls[t].ptr}
                       [] OTHER -> {} : t \in Threads}

\* The counters and the places of the state have their types.
TypeOK ==
  /\ h.remaining \in Nat /\ h.size \in Nat /\ h.pages \subseteq 1 .. NumPages
  /\ h.bits \subseteq Buckets /\ h.locked \in BOOLEAN
  /\ h.broken \in {"no", "torn", "bucket", "null"}
  /\ DOMAIN live \cup ToSet(delayed) \cup InProgress \subseteq 0 .. (NumPages + 1) * PageSize

\* The headers tile the pages the heap holds: every area ends where the next one
\* begins, which points back at it, from a sentinel at the start of a page to a
\* sentinel at the end of one; and two free areas are never neighbours, whatever
\* order blocks are split, trimmed, coalesced and freed in.
HeapIsTiled ==
  Sound =>
    /\ \A a \in DOMAIN h.mem :
         LET m == h.mem[a]
             right == a + m.size
         IN /\ m.left = NULL => a % PageSize = 0
            /\ IF m.size = 0 THEN (a + Header) % PageSize = 0
               ELSE /\ right \in DOMAIN h.mem /\ h.mem[right].left = a
                    /\ m.free => ~h.mem[right].free
            /\ PagesOf(ROUNDDOWN(a, PageSize), Larger(m.size, 1)) \subseteq h.pages
    /\ h.size = PageSize * Cardinality(h.pages)

\* Each free area is in the one list its size belongs to, the bits name the lists
\* that are not empty, and remaining is what the free areas add up to: what
\* cmpct_alloc finds without a walk is what is there.
FreeListsAgree ==
  Sound =>
    /\ \A b \in Buckets :
         /\ b \in h.bits <=> h.lists[b] # <<>>
         /\ Len(h.lists[b]) = Cardinality(ToSet(h.lists[b]))
         /\ ToSet(h.lists[b]) =
              {a \in FreeAreas : size_to_index_freeing(h.mem[a].size - Header) = b}
    /\ h.remaining = FoldSet(LAMBDA a, s : s + h.mem[a].size, 0, FreeAreas)

\* A block a caller holds, or one that waits on the delayed list, is an area of
\* its own that is not free, has the alignment and at least the size asked for,
\* and no area in use belongs to nobody.
BlocksAreKept ==
  Sound =>
    /\ \A p \in DOMAIN live :
         /\ p % live[p].align = 0
         /\ h.mem[p - Header].size >= live[p].size + Header
    /\ DOMAIN live \cup ToSet(delayed) \cup InProgress =
         {a + Header : a \in {x \in DOMAIN h.mem :
            /\ ~h.mem[x].free
            /\ h.mem[x].left # NULL
            /\ h.mem[x].size # 0}}

\* When every block has been freed, the heap has given its pages back, but for the
\* OS allocation it began with if nothing was ever taken from it.
EmptyHeapIsReturned ==
  (Sound /\ live = <<>> /\ delayed = <<>> /\ InProgress = {}) =>
    Cardinality({a \in DOMAIN h.mem : h.mem[a].left = NULL}) <= 1

\* cmpct_trim leaves the areas of the OS allocation it cuts adjoining: the new
\* free area ends where its right neighbour begins.
TrimKeepsTheTiling ==
  \A a \in DOMAIN h.mem : h.mem[a].size # 0 => right_header(h, a) \in DOMAIN h.mem

\* Every free area has a bucket to go to.
EveryAreaHasABucket == h.broken # "bucket"

\* A call that returns has released the heap's lock.
LockIsReleased == ~h.locked
=============================================================================
