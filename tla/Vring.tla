------------------------------- MODULE Vring -------------------------------
(***************************************************************************)
(* The virtio rings: dev/virtio/virtio.c and the layout of                 *)
(* dev/virtio/include/dev/virtio/virtio_ring.h.  A ring is a record and    *)
(* the calls a driver makes on it are operators from ring to ring.  The    *)
(* avail array is the set of the chains the device has not finished: a     *)
(* driver has at most as many as the array has places.  An entry of the    *)
(* used array is NULL once the driver is past it.                          *)
(***************************************************************************)
EXTENDS Integers, Sequences, FiniteSets

CONSTANTS
  IdxRange,   \* what the 16-bit idx of the used array wraps at; bound
  NULL

NoDesc == -1  \* 0xffff

\* virtio_free_desc.
virtio_free_desc(r, i) ==
  [r EXCEPT !.desc[i].next = r.free_list, !.free_list = i, !.free_count = @ + 1]

\* vring_init, and the free list virtio_alloc_ring puts together.
virtio_alloc_ring(num) ==
  [num |-> num,
   desc |-> [i \in 0 .. num - 1 |-> [next |-> i - 1, more |-> FALSE]],
   free_list |-> num - 1, free_count |-> num,
   avail |-> {},
   used |-> [i \in 0 .. num - 1 |-> NULL], used_idx |-> 0,
   last_used |-> 0]

\* virtio_alloc_desc: the index is NoDesc when none is free.
virtio_alloc_desc(r) ==
  IF r.free_count = 0 THEN [ring |-> r, index |-> NoDesc]
  ELSE [ring |-> [r EXCEPT !.free_list = r.desc[r.free_list].next, !.free_count = @ - 1],
        index |-> r.free_list]

\* virtio_alloc_desc_chain, for as many descriptors as the ring has free: the
\* last one taken is the first of the chain.
RECURSIVE PopChain(_, _, _)
PopChain(r, count, last) ==
  IF count = 0 THEN [ring |-> r, index |-> last]
  ELSE LET i == r.free_list
           d == [next |-> IF last = NoDesc THEN 0 ELSE last, more |-> last # NoDesc]
       IN PopChain([r EXCEPT !.free_list = r.desc[i].next, !.free_count = @ - 1,
                             !.desc[i] = d], count - 1, i)

\* NoDesc stands for the NULL virtio_alloc_desc_chain returns.
virtio_alloc_desc_chain(r, count) ==
  IF r.free_count < count THEN [ring |-> r, index |-> NoDesc]
  ELSE PopChain(r, count, NoDesc)

\* virtio_submit_chain.
virtio_submit_chain(r, i) == [r EXCEPT !.avail = @ \cup {i}]

\* The descriptors of a chain, in order.
RECURSIVE Chain(_, _)
Chain(r, i) == <<i>> \o (IF r.desc[i].more THEN Chain(r, r.desc[i].next) ELSE <<>>)

---------------------------------------------------------------------------
(* The device may finish the chains it has in any order.                   *)

DeviceFinish(r, i) ==
  [r EXCEPT !.avail = @ \ {i}, !.used[r.used_idx % r.num] = i,
            !.used_idx = (@ + 1) % IdxRange]

---------------------------------------------------------------------------
(* Where the descriptors are.                                              *)

RECURSIVE FreeFrom(_, _, _)
FreeFrom(r, i, n) == IF n = 0 THEN <<>> ELSE <<i>> \o FreeFrom(r, r.desc[i].next, n - 1)
FreeDescs(r) == FreeFrom(r, r.free_list, r.free_count)

Heads(r) == r.avail \cup {r.used[k] : k \in DOMAIN r.used}
InFlight(r) == UNION {{Chain(r, i)[k] : k \in 1 .. Len(Chain(r, i))} : i \in Heads(r) \ {NULL}}
=============================================================================
