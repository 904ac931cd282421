---------------------------- MODULE VirtioBlock ----------------------------
(***************************************************************************)
(* The virtio block driver, dev/virtio/block/virtio-block.c, over one ring *)
(* and the interrupt handler of dev/virtio/virtio.c.  A buffer is the      *)
(* sequence of the physical pages it lies on, and a transfer is one of     *)
(* whole pages.  The driver's mutex and its auto-unsignal event are the    *)
(* atomic ones that modules Mutex and Event are about.  Only the thread    *)
(* with the mutex builds a chain, so that is one step; the interrupt       *)
(* handler may still be on its way out while the next thread does it.      *)
(***************************************************************************)
EXTENDS Vring, SequencesExt

CONSTANTS
  Threads,   \* threads that read and write blocks
  Num,       \* descriptors in the ring, 256
  Buffers    \* buffers: sequences of physical pages

VARIABLES
  ring,      \* the ring
  data,      \* descriptor -> the run of pages it points at: [page, len]
  holder,    \* who has the mutex
  io_event,  \* signaled
  intr,      \* bit 0 of interrupt_status
  irq,       \* the interrupt handler
  thr,       \* the threads: where they are, their buffer and their chain
  done,      \* ghost: threads whose transfer the device has finished
  broken     \* ghost: a descriptor was used that the ring did not have

vars == <<ring, data, holder, io_event, intr, irq, thr, done, broken>>

Free == [pc |-> "out"]
IrqIdle == [pc |-> "idle"]
NoData == [page |-> 0, len |-> 0]

Init ==
  /\ ring = virtio_alloc_ring(Num)
  /\ data = [i \in 0 .. Num - 1 |-> NoData]
  /\ holder = NULL
  /\ io_event = FALSE /\ intr = FALSE
  /\ irq = IrqIdle
  /\ thr = [t \in Threads |-> Free]
  /\ done = {}
  /\ broken = FALSE

---------------------------------------------------------------------------
(* virtio_block_read_write.                                                *)

\* Fault: any later page counts as the next one.
NotBehind(next_pa, pa) == next_pa <= pa

\* Is the page contiguous to the last one?
Extends(next_pa, pa) == next_pa = pa

\* The scatter gather loop, from page k of the buffer on.  c is the ring, the data
\* of its descriptors and the descriptor being filled; next_pa moves on by a page
\* for each page of the buffer.  The index is NoDesc when the ring has run out.
RECURSIVE Gather(_, _, _, _)
Gather(c, buf, k, next_pa) ==
  IF k > Len(buf) \/ c.at = NoDesc THEN c
  ELSE IF Extends(next_pa, buf[k])
  THEN Gather([c EXCEPT !.data[c.at].len = @ + 1], buf, k + 1, next_pa + 1)
  ELSE LET got == virtio_alloc_desc(c.ring)
           i == got.index
           d == [next |-> c.ring.desc[c.at].next, more |-> TRUE]
       IN IF i = NoDesc THEN [c EXCEPT !.at = NoDesc]
          ELSE Gather([ring |-> [got.ring EXCEPT !.desc[i] = d, !.desc[c.at].next = i],
                       data |-> [c.data EXCEPT ![i] = [page |-> buf[k], len |-> 1]],
                       at |-> i],
                      buf, k + 1, next_pa + 1)

\* The chain for a buffer: the request, the pages, the response.
Build(buf) ==
  LET got == virtio_alloc_desc_chain(ring, 3)
      second == got.ring.desc[got.index].next
      all == Gather([ring |-> got.ring,
                     data |-> [data EXCEPT ![second] = [page |-> buf[1], len |-> 1]],
                     at |-> second], buf, 2, buf[1] + 1)
  IN [all EXCEPT !.at = IF @ = NoDesc THEN NoDesc ELSE got.index]

virtio_block_read_write(t, buf) ==
  /\ ~broken /\ thr[t] = Free /\ holder = NULL
  /\ LET c == Build(buf)
     IN IF c.at = NoDesc
        THEN broken' = TRUE /\ UNCHANGED <<ring, data, holder, thr>>
        ELSE /\ ring' = virtio_submit_chain(c.ring, c.at)
             /\ data' = c.data
             /\ holder' = t
             /\ thr' = [thr EXCEPT ![t] = [pc |-> "wait", buf |-> buf, chain |-> c.at]]
             /\ UNCHANGED broken
  /\ UNCHANGED <<io_event, intr, irq, done>>

\* Fault: the event is not an auto-unsignal one.
LeavesSignal(t) ==
  /\ thr[t].pc = "wait" /\ io_event
  /\ holder' = NULL
  /\ thr' = [thr EXCEPT ![t] = Free]
  /\ done' = done \ {t}
  /\ UNCHANGED <<ring, data, io_event, intr, irq, broken>>

\* event_wait returns, the mutex is released.
TransferEnds(t) ==
  /\ thr[t].pc = "wait" /\ io_event
  /\ io_event' = FALSE
  /\ holder' = NULL
  /\ thr' = [thr EXCEPT ![t] = Free]
  /\ done' = done \ {t}
  /\ UNCHANGED <<ring, data, intr, irq, broken>>

---------------------------------------------------------------------------
(* virtio_mmio_irq and virtio_block_irq_driver_callback.                   *)

Enter ==
  /\ irq.pc = "idle" /\ intr
  /\ intr' = FALSE
  /\ irq' = [pc |-> "look"]
  /\ UNCHANGED <<ring, data, holder, io_event, thr, done, broken>>

Look ==
  /\ irq.pc = "look"
  /\ irq' = [pc |-> "used", cur |-> ring.used_idx % Num]
  /\ UNCHANGED <<ring, data, holder, io_event, intr, thr, done, broken>>

\* Fault: the interrupt is acknowledged when the ring has been looked at.
AckAtEnd ==
  /\ irq.pc = "used" /\ irq.cur = ring.last_used
  /\ irq' = IrqIdle
  /\ intr' = FALSE
  /\ UNCHANGED <<ring, data, holder, io_event, thr, done, broken>>

EndOfRing ==
  /\ irq.pc = "used" /\ irq.cur = ring.last_used
  /\ irq' = IrqIdle
  /\ UNCHANGED <<ring, data, holder, io_event, intr, thr, done, broken>>

\* Fault: only the first descriptor of the chain is freed.
FreesHead(r, i) == virtio_free_desc(r, i)

FreeChain(r, i) == FoldLeft(virtio_free_desc, r, Chain(r, i))

\* A descriptor's pages are forgotten with it.
FreeUsed ==
  /\ irq.pc = "used" /\ irq.cur # ring.last_used
  /\ LET i == ring.used[ring.last_used]
     IN /\ ring' = FreeChain(ring, i)
        /\ data' = [d \in DOMAIN data |-> IF d \in ToSet(Chain(ring, i)) THEN NoData ELSE data[d]]
  /\ irq' = [irq EXCEPT !.pc = "signal"]
  /\ UNCHANGED <<holder, io_event, intr, thr, done, broken>>

SignalIo ==
  /\ irq.pc = "signal"
  /\ io_event' = TRUE
  /\ irq' = [irq EXCEPT !.pc = "step"]
  /\ UNCHANGED <<ring, data, holder, intr, thr, done, broken>>

\* Back in virtio_mmio_irq.
Step ==
  /\ irq.pc = "step"
  /\ ring' = [ring EXCEPT !.last_used = (@ + 1) % Num, !.used[ring.last_used] = NULL]
  /\ irq' = [irq EXCEPT !.pc = "used"]
  /\ UNCHANGED <<data, holder, io_event, intr, thr, done, broken>>

\* The device has done a transfer.
DeviceFinishes ==
  /\ \E i \in ring.avail :
       /\ ring' = DeviceFinish(ring, i)
       /\ done' = done \cup {t \in Threads : thr[t].pc = "wait" /\ thr[t].chain = i}
  /\ intr' = TRUE
  /\ UNCHANGED <<data, holder, io_event, irq, thr, broken>>

Next ==
  \/ \E t \in Threads, buf \in Buffers : virtio_block_read_write(t, buf)
  \/ \E t \in Threads : TransferEnds(t)
  \/ Enter \/ Look \/ EndOfRing \/ FreeUsed \/ SignalIo \/ Step
  \/ DeviceFinishes

Spec == Init /\ [][Next]_vars

\* The device works on what it is given, an interrupt that is pending is taken and
\* its handler runs, and a thread that has been signaled is scheduled.
Fairness ==
  /\ WF_vars(DeviceFinishes)
  /\ WF_vars(Enter \/ Look \/ EndOfRing \/ FreeUsed \/ SignalIo \/ Step)
  /\ \A t \in Threads : WF_vars(TransferEnds(t))

FairSpec == Spec /\ Fairness

---------------------------------------------------------------------------
(* Properties.                                                             *)

\* Types.
TypeOK ==
  /\ ring.free_count \in 0 .. Num /\ ring.last_used \in 0 .. Num - 1
  /\ holder \in Threads \cup {NULL} /\ io_event \in BOOLEAN /\ intr \in BOOLEAN
  /\ done \subseteq Threads /\ broken \in BOOLEAN

\* The pages a chain's descriptors cover, between the request and the response.
PagesOf(i) ==
  LET c == Chain(ring, i)
      Run(d) == [k \in 1 .. data[d].len |-> data[d].page + k - 1]
  IN FlattenSeq([k \in 1 .. Len(c) - 2 |-> Run(c[k + 1])])

\* The chain the device is given covers the pages of the buffer, in order, however
\* they lie in memory.
ChainIsTheBuffer ==
  \A t \in Threads : (thr[t].pc = "wait" /\ t \notin done) =>
                       PagesOf(thr[t].chain) = thr[t].buf

\* A thread's wait ends when the device has finished its transfer and its
\* descriptors are free again, not by what an earlier transfer left behind.
SignalIsForTheWaiter ==
  io_event => /\ holder # NULL /\ holder \in done
              /\ ring.free_count = Num

\* Descriptors are free or part of the one chain in flight.
RingIsWhole ==
  /\ Len(FreeDescs(ring)) = Cardinality(ToSet(FreeDescs(ring)))
  /\ irq.pc \notin {"signal", "step"} =>
       ToSet(FreeDescs(ring)) = DOMAIN ring.desc \ InFlight(ring)

\* Every transfer that was begun ends.
TransferReturns == \A t \in Threads : (thr[t].pc = "wait") ~> (thr[t].pc = "out")

\* The ring has a descriptor for every piece of the buffer.
RingIsLargeEnough == ~broken
=============================================================================
