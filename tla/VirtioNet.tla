----------------------------- MODULE VirtioNet -----------------------------
(***************************************************************************)
(* The virtio network driver, dev/virtio/net/virtio-net.c, over its two    *)
(* rings, with the interrupt handler of dev/virtio/virtio.c and the packet *)
(* buffers of lib/minip/pktbuf.c.                                          *)
(*                                                                         *)
(* A packet buffer is two objects of one pool, taken one after the other;  *)
(* packets are told apart by where they are, so each place has a count of  *)
(* them, and the pending arrays are the sets of the indices with a packet. *)
(* The pool's semaphore is the abstract one that module Semaphore          *)
(* implements: a wait is a step that needs a count above zero.  The parts  *)
(* of a function that run under the driver's spin lock are one step; the   *)
(* interrupt handler is a step for each used entry it looks at.            *)
(***************************************************************************)
EXTENDS Vring, Functions

CONSTANTS
  Senders,    \* threads that send packets
  NumRx,      \* RX_RING_SIZE
  NumTx,      \* TX_RING_SIZE
  PoolSize,   \* PKTBUF_POOL_SIZE, in objects
  MaxSends    \* packets sent in all; bound

Starter == "start"   \* the thread in virtio_net_start
Threads == Senders \cup {Starter}

VARIABLES
  rx, tx,        \* the rings
  pending_rx,    \* the indices of pending_rx_packet that are not NULL
  pending_tx,    \* the indices of pending_tx_packet that are not NULL
  tx_pending_count,
  completed,     \* how many packets completed_rx_queue has
  rx_event,      \* signaled
  pool,          \* objects in the pool: the count of pktbuf_sem
  lock,          \* "free", or "lost" once a path has left it locked
  intr,          \* bit 0 of interrupt_status
  irq,           \* the interrupt handler
  worker,        \* virtio_net_rx_worker
  thr,           \* the threads: where they are and the packets they hold
  queued,        \* packets the starter has queued
  sends,         \* ghost: packets sent so far
  preempted      \* ghost: a post in the interrupt handler asked for a reschedule

vars == <<rx, tx, pending_rx, pending_tx, tx_pending_count, completed, rx_event, pool,
          lock, intr, irq, worker, thr, queued, sends, preempted>>
rings == <<rx, tx, pending_rx, pending_tx, tx_pending_count, completed>>

IrqIdle == [pc |-> "idle"]
Rx == 0
Tx == 1

Init ==
  /\ rx = virtio_alloc_ring(NumRx)
  /\ tx = virtio_alloc_ring(NumTx)
  /\ pending_rx = {} /\ pending_tx = {}
  /\ tx_pending_count = 0
  /\ completed = 0
  /\ rx_event = FALSE
  /\ pool = PoolSize
  /\ lock = "free" /\ intr = FALSE
  /\ irq = IrqIdle
  /\ worker = "wait"
  /\ thr = [t \in Threads |-> [pc |-> "idle", held |-> 0, half |-> FALSE]]
  /\ queued = 0
  /\ sends = 0
  /\ preempted = FALSE

Running == lock = "free"

---------------------------------------------------------------------------
(* Threads.                                                                *)

\* pktbuf_alloc: the header first, then the buffer.
get_pool_object(t) ==
  /\ Running /\ thr[t].pc = "alloc" /\ pool > 0
  /\ pool' = pool - 1
  /\ thr' = [thr EXCEPT ![t] =
       IF ~@.half THEN [@ EXCEPT !.half = TRUE]
       ELSE [pc |-> "queue", half |-> FALSE, held |-> @.held + 1]]
  /\ UNCHANGED <<rings, rx_event, lock, intr, irq, worker, queued, sends, preempted>>

\* Fault: the receive ring is filled to the last descriptor.
FillTheRing == NumRx

\* virtio_net_start leaves one descriptor of the receive ring unused.
RxPackets == NumRx - 1

\* The loop of virtio_net_start.
Start ==
  /\ Running /\ thr[Starter].pc = "idle" /\ queued < RxPackets
  /\ thr' = [thr EXCEPT ![Starter].pc = "alloc"]
  /\ UNCHANGED <<rings, rx_event, pool, lock, intr, irq, worker, queued, sends, preempted>>

\* virtio_net_queue_rx of a packet.
virtio_net_queue_rx ==
  LET got == virtio_alloc_desc_chain(rx, 1)
  IN /\ rx' = virtio_submit_chain(got.ring, got.index)
     /\ pending_rx' = pending_rx \cup {got.index}

StartQueues ==
  /\ Running /\ thr[Starter].pc = "queue"
  /\ virtio_net_queue_rx
  /\ queued' = queued + 1
  /\ thr' = [thr EXCEPT ![Starter] = [pc |-> "idle", held |-> 0, half |-> FALSE]]
  /\ UNCHANGED <<tx, pending_tx, tx_pending_count, completed, rx_event, pool, lock, intr,
                 irq, worker, sends, preempted>>

\* The stack makes a packet: its buffer, then a call of virtio_net_send_minip_pkt.
Send(t) ==
  /\ Running /\ thr[t].pc = "idle" /\ sends < MaxSends
  /\ sends' = sends + 1
  /\ thr' = [thr EXCEPT ![t].pc = "alloc"]
  /\ UNCHANGED <<rings, rx_event, pool, lock, intr, irq, worker, queued, preempted>>

\* virtio_net_queue_tx_pktbuf begins: a second buffer, for the header.
SendHeader(t) ==
  /\ Running /\ thr[t].pc = "queue" /\ thr[t].held = 1
  /\ thr' = [thr EXCEPT ![t].pc = "alloc"]
  /\ UNCHANGED <<rings, rx_event, pool, lock, intr, irq, worker, queued, sends, preempted>>

\* "only queue if we have enough tx descriptors"
HasDescriptors == tx_pending_count + 2 <= NumTx

\* Fault: the buffer stays behind when a packet is freed.
FreesHeader(n) == n

\* The objects n calls of pktbuf_free give back: the buffer's and the header's.
pktbuf_free(n) == 2 * n

\* virtio_net_queue_tx_pktbuf under the lock.  The first way out leaves the lock
\* as it is; on both, the two packets go back to the pool.
virtio_net_queue_tx_pktbuf(t) ==
  /\ Running /\ thr[t].pc = "queue" /\ thr[t].held = 2
  /\ LET got == virtio_alloc_desc_chain(tx, 2)
         i == got.index
     IN IF HasDescriptors /\ i # NoDesc
        THEN /\ tx' = virtio_submit_chain(got.ring, i)
             /\ pending_tx' = pending_tx \cup {i, got.ring.desc[i].next}
             /\ tx_pending_count' = tx_pending_count + 2
             /\ UNCHANGED <<pool, lock>>
        ELSE /\ lock' = IF HasDescriptors THEN "free" ELSE "lost"
             /\ pool' = pool + pktbuf_free(2)
             /\ UNCHANGED <<tx, pending_tx, tx_pending_count>>
  /\ thr' = [thr EXCEPT ![t] = [pc |-> "idle", held |-> 0, half |-> FALSE]]
  /\ UNCHANGED <<rx, pending_rx, completed, rx_event, intr, irq, worker, queued, sends,
                 preempted>>

---------------------------------------------------------------------------
(* The receive worker.                                                     *)

WorkerWakes ==
  /\ Running /\ worker = "wait" /\ rx_event
  /\ rx_event' = FALSE
  /\ worker' = "pull"
  /\ UNCHANGED <<rings, pool, lock, intr, irq, thr, queued, sends, preempted>>

\* Fault: one packet for each wake up.
OneAtATime == "wait"

\* The worker goes round until the queue is empty.
AfterPacket == "pull"

WorkerPulls ==
  /\ Running /\ worker = "pull"
  /\ IF completed = 0
     THEN worker' = "wait" /\ UNCHANGED completed
     ELSE worker' = "process" /\ completed' = completed - 1
  /\ UNCHANGED <<rx, tx, pending_rx, pending_tx, tx_pending_count, rx_event, pool, lock,
                 intr, irq, thr, queued, sends, preempted>>

\* minip_rx_driver_callback, then virtio_net_queue_rx.
WorkerRequeues ==
  /\ Running /\ worker = "process"
  /\ virtio_net_queue_rx
  /\ worker' = AfterPacket
  /\ UNCHANGED <<tx, pending_tx, tx_pending_count, completed, rx_event, pool, lock, intr,
                 irq, thr, queued, sends, preempted>>

---------------------------------------------------------------------------
(* The interrupt handler, virtio_mmio_irq.                                 *)

\* Fault: the interrupt is acknowledged when the rings have been looked at.
AckAtEnd(pc) == IF pc = "enter" THEN intr ELSE FALSE

\* interrupt_status once the handler is at pc: it acknowledges first.
Ack(pc) == IF pc = "enter" THEN FALSE ELSE intr

Enter ==
  /\ Running /\ irq.pc = "idle" /\ intr
  /\ intr' = Ack("enter")
  /\ irq' = [pc |-> "look", ring |-> Rx]
  /\ UNCHANGED <<rings, rx_event, pool, lock, worker, thr, queued, sends, preempted>>

\* The used index is read once for each ring.
Look ==
  /\ Running /\ irq.pc = "look"
  /\ irq' = [pc |-> "used", ring |-> irq.ring,
             cur |-> IF irq.ring = Rx THEN rx.used_idx % NumRx ELSE tx.used_idx % NumTx]
  /\ UNCHANGED <<rings, rx_event, pool, lock, intr, worker, thr, queued, sends, preempted>>

AfterUsed(ring) ==
  IF ring = Rx THEN [pc |-> "look", ring |-> Tx] ELSE IrqIdle

\* The end of the used entries of a ring.
EndOfRing ==
  /\ Running /\ irq.pc = "used"
  /\ irq.cur = (IF irq.ring = Rx THEN rx.last_used ELSE tx.last_used)
  /\ irq' = AfterUsed(irq.ring)
  /\ intr' = IF irq.ring = Tx THEN Ack("exit") ELSE intr
  /\ UNCHANGED <<rings, rx_event, pool, lock, worker, thr, queued, sends, preempted>>

\* Fault: the descriptor the used entry names is freed, the ones after it are not.
FreesHead(r, i) == virtio_free_desc(r, i)

\* The loop of the callback: a chain has at most two descriptors.
FreeChain(r, i) ==
  IF r.desc[i].more THEN virtio_free_desc(virtio_free_desc(r, i), r.desc[i].next)
  ELSE virtio_free_desc(r, i)

Consumed(r) == [r EXCEPT !.last_used = (@ + 1) % r.num, !.used[r.last_used] = NULL]

\* virtio_net_irq_driver_callback for a receive chain, up to the event.
RxCallback ==
  /\ Running /\ irq.pc = "used" /\ irq.ring = Rx /\ irq.cur # rx.last_used
  /\ LET i == rx.used[rx.last_used]
     IN /\ rx' = Consumed(FreeChain(rx, i))
        /\ pending_rx' = pending_rx \ {i}
        /\ completed' = completed + 1
  /\ irq' = [irq EXCEPT !.pc = "signal"]
  /\ UNCHANGED <<tx, pending_tx, tx_pending_count, rx_event, pool, lock, intr, worker, thr,
                 queued, sends, preempted>>

RxSignal ==
  /\ Running /\ irq.pc = "signal"
  /\ rx_event' = TRUE
  /\ irq' = [irq EXCEPT !.pc = "used"]
  /\ UNCHANGED <<rings, pool, lock, intr, worker, thr, queued, sends, preempted>>

\* The chain of two descriptors of a packet that was sent.  Freeing a packet posts
\* the pool's semaphore twice, the first time with reschedule set.
TxCallback ==
  /\ Running /\ irq.pc = "used" /\ irq.ring = Tx /\ irq.cur # tx.last_used
  /\ LET i == tx.used[tx.last_used]
         j == tx.desc[i].next
     IN /\ tx' = Consumed(FreeChain(tx, i))
        /\ pending_tx' = pending_tx \ {i, j}
        /\ tx_pending_count' = tx_pending_count - 2
  /\ pool' = pool + pktbuf_free(2)
  /\ preempted' = (preempted \/ (pool = 0 /\ \E t \in Threads : thr[t].pc = "alloc"))
  /\ UNCHANGED <<rx, pending_rx, completed, rx_event, lock, intr, irq, worker, thr, queued,
                 sends>>

---------------------------------------------------------------------------
(* The device.                                                             *)

\* A packet has come in or gone out.
DeviceFinishes ==
  /\ \/ \E i \in rx.avail : rx' = DeviceFinish(rx, i) /\ UNCHANGED tx
     \/ \E i \in tx.avail : tx' = DeviceFinish(tx, i) /\ UNCHANGED rx
  /\ intr' = TRUE
  /\ UNCHANGED <<pending_rx, pending_tx, tx_pending_count, completed, rx_event, pool, lock,
                 irq, worker, thr, queued, sends, preempted>>

Next ==
  \/ \E t \in Threads : get_pool_object(t)
  \/ Start \/ StartQueues
  \/ \E t \in Senders : Send(t)
  \/ \E t \in Senders : SendHeader(t)
  \/ \E t \in Senders : virtio_net_queue_tx_pktbuf(t)
  \/ WorkerWakes \/ WorkerPulls \/ WorkerRequeues
  \/ Enter \/ Look \/ EndOfRing \/ RxCallback \/ RxSignal \/ TxCallback
  \/ DeviceFinishes

Spec == Init /\ [][Next]_vars

---------------------------------------------------------------------------
(* Properties.                                                             *)

\* Types.
TypeOK ==
  /\ rx.free_count \in 0 .. NumRx /\ tx.free_count \in 0 .. NumTx
  /\ pool \in 0 .. PoolSize /\ tx_pending_count \in 0 .. NumTx
  /\ lock \in {"free", "lost"} /\ intr \in BOOLEAN /\ rx_event \in BOOLEAN
  /\ worker \in {"wait", "pull", "process"}

\* Each descriptor is either free or part of one chain the device or the used
\* array has, and the driver remembers a packet for exactly the latter: what the
\* interrupt handler will free is what was handed over.
DescriptorsAddUp ==
  /\ \A r \in {rx, tx} :
       /\ Len(FreeDescs(r)) = Cardinality({FreeDescs(r)[k] : k \in 1 .. Len(FreeDescs(r))})
       /\ {FreeDescs(r)[k] : k \in 1 .. Len(FreeDescs(r))} = DOMAIN r.desc \ InFlight(r)
  /\ pending_rx = InFlight(rx)
  /\ pending_tx = InFlight(tx)
  /\ tx_pending_count = Cardinality(InFlight(tx))

\* Packets outside the pool.
PacketsOut ==
  Cardinality(pending_rx) + Cardinality(pending_tx) + completed
  + (IF worker = "process" THEN 1 ELSE 0)
  + FoldFunction(LAMBDA c, n : c.held + n, 0, thr)

\* The pool's count is what no packet has taken: no buffer is lost or handed to
\* two owners between the sender, the device, the interrupt handler and the worker.
PacketsAddUp ==
  pool = PoolSize - 2 * PacketsOut - Cardinality({t \in Threads : thr[t].half})

\* When the handler is not running and no interrupt is pending, no used entry is
\* left unread: a completion that comes while the handler runs is not missed.
NoCompletionIsMissed ==
  (irq.pc = "idle" /\ ~intr) =>
    \A r \in {rx, tx} : \A k \in DOMAIN r.used : r.used[k] = NULL

\* The worker never sleeps on received packets: its event is signaled, or the
\* handler is about to signal it.
WorkerHasItsEvent ==
  (worker = "wait" /\ completed > 0) => rx_event \/ irq.pc = "signal"

\* A call that returns has released the driver's spin lock.
LockIsReleased == lock = "free"

\* The interrupt handler does not ask for a reschedule.
NoRescheduleInInterrupt == ~preempted
=============================================================================
