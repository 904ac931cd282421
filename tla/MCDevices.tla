----------------------------- MODULE MCDevices ------------------------------
(***************************************************************************)
(* A semaphore, and the virtio network and block drivers with the device   *)
(* that works on their rings, for TLC. "who" says which a behaviour is     *)
(* about; the semaphore stays as it is created in the behaviours of the    *)
(* others, and the variables that they do not share stay 0.                *)
(***************************************************************************)
EXTENDS Semaphore

CONSTANTS s1, b1, b2, NULL   \* model values

VARIABLES who,  \* the component that runs
          rx, tx, pending_rx, pending_tx, tx_pending_count, completed, rx_event, pool, lock,
          intr, irq, worker, thr, queued, sends, preempted, ring, data, holder, io_event, done,
          broken

Net == INSTANCE VirtioNet WITH
  Senders <- {s1}, NumRx <- 4, NumTx <- 2, PoolSize <- 12, IdxRange <- 4, MaxSends <- 2
Disk == INSTANCE VirtioBlock WITH
  Threads <- {b1, b2}, Num <- 8, IdxRange <- 16,
  Buffers <- {<<1>>, <<1, 2>>, <<4, 2>>, <<1, 5, 9>>}

ASSUME SemaphoreAssumption

\* What each component leaves alone.
NotSemaphore ==
  <<who, rx, tx, pending_rx, pending_tx, tx_pending_count, completed, rx_event, pool, lock,
  intr, irq, worker, thr, queued, sends, preempted, ring, data, holder, io_event, done, broken>>
NotVirtioNet == <<who, vars, ring, data, holder, io_event, done, broken>>
NotVirtioBlock ==
  <<who, vars, rx, tx, pending_rx, pending_tx, tx_pending_count, completed, rx_event, pool,
  lock, worker, queued, sends, preempted>>

SumInit ==
  \/ /\ who = "semaphore" /\ sem_init
     /\ rx = 0 /\ tx = 0 /\ pending_rx = 0 /\ pending_tx = 0 /\ tx_pending_count = 0
     /\ completed = 0 /\ rx_event = 0 /\ pool = 0 /\ lock = 0 /\ intr = 0 /\ irq = 0
     /\ worker = 0 /\ thr = 0 /\ queued = 0 /\ sends = 0 /\ preempted = 0 /\ ring = 0
     /\ data = 0 /\ holder = 0 /\ io_event = 0 /\ done = 0 /\ broken = 0
  \/ /\ who = "net" /\ Net!Init /\ sem_init /\ count = 0
     /\ ring = 0 /\ data = 0 /\ holder = 0 /\ io_event = 0 /\ done = 0 /\ broken = 0
  \/ /\ who = "block" /\ Disk!Init /\ sem_init /\ count = 0
     /\ rx = 0 /\ tx = 0 /\ pending_rx = 0 /\ pending_tx = 0 /\ tx_pending_count = 0
     /\ completed = 0 /\ rx_event = 0 /\ pool = 0 /\ lock = 0 /\ worker = 0 /\ queued = 0
     /\ sends = 0 /\ preempted = 0

SumNext ==
  \/ who = "semaphore" /\ Next /\ UNCHANGED NotSemaphore
  \/ who = "net" /\ Net!Next /\ UNCHANGED NotVirtioNet
  \/ who = "block" /\ Disk!Next /\ UNCHANGED NotVirtioBlock

sumvars ==
  <<who, vars, rx, tx, pending_rx, pending_tx, tx_pending_count, completed, rx_event, pool,
  lock, intr, irq, worker, thr, queued, sends, preempted, ring, data, holder, io_event, done,
  broken>>

SumSpec == SumInit /\ [][SumNext]_sumvars
-----------------------------------------------------------------------------
\* Every descriptor is free or in one chain that the device or the used array has, and the
\* driver remembers what the handler will free.
DescriptorsAddUp ==
  /\ who = "net" => Net!DescriptorsAddUp
  /\ who = "block" => Disk!RingIsWhole

\* No packet buffer is lost or has two owners between the sender, the device, the interrupt
\* handler and the worker, and the chain of a transfer covers its buffer page by page.
BuffersAddUp ==
  /\ who = "net" => Net!PacketsAddUp
  /\ who = "block" => Disk!ChainIsTheBuffer

\* No completion is missed: one that comes while the handler runs leaves an interrupt, the worker
\* does not sleep on received packets, and the event of a transfer is signaled for it and not by
\* what an earlier transfer left behind.
NoCompletionIsMissed ==
  /\ who = "net" => Net!NoCompletionIsMissed /\ Net!WorkerHasItsEvent
  /\ who = "block" => Disk!SignalIsForTheWaiter
=============================================================================
