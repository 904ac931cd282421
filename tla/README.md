# A TLA+ model of the kernel

This directory specifies a large part of the kernel under `src/mk/`: its concurrent
core (wait queues, mutexes, semaphores, events, threads and their scheduler, timers,
ports), memory management, the data structures of its libraries, its flash file
systems, block cache and log, two virtio drivers, and TCP.  The modules are written
from the C and C++ code, TLC checks them on small instances, and TLAPS proves the
synchronisation objects, the scheduler, the life cycle of threads and the circular
buffer correct for instances of any size.  `PROJECT.json` holds the same
information for tools: the runs, the source lines behind every definition, the
mutations that each property is tested with, the hazards of the code and the
theorems.

## The system

The kernel is a single address space with preemptive threads on one or more
processors.  Three things run concurrently: threads, interrupt handlers on each
processor, and the other processors.  Almost everything in `kernel/` is
serialised by one spin lock, `thread_lock`, taken with interrupts off; the timer
queues have their own, `timer_lock`.  Everything above uses mutexes, semaphores and
events, or a spin lock of its own.

| part | state | operations | depends on |
|---|---|---|---|
| wait queues (`thread.c`) | a list of blocked threads, per thread the queue it blocks on, the status it wakes with, a timer on its stack | block with timeout, wake one, wake all, destroy, timeout | scheduler, timers |
| mutex, semaphore, event (`mutex.c`, `semaphore.c`, `event.c`) | `count`, `holder`, `signaled`, flags, wait queue | init, destroy, acquire, release, post, wait, signal, unsignal | wait queues |
| scheduler (`thread.c`, `mp.c`) | run queues and bitmap, thread states, priorities, quanta, pinning, real-time flags, preemption timers, active/idle/real-time processor masks | create, resume, block, wake, yield, preempt, sleep, set priority, set real time, exit, reschedule, ticks, reschedule interrupts | timers |
| thread life cycle (`thread.c`, `heap_wrapper.c`) | thread list, state, detached flag, return code queue, delayed free list | create, resume, join with timeout, detach, exit, delayed free | wait queues, heap |
| timers (`timer.c`) | per-processor sorted queues, wrapping time, hardware one-shot timer | set one-shot, set periodic, cancel, tick | platform timer |
| ports (`port.c`) | named write ports, read ports, groups, packet rings | create, open, write, read, close, destroy, group create/add/remove | wait queues |
| memory (`kernel/vm`, `arch/*/mmu`) | page arenas, regions of address spaces, page tables, translation caches | allocate, free, reserve, map, unmap, switch | mutex |
| libraries (`lib/heap`, `gparena`, `fbl`, `lib/cbuf`) | areas and free lists of the heap, a lock-free free list, a balanced tree, a ring with an event | allocate, free, insert, erase, search, read, write | mutex, event |
| storage (`lib/norfs`, `lib/fs/spifs`, `lib/bcache`, `lib/klog`) | flash and its index, tables of contents, cached blocks, logs that survive a reset | mount, put, get, collect, read, write, commit, flush, recover | devices |
| devices (`dev/virtio`) | descriptor rings shared with a device, packet buffers, an event per transfer | queue, interrupt, worker, read, write | event, semaphore |
| TCP (`lib/minip/tcp.c`) | sockets, windows, timers, reference counts | connect, listen, accept, read, write, close, input, timeouts | all of the above |

What makes the code hard to test: a thread that timed out has left its wait queue
but has not run yet, so its object still counts it; processors reschedule over
shared run queues; an object is destroyed or freed while threads are on their way
back from it; `timer_tick()` drops its lock around each callback; times wrap
around; a few operations look before they lock, or write without the lock; the
power fails between two writes to the flash; a device completes a transfer while
its handler runs; packets are lost, repeated and overtaken.  `PROJECT.json` lists
these hazards with the line where each bites.

## The modules

```
WaitQueue --- Mutex ------------------------- MutexProofs      (WaitQueueProofs)
          |-- Semaphore -> CountingSemaphore  SemaphoreProofs
          |-- Event -----> AtomicEvent        EventProofs
          |-- ThreadLife -------------------- ThreadLifeProofs
          '-- Port
Sched --------------------------------------- SchedProofs
CBuf ------------> BoundedFifo                CBufProofs
Timer --------------------------------------- TimerProofs
Cmpct     GPArena     Wavl
Pmm --- Vmm         PageTables --- ArmMmu, RiscvMmu, X86Mmu --- Mmu
Norfs     Spifs     Bcache      Klog
Vring --- VirtioNet, VirtioBlock
Tcp
```

An arrow is a refinement.  A module in the right-hand column holds the theorems of
the one it stands beside.  The modules whose name begins with MC are for TLC.  Most
of them put several components side by side: a module EXTENDS one component and has
instances of others, its initial states choose one of them (`who`), and from then
on only that one takes steps.  The component that is extended stays in its
initial state in the behaviours of the others; the variables of an instance are 0 in
the behaviours that are not about it.  A run of such a module therefore explores each
of its components exhaustively and separately, and the properties of the component
that is extended are checked exactly as its module states them and as the theorems
prove them.  Components that interact are composed in the modules themselves
(Semaphore and ThreadLife over WaitQueue, Vmm over Pmm, Mmu over the page tables of
three architectures, the virtio drivers over Vring, two hosts and a network in Tcp).

**WaitQueue** (`kernel/thread.c`).  `list[q]` is the list of queue `q`; `state[t]`
is `running`, `blocked` or `ready` (woken, has not run yet);
`wait_queue_block_ret` and `timer` are the fields and the stack timer of the same
name.  Its operators are used as parts of the actions of its clients:
`wait_queue_block` up to the context switch, `wait_queue_return` after it, and the
wake-up functions in between.  So the window between being woken and running,
where the interesting races are, is explicit.  Destroying a queue wakes everybody
with `ERR_OBJECT_DESTROYED`.

**Mutex** (`kernel/mutex.c`).  One action per function, acquire split at its wait.
The recursion and ownership panics are guards, as a correct caller meets them.  A
destroyed mutex may be initialised again once nobody is inside an operation.

**Semaphore** and **CountingSemaphore** (`kernel/semaphore.c`).  The abstract
semaphore has a number of permits and a set of waiting threads.  The refinement
mapping reads both from `count` and the wait queue; a thread that timed out and
has not backed out of the count yet is still waiting.

**Event** and **AtomicEvent** (`kernel/event.c`).  Both kinds of event.
`event_unsignal()` takes no lock, so the calls that hold `thread_lock` are several
steps (`pc`) and unsignal falls between any two; signals also come from interrupt
handlers (`Irq`).  The abstract event makes every call one step.

**ThreadLife** (`kernel/thread.c`, `lib/heap/heap_wrapper.c`).  A `thread_t` is
created from free memory, resumed, exits, and is joined or detached; a detached
thread puts its own stack and structure on the delayed free list, and `malloc()`
empties that list.  `Shared` says whether several threads may hold the pointer;
`SMP` whether another processor can run between the two halves of `thread_exit()`.

**Sched** (`kernel/thread.c`, `kernel/mp.c`).  Run queues by priority with their
bitmap, the current thread of each processor, quanta, preemption timers, pinning,
real-time threads, processor masks and reschedule interrupts.  A step is one
critical section of `thread_lock` including the context switch at its end;
`wait_queue_wake_all()` is one step per thread, with the lock held.  Time is
abstract: a pending timer may expire at any moment.  `Calls` names the calls that
the threads of an instance make.

**Timer** (`kernel/timer.c`, the time macros of `sys/types.h`).  Time is a counter
modulo `Wrap`, compared as the macros do.  `timer_set()` is two steps, its time
stamp and its critical section; `timer_tick()` is dequeue, call, and return, with
everything else possible in between.  `hw` is the hardware one-shot timer of a
processor, `Clock` the passing of time.  `Racy` says whether threads cancel a timer
while `timer_tick()` handles it.

**Port** (`kernel/port.c`).  Write ports, read ports and groups are records of
fixed pools, as the memory they are allocated from; the packet ring has the head,
tail and avail of the code, and a packet is the number of its write.
`port_create()` and `port_group_add()` are two steps where they look before they
lock, and so is `port_close()`, whose wake-up reschedules inside the critical
section.

**CBuf** and **BoundedFifo** (`lib/cbuf`).  Reads and writes copy in runs that end
at the end of the buffer; a run is one turn of the loop (`WriteTurn`, `ReadTurn`),
and a call makes two turns, after which its loop has ended.  A blocking read waits
for the event outside the lock and looks again with it.

**Pmm** and **Vmm** (`kernel/vm`).  Pages in arenas by priority; single pages,
ranges, contiguous runs and kernel pages.  Regions of address spaces, the search
for a gap, and the four ways to fill a region, with every allocation and mapping
able to fail half way; threads are interleaved where a call takes and releases its
lock.

**PageTables**, **ArmMmu**, **RiscvMmu**, **X86Mmu** and **Mmu** (`arch/*/mmu.c`).
Tables are pages of a small memory; map and unmap walk and build them, and give
them back, as each architecture does.  Mmu puts one architecture under user address
spaces and processors that switch between them and fill their translation caches.
Callers are as the virtual memory manager is: a region is unmapped whole, an
address space is destroyed when no processor runs in it, x86-64 runs on one
processor, and a page that is mapped is not mapped again (which is a panic on
RISC-V).

**Cmpct** (`lib/heap/cmpctmalloc`).  The heap as headers with sizes and the links
to the left, buckets and their bits, over a page allocator that may refuse; blocks
are split, coalesced, trimmed and given back, and the delayed frees of the wrapper
are emptied by `malloc()`.

**GPArena** (`lib/fbl/include/fbl/gparena.h`).  A free list and a commit frontier that
threads change with compare-and-swap; a step is one atomic access, and generation
counts guard against reuse.

**Wavl** (`lib/fbl_ulib`, `intrusive_wavl_tree.h`).  Nodes with links, ranks compared by parity only, and the
best-value observer; insertion and deletion with all the rotations, in two trees
that share their nodes.

**Norfs** (`lib/norfs`).  Objects and block headers written to flash in pieces; the
in-memory index; put, remove, get, mount, and the collector with its copies; the
power may fail, and a write may fail, between any two writes.

**Spifs** (`lib/fs/spifs`).  Two copies of a table of contents with generations, and
files with a capacity; every write to the flash is a step of its own.

**Bcache** (`lib/bcache`) and **Klog** (`lib/klog`).  Blocks on a free and a
least-recently-used list with reference counts over a disk that may fail; rings of
text with checksums that are recovered after a reset.  In Klog every store to the
memory that outlives a reset is a step: the header, the fields, the bytes and the
checksum of each log in `klog_create()`, and the byte, the tail, the head and the
checksum in `klog_puts()`.  `LastWriteIsRead` excepts one point, the logs that a reset
caught between the stores of their head and tail in `klog_create()` (`cut`): there
recovery does accept another text, as the row KlogCreateReset below shows.

**Vring**, **VirtioNet** and **VirtioBlock** (`dev/virtio`).  The descriptor table, the
available and used arrays with wrapping indices, and the walk of the interrupt
handler; on it the queues, worker and packet buffers of the network card, and the
transfers of the disk with their gather lists.  The device is external and modelled
from what the drivers expect of it: it uses what is available in any order, and its
interrupts may be coalesced and late.

**Tcp** (`lib/minip/tcp.c`).  Sockets of two hosts with their windows, buffers,
reference counts, timers and the threads inside their calls, and a network that
loses, repeats and reorders packets.  A `Scenario` bounds what is written, who
closes and what the network may do.

Operators whose comment starts with "Fault:" are not part of the model: each is a
plausible bug in the definition it precedes, and is used to test that a property
notices it.

## The runs

| run | module | properties | what it shows |
|---|---|---|---|
| Mutex | Mutex | QueuesHoldTheBlocked, MutualExclusion, CountIsEngaged, BlockedGetsTheMutex | Four threads acquire one mutex with zero, finite and infinite timeouts, release it, destroy it and initialise it again, in every order: it excludes, its count and wait queue stay exact, and nothing but the lost wake-up of MutexLostWakeup keeps a waiter from getting it. |
| MutexLostWakeup | Mutex | NobodySleepsOnAFreeMutex | *Violation.* With finite timeouts a thread can be left asleep on a mutex that nobody owns: a release that falls between the timeout of the only waiter and its back-out hands the mutex to nobody. |
| Progress | MCProgress | ImplementsAtomicEvent, SignalReleasesAll, WaiterGetsAPermit, JoinOfTheDeadReturns, ReadyThreadRuns, TransferReturns | Events, semaphores, joins, a single-processor scheduler and the virtio block driver, each under fairness of its own steps: what a thread waits for happens, and an event implements its atomic specification. |
| Sched | MCScheduler | EveryThreadInItsPlace, PreemptTimerFollowsThread, NoIdleWhileReady, TakesTheHighest, PinnedAreScheduled | Two processors, and either two threads that block, time out, are woken one or all at a time and exit, or two that may be pinned and real-time and that yield, sleep and change their priority: no thread is lost, doubled or misplaced, the highest priority runs, and no processor idles past a ready thread. |
| Kernel | MCKernel | TimersFireInTime, FiresOnlyWhenDue, BuffersKeepOrder, BufferHasOneHome | Two timers on two processors while the clock wraps around, and ports: with groups and sleeping readers, and in both modes with rings that wrap around. |
| Storage | MCStorage | LastWriteIsRead, SurvivesACrash, SpaceAddsUp | The NOR flash object store, the SPI flash file system, the block cache and the persistent log, with failed writes and with resets between any two writes to the medium. |
| Memory | MCMemory | TheDeadAreReapedOnce, PageHasOneHome, MapsFollowRegions, TlbIsCurrent, RoomIsFound | The structures and stacks of threads that exit, are joined and are detached; physical pages and arenas under the virtual memory manager with its regions and gaps, and the page tables of arm64, RISC-V and x86-64 under it, with allocations that fail half way. |
| Libraries | MCLibraries | HeapIsWhole, BlocksAreKept, TreesAreRight, IsABlockingFifo | The compacting heap with its delayed frees, the general purpose arena, the WAVL tree and the circular buffer with blocking readers. |
| Devices | MCDevices | DescriptorsAddUp, BuffersAddUp, NoCompletionIsMissed, ImplementsCountingSemaphore | Semaphores, and the virtio network driver with its packet buffers and the virtio block driver over the rings they share with the device, whose interrupts are coalesced and delayed. |
| Tcp | MCTcp | StreamIsIntact, AckedIsReceived, RefsAreHolders, NobodySleepsForNothing | Two hosts connect, write, read and close over a network that loses, repeats and reorders packets, with timers and threads that race with the input. |
| TcpTransfer | MCTcp | WrittenIsRead | With two packets lost and fair timers and threads, what one host writes the other reads. |
| NorfsUnmount | Norfs | AllDataIsStored | *Violation.* An object put again while its old version is moved by the garbage collector gets the version number of the copy, and the next mount takes the copy for the newest. |

`MutexLostWakeup` and `NorfsUnmount` are *violations*: they show where the code does
not do what its documentation says.

**Bounds.**  Three or four threads are enough for an owner, a timed-out waiter
that has not run, and two more that compete: the lost wake-up of the mutex needs
three.  Two processors give every pair of concurrent critical sections, and two
threads besides the idle ones let a thread be preempted by, woken by, and moved
against another; `QUANTUM` is 1 or 2 where the code has 5, as only running out
matters.  In Timer, `Wrap` is 10 instead of 2^32: delays plus twice `MaxLate` stay
below half of it, as they do in the code for delays under 2^31 ms, and the clock
goes round.  `MaxLate` is 1: a callback or an insertion can be late by one tick.
Port writes up to 3 packets into rings of 2 (4 when big) and has memory for 2 or 4
rings, so that rings fill up and wrap, and allocation fails.  The circular buffer
has 4 bytes, writes of up to 3 and reads of up to 2, so that both wrap around and
both are refused.  The page allocator has two arenas that were added out of order,
one with an odd start, and an address space that ends where addresses wrap.  Page
tables have 3 levels of 2 entries and 4 spare tables, so that they run out in the
middle of a mapping.  The heap has 4 pages of 256 bytes, the tree 8 nodes, which
reaches every rotation.  Norfs has 3 blocks that hold 2 objects each: collection
happens from the third put on, with one reset or failed write in 7 calls; Spifs has
4 calls and one failure.  Rings have 2 to 8 descriptors and indices that wrap after
4 to 16.  In TCP the client writes up to 3 bytes, in 5 scenarios of loss,
repetition, reordering and closing, one of them with more to write than the transmit
buffer holds, so that the writer sleeps for an acknowledgement, with sequence numbers modulo 16.  `MaxCalls`, `MaxFaults`,
`MaxResets` and `MaxPacket` name the bounds on how often something happens.

**Fairness.**  It is assumed only of things the kernel itself drives: a thread
that is ready runs again (the scheduler), a critical section that was begun ends,
interrupts and ticks arrive, a device completes what it was given, a timer fires.
Threads are never obliged to make a call, with two exceptions that the properties
are about: a holder releases the mutex, and somebody posts.  It is strong where a
thread waits for `thread_lock`, which is free again and again but not continuously,
and for the timer tick.  In TcpTransfer the network loses two packets and delivers
the others, timers fire, and the hosts' threads go on.  MCProgress states
the fairness of each of its components next to the formula that combines them.

**Deadlock** is not checked where the system may stop: when every thread has ended
or waits for something nobody is obliged to do.

**Conditional liveness.**  `BlockedGetsTheMutex` and `WaiterGetsAPermit` are
implications.  With timeouts both objects can lose a wake-up, and the premise is
exactly that this has not happened; under it every waiter without a timeout is
served, so that the lost wake-up is the only way to starve.  In the same way
`TheDeadAreReapedOnce` is checked with one holder of each thread pointer and on one
processor; the rows ThreadDetachRace and ThreadExitSMP show what happens otherwise.
That the gather list of VirtioBlock is the buffer is checked for the layouts of its
instance; the row VirtioBlockGather has one for which it is not.

## Where the code and its documentation disagree

Two runs record such a disagreement.

* **Mutex** (`mutex.c:120`, run MutexLostWakeup): a waiter that timed out is off the
  queue but counted until it runs.  A release in that window sees a count of at
  least one and hands the mutex to nobody; an acquire in the window blocks; when the
  timed-out thread backs out, the mutex is free and the sleeper is beyond reach.
* **Norfs** (run NorfsUnmount): an object that is put again while the collector moves
  its old version gets the version number of the copy, and the next mount takes the
  copy for the newest.

Others met while reading, which no run needs: `pmm_alloc_kpages()` of one page does
not put the page on the list that `vm.h:162` says it does; `norfs.h` says that
wiping leaves the file system unmounted and `norfs.c:893` mounts it; a reset in the
middle of `klog_puts()` makes recovery throw the logs away.

The following behaviours are not part of the regular runs.  Each row gives a property,
and the constants of an instance of the module in which TLC finds a behaviour of the
code that violates it: a configuration with these constants, the module's `Spec` and
the property shows it.

| name | module | property | what it shows | where | constants |
|---|---|---|---|---|---|
| SemaphoreLostWakeup | Semaphore | CountTellsWhoWaits | With finite timeouts a thread can sleep on a semaphore whose count is not negative: a post between a timeout and its back-out wakes nobody and its permit is used up by the back-out. | kernel/semaphore.c:42 | `Thread = {t1, t2, t3}, Queue = {"sem->wait"}, Timeouts = {"finite"}, InitialValues = {0}, MaxPermits = 2` |
| TimerCancelRace | Timer | FiresWhatWasSet | A thread that cancels a timer while timer_tick() on another processor has just taken it off its queue clears the callback that is about to be called. | kernel/timer.c:240 | `CPU = {c1, c2}, TimerT = {t1}, Wrap = 16, Delays = {3}, Periods = {2}, MaxLate = 1, Racy = TRUE` |
| TimerRequeueRace | Timer | QueuedOnce | A periodic timer cancelled and set again while its callback runs on another processor is linked into a queue twice: by timer_tick(), which sees a period and no link, and by timer_set(). | kernel/timer.c:249 | `CPU = {c1, c2}, TimerT = {t1}, Wrap = 16, Delays = {3}, Periods = {2}, MaxLate = 1, Racy = TRUE` |
| TimerLongDelay | Timer | NeverEarly | A delay of more than 2^31 ms is taken for a time in the past, and fires at the next tick. | kernel/timer.c:220 | `CPU = {c1}, TimerT = {t1}, Wrap = 16, Delays = {9}, Periods = {2}, MaxLate = 1, Racy = TRUE` |
| TimerHalfRange | Timer | TickNeverPanics | A delay of exactly 2^31 ms is neither past nor future for the wrapping comparisons, and the assertion at the end of timer_tick() fails. | kernel/timer.c:264 | `CPU = {c1}, TimerT = {t1}, Wrap = 16, Delays = {8}, Periods = {2}, MaxLate = 1, Racy = TRUE` |
| SchedMask | Sched | RealtimeMaskIsCurrent | A real-time thread that lowers its own priority and goes on running leaves its processor in mp.realtime_cpus, so that the processor gets no more reschedule interrupts although it runs no real-time code. | kernel/thread.c:490 | `Thread = {t1}, CPU = {c1}, WaitQ = {w}, HIGHEST_PRIORITY = 2, DEFAULT_PRIORITY = 1, QUANTUM = 1, DYNAMIC_TIMER = TRUE, CreateArgs = {<<1, AnyCPU>>, <<2, AnyCPU>>}, Priorities = {1}, Calls = {"sleep", "set_priority", "set_real_time"}` |
| SchedPanic | Sched | NeverPanics | Flagging a thread that runs on another processor as real-time leaves that processor's preemption timer queued; the next switch from a real-time or idle thread to a regular one there sets it again and timer_set() panics. | kernel/thread.c:244 | `Thread = {t1, t2}, CPU = {c1, c2}, WaitQ = {w}, HIGHEST_PRIORITY = 1, DEFAULT_PRIORITY = 1, QUANTUM = 1, DYNAMIC_TIMER = TRUE, CreateArgs = {<<1, AnyCPU>>}, Priorities = {}, Calls = {"sleep", "set_real_time_any"}` |
| ThreadDetachRace | ThreadLife | JoinerFindsTheDead | When two threads hold the pointer, a join or detach that comes between the exit of a thread and the return of the joiner it woke reaps the thread, and the joiner goes on with a structure that is gone. | kernel/thread.c:327 | `Thread = {main, t1, t2}, Queue = {main, t1, t2}, Main = main, Timeouts = {"zero", "finite", "infinite"}, Shared = TRUE, SMP = FALSE` |
| ThreadExitSMP | ThreadLife | FreedOnlyWhenGone | On two processors a malloc() on the other one frees the stack and the structure of a detached thread that has put them on the delayed free list and is still running on them. | kernel/thread.c:407 | `Thread = {main, t1, t2}, Queue = {main, t1, t2}, Main = main, Timeouts = {"zero", "finite", "infinite"}, Shared = FALSE, SMP = TRUE` |
| PortBatch | Port | NoReaderSleepsOnPackets | Two packets written at once wake one of two sleeping readers; the other sleeps on beside the second packet. | kernel/port.c:394 | `Thread = {t1, t2, t3}, WPort = {w1}, RPort = {r1}, Group = {}, Queue = {r1}, Name = {n1}, Mode = {"broadcast"}, PORT_BUFF_SIZE = 2, PORT_BUFF_SIZE_BIG = 4, Counts = {2}, MaxPacket = 2, MaxBuf = 4, Calls = {}, Admins = {t1}, ClosePolicy = "sleeping"` |
| PortGroupWake | Port | NoReaderSleepsOnPackets | A reader of a group that was woken for a packet of one member takes the packet of another one, and the reader asleep on the first member is not told. | kernel/port.c:391 | `Thread = {t1, t2, t3}, WPort = {w1}, RPort = {r1, r2}, Group = {g1}, Queue = {r1, r2, g1}, Name = {n1}, Mode = {"broadcast"}, PORT_BUFF_SIZE = 2, PORT_BUFF_SIZE_BIG = 4, Counts = {1}, MaxPacket = 2, MaxBuf = 4, Calls = {"group"}, Admins = {t1}, ClosePolicy = "sleeping"` |
| PortNames | Port | NamesAreUnique | Two threads that create a port of the same name at the same time both succeed, and the second port can never be opened. | kernel/port.c:166 | `Thread = {t1, t2}, WPort = {w1, w2}, RPort = {r1, r2}, Group = {}, Queue = {r1, r2}, Name = {n1}, Mode = {"broadcast"}, PORT_BUFF_SIZE = 2, PORT_BUFF_SIZE_BIG = 4, Counts = {1}, MaxPacket = 2, MaxBuf = 4, Calls = {}, Admins = {t1}, ClosePolicy = "sleeping"` |
| PortCloseRace | Port | ReaderFindsItsPort | A read port closed between a write and the run of the reader it woke is gone when the reader looks into its buffer. | kernel/port.c:530 | `Thread = {t1, t2}, WPort = {w1}, RPort = {r1, r2}, Group = {}, Queue = {r1, r2}, Name = {n1}, Mode = {"broadcast"}, PORT_BUFF_SIZE = 2, PORT_BUFF_SIZE_BIG = 4, Counts = {1}, MaxPacket = 2, MaxBuf = 4, Calls = {}, Admins = {t1}, ClosePolicy = "any"` |
| PortOrphan | Port | NobodySleepsOnAnOrphan | A read that starts after port_destroy() sleeps on a port that nobody can write to any more. | kernel/port.c:422 | `Thread = {t1, t2}, WPort = {w1}, RPort = {r1, r2}, Group = {}, Queue = {r1, r2}, Name = {n1}, Mode = {"broadcast"}, PORT_BUFF_SIZE = 2, PORT_BUFF_SIZE_BIG = 4, Counts = {1}, MaxPacket = 2, MaxBuf = 4, Calls = {"destroy"}, Admins = {t1}, ClosePolicy = "sleeping"` |
| PortLeak | Port | NoBufferLeaks | A read port closed after its write port was destroyed leaves its buffer allocated. | kernel/port.c:515 | `Thread = {t1, t2}, WPort = {w1}, RPort = {r1, r2}, Group = {}, Queue = {r1, r2}, Name = {n1}, Mode = {"broadcast"}, PORT_BUFF_SIZE = 2, PORT_BUFF_SIZE_BIG = 4, Counts = {1}, MaxPacket = 2, MaxBuf = 4, Calls = {"destroy"}, Admins = {t1}, ClosePolicy = "sleeping"` |
| PortPartial | Port | WritesAllOrNone | A write to a broadcast port that is full for one reader reaches the other. | kernel/port.c:385 | `Thread = {t1, t2}, WPort = {w1}, RPort = {r1, r2}, Group = {}, Queue = {r1, r2}, Name = {n1}, Mode = {"broadcast"}, PORT_BUFF_SIZE = 2, PORT_BUFF_SIZE_BIG = 4, Counts = {2}, MaxPacket = 4, MaxBuf = 4, Calls = {}, Admins = {t1}, ClosePolicy = "sleeping"` |
| PortGroupRemove | Port | GroupHasItsMembers | A port that was removed from a group goes on saying that it is in it. | kernel/port.c:353 | `Thread = {t1, t2}, WPort = {w1}, RPort = {r1, r2}, Group = {g1}, Queue = {r1, r2, g1}, Name = {n1}, Mode = {"broadcast"}, PORT_BUFF_SIZE = 2, PORT_BUFF_SIZE_BIG = 4, Counts = {1}, MaxPacket = 2, MaxBuf = 4, Calls = {"group", "group_remove"}, Admins = {t1}, ClosePolicy = "sleeping"` |
| PortGroupRace | Port | MembersKnowTheirGroup | Two threads that add one read port to a group at the same time put it into the list twice. | kernel/port.c:301 | `Thread = {t1, t2}, WPort = {w1}, RPort = {r1, r2}, Group = {g1}, Queue = {r1, r2, g1}, Name = {n1}, Mode = {"broadcast"}, PORT_BUFF_SIZE = 2, PORT_BUFF_SIZE_BIG = 4, Counts = {1}, MaxPacket = 2, MaxBuf = 4, Calls = {"group"}, Admins = {t1, t2}, ClosePolicy = "sleeping"` |
| NorfsGcCrash | Norfs | AllDataIsStored | A reset between the erase of a collected block and the header that ends the collection loses the objects that were copied: the block they are in is erased at the next mount as interrupted. | lib/norfs/norfs.c:662 | `Keys = {k1, k2}, NumBlocks = 3, BlockSize = 6, HeaderSize = 2, ObjSize = 2, MarkerSize = 1, VersionRange = 65536, MaxCalls = 7, MaxFaults = 0, Crashes = TRUE` |
| NorfsFill | Norfs | NoOverrun | The copies of a collection fill the new block to its end, and the object the collection made room for is written over the next block. | lib/norfs/norfs.c:447 | `Keys = {k1, k2}, NumBlocks = 3, BlockSize = 6, HeaderSize = 2, ObjSize = 2, MarkerSize = 1, VersionRange = 65536, MaxCalls = 7, MaxFaults = 0, Crashes = FALSE` |
| NorfsFreed | Norfs | NoFreedInode | A put that found the inode of a deleted object goes on with it after the collection it caused has freed it. | lib/norfs/norfs.c:586 | `Keys = {k1, k2}, NumBlocks = 3, BlockSize = 6, HeaderSize = 2, ObjSize = 2, MarkerSize = 1, VersionRange = 65536, MaxCalls = 10, MaxFaults = 0, Crashes = FALSE` |
| NorfsCopyFail | Norfs | NoObjectLost | When the copy of a live object fails the collection stops and the block is erased all the same. | lib/norfs/norfs.c:658 | `Keys = {k1, k2}, NumBlocks = 3, BlockSize = 6, HeaderSize = 2, ObjSize = 2, MarkerSize = 1, VersionRange = 65536, MaxCalls = 7, MaxFaults = 1, Crashes = FALSE` |
| NorfsRefused | Norfs | PutFindsSpace | A put is refused with ERR_NO_MEMORY when the round-robin comes back to the block it began with, although that block was emptied meanwhile. | lib/norfs/norfs.c:452 | `Keys = {k1, k2}, NumBlocks = 3, BlockSize = 6, HeaderSize = 2, ObjSize = 2, MarkerSize = 1, VersionRange = 65536, MaxCalls = 7, MaxFaults = 0, Crashes = FALSE` |
| SpifsHugeLength | Spifs | TableIsDurable | A length that rounds up past 2^32 gives a file of capacity 0, which the next mount takes for the end of the table. | lib/fs/spifs/spifs.c:729 | `Names = {a, b}, Lengths = {0, 16}, PageCount = 5, PageSize = 2, CapacityRange = 8, NumEntries = 4, Dirs = {d}, MaxCalls = 4, MaxFaults = 0, Crashes = TRUE` |
| BcacheReadError | Bcache | OnOneList | After a read error the block goes onto the free list although alloc_block() has put it onto the list of used blocks, with one node for both. | lib/bcache/bcache.c:185 | `Blocks = {b1, b2}, Blocknums = {n1, n2, n3}, Values = {zero, one}, Zero = zero, MaxRef = 2, MaxFaults = 2` |
| BcachePanic | Bcache | NoPanic | With every block held, or when writing a dirty one back fails, there is no block to fill and the assertion fails instead of an error being returned. | lib/bcache/bcache.c:177 | `Blocks = {b1, b2}, Blocknums = {n1, n2, n3}, Values = {zero, one}, Zero = zero, MaxRef = 2, MaxFaults = 2` |
| KlogOther | Klog | LogKeepsTheLast | Reading a log other than the current one moves the tail of the current one. | lib/klog/klog.c:289 | `NumLogs = 2, Size = 4, Texts = {<<1, 7>>, <<7>>}, ByteRange = 8, SumRange = 32, SignedChar = FALSE, MaxRead = 2, ReadOthers = TRUE, MaxCalls = 3, MaxResets = 2` |
| KlogSigned | Klog | ResetLosesNothing | Where char is signed, a byte from 128 on changes the checksum by another amount than the one it is checked with, and the logs are thrown away at the next reset. | lib/klog/klog.c:323 | `NumLogs = 2, Size = 4, Texts = {<<1, 7>>, <<7>>}, ByteRange = 8, SumRange = 32, SignedChar = TRUE, MaxRead = 2, ReadOthers = FALSE, MaxCalls = 3, MaxResets = 2` |
| KlogCreateReset | Klog | EveryLogKeepsTheLast | A reset between the stores of head and tail when klog_create() goes over old logs leaves a log whose head is 0 and whose tail and checksum are the old ones: klog_recover() accepts it, with text in it that nobody wrote since or that was read before. | lib/klog/klog.c:139 | `NumLogs = 2, Size = 4, Texts = {<<1, 7>>, <<7>>}, ByteRange = 8, SumRange = 32, SignedChar = FALSE, MaxRead = 2, ReadOthers = FALSE, MaxCalls = 3, MaxResets = 2` |
| CmpctTrim | Cmpct | TrimKeepsTheTiling | Trimming the start of a region into which no free area fits any more leaves a gap between the sentinel and the next area. | lib/heap/cmpctmalloc/cmpctmalloc.c:660 | `Threads = {t1}, PageSize = 256, GrowSize = 768, VirtualBits = 11, NumPages = 3, Sizes = {60, 256}, Aligns = {64}, MaxLive = 3` |
| CmpctBucket | Cmpct | EveryAreaHasABucket | Neighbouring regions of the page allocator merge into a free area that is too large for the last bucket. | lib/heap/cmpctmalloc/cmpctmalloc.c:159 | `Threads = {t1}, PageSize = 256, GrowSize = 256, VirtualBits = 11, NumPages = 11, Sizes = {1, 2300}, Aligns = {64}, MaxLive = 2` |
| CmpctLock | Cmpct | LockIsReleased | A large allocation that the page allocator refuses returns with the lock of the heap held. | lib/heap/cmpctmalloc/cmpctmalloc.c:592 | `Threads = {t1}, PageSize = 256, GrowSize = 256, VirtualBits = 11, NumPages = 4, Sizes = {60, 2100}, Aligns = {64}, MaxLive = 2` |
| VirtioNetFull | VirtioNet | LockIsReleased | A transmit that finds the ring full returns with the lock of the device held. | dev/virtio/net/virtio-net.c:292 | `Senders = {s1}, NumRx = 2, NumTx = 4, PoolSize = 12, IdxRange = 4, MaxSends = 3` |
| VirtioNetResched | VirtioNet | NoRescheduleInInterrupt | A packet buffer freed by the interrupt handler of the network card posts its semaphore with rescheduling. | lib/minip/pktbuf.c:62 | `Senders = {s1, s2}, NumRx = 2, NumTx = 4, PoolSize = 10, IdxRange = 4, MaxSends = 3` |
| VirtioBlockGather | VirtioBlock | ChainIsTheBuffer | After a piece that starts a new descriptor the expected next address is one page after the old piece, so that a later page can be taken for contiguous when it is not. | dev/virtio/block/virtio-block.c:405 | `Threads = {t1, t2}, Num = 8, IdxRange = 16, Buffers = {<<1, 5, 3>>}` |
| VirtioBlockRing | VirtioBlock | RingIsLargeEnough | A buffer in more pieces than there are free descriptors: the result of virtio_alloc_desc() is not looked at. | dev/virtio/block/virtio-block.c:387 | `Threads = {t1, t2}, Num = 6, IdxRange = 12, Buffers = {<<1, 3, 6, 8, 2>>}` |
| MmuDevice | Mmu | DeviceIsUncached | On x86-64 a mapping asked for as device memory is cached: the flag is a value of its own, and only the bit of the other one is tested. | arch/x86/mmu.c:150 | `Levels = 3, Fanout = 2, Tables = {1, 2, 3, 4}, BlockMax = 1, KernelTop = 10, KernelL2 = (1 :> 11), KernelName = kernel, Users = {u1, u2}, Cpus = {c1, c2}, Spots = {0, 3, 4}, Sizes = {1, 3}, Frames = {0, 1}, Flags = {{"device", "nx"}}, MaxRegions = 3` |
| TcpOverlap | MCTcp | NothingBreaks | A retransmission that begins before the window and ends in it has a negative offset, and the assertion offset < len fails. | lib/minip/tcp.c:651 | `TxSize = 2, ReadLen = 1, SeqRange = 16, Scenarios = OneLoss, MaxSockets = 2, NetSize = 2` |
| TcpTimeWait | MCTcp | NothingBreaks | A reset that arrives in TIME_WAIT closes the socket and leaves the timer, whose callback asserts the state. | lib/minip/tcp.c:923 | `TxSize = 2, ReadLen = 1, SeqRange = 16, Scenarios = OneRepeat, MaxSockets = 2, NetSize = 2` |
| TcpCloseTwice | MCTcp | NothingBreaks | A second tcp_close() returns an error with the lock of the socket held. | lib/minip/tcp.c:1274 | `TxSize = 2, ReadLen = 1, SeqRange = 16, Scenarios = TwoCloses, MaxSockets = 2, NetSize = 2` |
| TcpFin | MCTcp | FinAfterAllData | tcp_close() sends its FIN with the first sequence number that was not acknowledged: a FIN that overtakes data ends the stream before it. | lib/minip/tcp.c:1254 | `TxSize = 2, ReadLen = 1, SeqRange = 16, Scenarios = Overtaken, MaxSockets = 2, NetSize = 2` |
| TcpLeak | MCTcp | ClosedIsFreed | A reset that answers the FIN of a closed socket leaves it closed, listed and referenced by nobody who could free it. | lib/minip/tcp.c:410 | `TxSize = 2, ReadLen = 1, SeqRange = 16, Scenarios = OneRepeat, MaxSockets = 2, NetSize = 2` |
| TcpAccept | MCTcp | AcceptorWakes | Closing a listening socket wakes the waiters of three events, and not the thread asleep on accept_sem. | lib/minip/tcp.c:1280 | `TxSize = 2, ReadLen = 1, SeqRange = 16, Scenarios = ListenerCloses, MaxSockets = 2, NetSize = 2` |

## What is proved

TLAPS checks the following for every value of the constants that the module's
assumption allows: any finite number of threads, any number of processors, queues,
priorities, readers and interrupt handlers, any sizes.  The assumptions say what a
constant is (a set of threads is finite, `NoThread` is not a thread, a size is a power
of two) and are hypotheses of the theorems; TLC evaluates them on the instances of the
runs.

| module | theorem | statement |
|---|---|---|
| MutexProofs | TypeCorrect, Exclusion, Accounting, QueueCorrect | `Spec => []` of TypeOK, MutualExclusion, CountIsEngaged, QueuesHoldTheBlocked |
| SemaphoreProofs | Refinement | `Spec => ImplementsCountingSemaphore` |
| EventProofs | Refinement, NobodySleepsOnASignal | `Spec => ImplementsAtomicEvent`, `Spec => []NoSleeperOnSignaledEvent` |
| ThreadLifeProofs | JoinIsSafe | one holder of each pointer: `Spec => [](JoinerFindsTheDead /\ DeadAreReapedOnce /\ NoJoinerSleepsForNothing)` |
| ThreadLifeProofs | ReapedOnce | one processor, too: `Spec => []TheDeadAreReapedOnce` |
| SchedProofs | InItsPlace, TypeCorrect | `Spec => []` of EveryThreadInItsPlace, TypeOK |
| SchedProofs | HighestFirst | `Spec => TakesTheHighest`, an action property |
| SchedProofs | TimerFollowsThread | nobody changes the real-time flag of another thread: `Spec => []PreemptTimerFollowsThread` |
| SchedProofs | NoWakeupIsLost | no pinned threads and no `thread_sleep()`: `Spec => []NoIdleWhileReady` |
| TimerProofs | TimersFireInTimeAlways, FiresOnlyWhenDueAlways, FiresWhatWasSetAlways, TickNeverPanicsAlways | short delays, and no thread cancels a timer that `timer_tick()` handles: `Spec => []` of TimersFireInTime, FiresOnlyWhenDue, FiresWhatWasSet, TickNeverPanics |
| CBufProofs | BlockingFifo | `Spec => IsABlockingFifo`, that is `Spec => ImplementsFifo` and `Spec => []EventFollowsData` |

**Wait queues.**  `WaitQueueProofs` has one lemma per function: each keeps the queues
well typed, and each queue a list without repetition of exactly the threads that
block on it (`WaitQueueInv`).  They do not mention a client and serve Mutex,
Semaphore, Event and ThreadLife alike.

**Mutex.**  Exclusion is not inductive by itself.  `mutex_acquire_timeout()` lets a
thread in when the count is zero, so the count has to be the number of engaged
threads (`CountIsEngaged`).  `mutex_release()` hands the mutex to the head of the
queue, so that head must be a blocked thread, which owns nothing.  A thread that
returns from its wait with an error must leave the count alone when the mutex was
destroyed and decrement it otherwise, so in a live mutex nobody returns with another
error than a timeout (`OnlyDestroySendsAway`); and a thread inside does not sleep
(`InsideRuns`).

**Semaphore.**  The abstract permits are `count` plus the number of threads that wait,
those included that timed out and have not backed out.  The invariant is that this
number is never negative; each operation is an abstract step or leaves permits and
waiters alone.  The cardinality lemmas `Joins` and `Leaves` carry the proof.

**Event.**  A signal and a wait are several steps with the lock held, and an unsignal
may come between any two.  The mapping completes a call that has taken effect: the
abstract event changes at the step that decides, and the remaining steps stutter.
The invariant says what is known at each `pc`, above all that nobody sleeps on a
signaled event unless the signal that will wake everybody is under way.

**Thread life cycle.**  When one thread holds each pointer (`~Shared`), the invariant
says where a pointer is: with its creator, in the join or detach that consumes it, or
gone; and relates it to the thread's state, its place in the list and its memory.  The
hypothesis is what the code asks of its callers: with two holders a join finds freed
memory (row ThreadDetachRace).  `FreedOnlyWhenGone` needs one processor besides: a
detached thread queues its stack for freeing before it has left it (row
ThreadExitSMP).

**Scheduler.**  `IInv` is EveryThreadInItsPlace with what it rests on: lists without
repetition, the place of the idle threads, at most one waker inside
`wait_queue_wake_all()`, which threads may be put back early, and the bitmap and
counters as functions of the queues.  The functions that the calls share have a
lemma each (`insert_in_run_queue_*`, `list_delete`, `thread_resched`,
`wakeup_cpu_for_thread`), and there is one lemma per call.  HighestFirst follows from
what get_top_thread() returns in such a state.  TimerFollowsThread is
false when a thread changes the flag of one that runs elsewhere, because the timer is
set and cancelled by the kind of the thread at the next switch.  NoWakeupIsLost needs
a second invariant, `IdleInv`: a processor that idles without a reschedule on its way
finds nothing ready, an idle processor is not in the real-time mask, and whoever
wakes threads runs one itself or is in an interrupt.  It is stated without pinned
threads, because a pinned thread may displace one that could run on an idle processor
which nobody tells, and without `thread_sleep()`, whose handler tells no other
processor.

**Timers.**  A wrapping comparison is no order, so the proof never orders times.  It
works with the distance of each timer from `now` (`Remaining`, an integer that may be
negative) and shows that all distances in a queue are so close together that
`TIME_GT` and `TIME_LT` agree with their order (lemmas Between, Opposite, Postponed,
on arithmetic modulo `Wrap`).  `IInv` says

* each queue is in the order of the distances, and a timer is in one place: one
  queue, or handled by the tick of one processor;
* on a processor that runs threads the hardware timer is set, for at most `MaxLate`
  after the first timer is due (`Armed`); while `timer_tick()` runs, no timer in the
  queue was due more than `MaxLate` before it was called, and it was called at most
  `MaxLate` ago (`Ticking`).  Together these give the bound of twice `MaxLate`;
* a timer between the time stamp and the critical section of `timer_set()` is nowhere
  else, and its stamp is at most `MaxLate` old (`BeingSet`);
* a timer that `timer_tick()` handles was due, until its callback sets or cancels it
  (`Handling`), so that the next period is computed from a time close to `now`.

There is one lemma per action, and the two ends of the loop in `timer_tick()` (take a
timer off, or set the hardware timer and return) are shared by the tick and the return
of a callback (KeptByLoop).  That a place for a new timer exists in a queue of any
length is the least-number principle (lemma First); it comes from the library's theorem
on well-founded orders, which is brought in at the end only, as the provers slow down
with everything that is in scope.  The hypotheses are `DelaysAreShort`, a delay plus twice
`MaxLate` is at most half the range of the clock, and `~Racy`.  Both are needed: with a
delay of half the range the assertion fails and with a longer one a timer fires early
(rows TimerHalfRange and TimerLongDelay), and a thread that cancels a timer which
another processor handles clears its callback or has it linked twice (rows
TimerCancelRace and TimerRequeueRace).  TLC evaluates `DelaysAreShort` on the
instance of the run Kernel.

**Circular buffer.**  `Contents(h, t, b)` is the ring as a sequence.  The lemmas
WriteLoopEnds and ReadLoopEnds show that two turns are all that the loops ever make,
as a comment in `cbuf_read()` claims; WriteAppends and ReadRemoves say what the turns
did to the contents, by an invariant of the loop (`Written`, `ReadSoFar`) in which the
modulus is replaced by at most one subtraction.  RegionsAreContents shows that the two
regions of `cbuf_peek()` are the contents.  A step then appends, removes or leaves
them alone, which is a step of BoundedFifo.  That nobody sleeps on data needs the event
to say exactly whether there is data.

## What is only model-checked

* Liveness (BlockedGetsTheMutex, WaiterGetsAPermit, SignalReleasesAll,
  JoinOfTheDeadReturns, ReadyThreadRuns, TransferReturns, WrittenIsRead): outside the
  prover's reach, as it does not reason about fairness.
* The page allocator and the multi-port writes of Port: they fold over lists, and what
  a fold computes for a list of any length needs an induction that the provers cannot
  use.  For the same reason, and because they use RECURSIVE operators: the page tables,
  the heap, the tree, and the rings of the virtio drivers.
* The file systems, the block cache, the log, the arena and TCP: within
  reach for the most part, and not done.
* The restrictions of the theorems on the life cycle, the scheduler and the timers are real: without
  them the properties do not hold, and the table above lists the behaviours.

## What is not modelled

* The handler of a timed wait that is already running on another processor when
  the wait ends: in the models built on WaitQueue the cancellation of the timer is
  final.
* The build without dynamic timers, except for the tick in Sched.
* Interrupt delivery between processors, context switch and spin locks: atomic.
* In TCP each host has one socket besides the listening one, and net timers that are
  set fire in any order: the time they are set for, and the thread that sleeps until
  then, are left out.
* Closing a port that `port_group_remove()` took out of its group: the code then
  unlinks a node that is in no list (row PortGroupRemove).
* In Klog memory that was never written is zero, every `klog_create()` gets the same
  memory and sizes, and calls do not overlap.
* Contents of packets, names of threads, statistics, tracing; checksums and options of
  TCP; the registers of devices.
* Start-up, block devices and partition tables, the other file systems, the rest of the
  network stack, console, graphics and most drivers; `PROJECT.json` gives the reason for
  each.

## Plan

1. *Proofs*: packet order and buffer ownership of ports; the free list of the arena;
   the reference counts of TCP.
2. *Timed waits across processors*: WaitQueue with the ticks of Timer, where the
   timeout handler is in flight while its wait ends and the next one begins.
3. *Start-up levels* as an algorithm checked against "every hook of the range once,
   in order", and the interrupt reasons of `arch/riscv/mp.c`.
4. That Sched implements WaitQueue.
