----------------------------- MODULE MCProgress -----------------------------
(***************************************************************************)
(* What a thread waits for besides a mutex, for TLC: an event, a           *)
(* semaphore, the end of another thread, a processor, and a transfer of    *)
(* the block driver. "who" says which a behaviour is about; the event      *)
(* stays as it is created in the behaviours of the others, and the         *)
(* variables that they do not share stay 0.                                *)
(***************************************************************************)
EXTENDS Event

CONSTANTS t1, t2, t3, handler, c1, wq, AnyCPU, NULL   \* model values

VARIABLES who,  \* the component that runs
          list2, state2, blocking_wait_queue2, wait_queue_block_ret2, timer2, count, valid,
          life, detached, magic2, thread_list, memory, handle, pc2, priority, pinned_cpu,
          real_time, remaining_quantum, run_queue, run_queue_bitmap, wait_count, current,
          active_cpus, idle_cpus, realtime_cpus, ipi, irq, preempt_timer, yielding, waking,
          panicked, ring, data, holder, io_event, intr, thr, done, broken

Threads == {t1, t2, t3}
Kinds == {"zero", "finite", "infinite"}

Sem == INSTANCE Semaphore WITH
  Thread <- Threads, Queue <- {"sem->wait"}, Timeouts <- {"zero", "finite"},
  InitialValues <- 0 .. 2, MaxPermits <- 3, list <- list2, state <- state2,
  blocking_wait_queue <- blocking_wait_queue2, wait_queue_block_ret <- wait_queue_block_ret2,
  timer <- timer2
Life == INSTANCE ThreadLife WITH
  Thread <- Threads, Queue <- Threads, Main <- t1, Timeouts <- Kinds, Shared <- FALSE,
  SMP <- FALSE, list <- list2, state <- state2, blocking_wait_queue <- blocking_wait_queue2,
  wait_queue_block_ret <- wait_queue_block_ret2, timer <- timer2, magic <- magic2, pc <- pc2
Up == INSTANCE Sched WITH
  Thread <- Threads, CPU <- {c1}, WaitQ <- {wq}, HIGHEST_PRIORITY <- 1, DEFAULT_PRIORITY <- 1,
  QUANTUM <- 2, DYNAMIC_TIMER <- FALSE, CreateArgs <- {<<1, AnyCPU>>}, Priorities <- {},
  Calls <- {"wait", "wake"}, state <- state2, blocking_wait_queue <- blocking_wait_queue2,
  timer <- timer2, list <- list2
Disk == INSTANCE VirtioBlock WITH
  Threads <- {t1, t2}, Num <- 4, IdxRange <- 8, Buffers <- {<<1>>, <<3, 1>>}

ASSUME EventAssumption /\ Sem!SemaphoreAssumption /\ Life!ThreadLifeAssumption
/\ Up!SchedAssumption

\* What each component leaves alone.
NotEvent ==
  <<who, list2, state2, blocking_wait_queue2, wait_queue_block_ret2, timer2, count, valid, life,
  detached, magic2, thread_list, memory, handle, pc2, priority, pinned_cpu, real_time,
  remaining_quantum, run_queue, run_queue_bitmap, wait_count, current, active_cpus, idle_cpus,
  realtime_cpus, ipi, irq, preempt_timer, yielding, waking, panicked, ring, data, holder,
  io_event, intr, thr, done, broken>>
NotSemaphore ==
  <<who, vars, life, detached, magic2, thread_list, memory, handle, pc2, priority, pinned_cpu,
  real_time, remaining_quantum, run_queue, run_queue_bitmap, wait_count, current, active_cpus,
  idle_cpus, realtime_cpus, ipi, irq, preempt_timer, yielding, waking, panicked, ring, data,
  holder, io_event, intr, thr, done, broken>>
NotThreadLife ==
  <<who, vars, count, valid, priority, pinned_cpu, real_time, remaining_quantum, run_queue,
  run_queue_bitmap, wait_count, current, active_cpus, idle_cpus, realtime_cpus, ipi, irq,
  preempt_timer, yielding, waking, panicked, ring, data, holder, io_event, intr, thr, done,
  broken>>
NotSched ==
  <<who, vars, wait_queue_block_ret2, count, valid, life, detached, magic2, thread_list, memory,
  handle, pc2, ring, data, holder, io_event, intr, thr, done, broken>>
NotVirtioBlock ==
  <<who, vars, list2, state2, blocking_wait_queue2, wait_queue_block_ret2, timer2, count, valid,
  life, detached, magic2, thread_list, memory, handle, pc2, priority, pinned_cpu, real_time,
  remaining_quantum, run_queue, run_queue_bitmap, wait_count, current, active_cpus, idle_cpus,
  realtime_cpus, ipi, preempt_timer, yielding, waking, panicked>>

SumInit ==
  \/ /\ who = "event" /\ event_init
     /\ list2 = 0 /\ state2 = 0 /\ blocking_wait_queue2 = 0 /\ wait_queue_block_ret2 = 0
     /\ timer2 = 0 /\ count = 0 /\ valid = 0 /\ life = 0 /\ detached = 0 /\ magic2 = 0
     /\ thread_list = 0 /\ memory = 0 /\ handle = 0 /\ pc2 = 0 /\ priority = 0 /\ pinned_cpu = 0
     /\ real_time = 0 /\ remaining_quantum = 0 /\ run_queue = 0 /\ run_queue_bitmap = 0
     /\ wait_count = 0 /\ current = 0 /\ active_cpus = 0 /\ idle_cpus = 0 /\ realtime_cpus = 0
     /\ ipi = 0 /\ irq = 0 /\ preempt_timer = 0 /\ yielding = 0 /\ waking = 0 /\ panicked = 0
     /\ ring = 0 /\ data = 0 /\ holder = 0 /\ io_event = 0 /\ intr = 0 /\ thr = 0 /\ done = 0
     /\ broken = 0
  \/ /\ who = "semaphore" /\ Sem!sem_init /\ event_init /\ ~signaled /\ ~autounsignal
     /\ life = 0 /\ detached = 0 /\ magic2 = 0 /\ thread_list = 0 /\ memory = 0 /\ handle = 0
     /\ pc2 = 0 /\ priority = 0 /\ pinned_cpu = 0 /\ real_time = 0 /\ remaining_quantum = 0
     /\ run_queue = 0 /\ run_queue_bitmap = 0 /\ wait_count = 0 /\ current = 0
     /\ active_cpus = 0 /\ idle_cpus = 0 /\ realtime_cpus = 0 /\ ipi = 0 /\ irq = 0
     /\ preempt_timer = 0 /\ yielding = 0 /\ waking = 0 /\ panicked = 0 /\ ring = 0 /\ data = 0
     /\ holder = 0 /\ io_event = 0 /\ intr = 0 /\ thr = 0 /\ done = 0 /\ broken = 0
  \/ /\ who = "threads" /\ Life!Init /\ event_init /\ ~signaled /\ ~autounsignal
     /\ count = 0 /\ valid = 0 /\ priority = 0 /\ pinned_cpu = 0 /\ real_time = 0
     /\ remaining_quantum = 0 /\ run_queue = 0 /\ run_queue_bitmap = 0 /\ wait_count = 0
     /\ current = 0 /\ active_cpus = 0 /\ idle_cpus = 0 /\ realtime_cpus = 0 /\ ipi = 0
     /\ irq = 0 /\ preempt_timer = 0 /\ yielding = 0 /\ waking = 0 /\ panicked = 0 /\ ring = 0
     /\ data = 0 /\ holder = 0 /\ io_event = 0 /\ intr = 0 /\ thr = 0 /\ done = 0 /\ broken = 0
  \/ /\ who = "sched" /\ Up!Init /\ event_init /\ ~signaled /\ ~autounsignal
     /\ wait_queue_block_ret2 = 0 /\ count = 0 /\ valid = 0 /\ life = 0 /\ detached = 0
     /\ magic2 = 0 /\ thread_list = 0 /\ memory = 0 /\ handle = 0 /\ pc2 = 0 /\ ring = 0
     /\ data = 0 /\ holder = 0 /\ io_event = 0 /\ intr = 0 /\ thr = 0 /\ done = 0 /\ broken = 0
  \/ /\ who = "block" /\ Disk!Init /\ event_init /\ ~signaled /\ ~autounsignal
     /\ list2 = 0 /\ state2 = 0 /\ blocking_wait_queue2 = 0 /\ wait_queue_block_ret2 = 0
     /\ timer2 = 0 /\ count = 0 /\ valid = 0 /\ life = 0 /\ detached = 0 /\ magic2 = 0
     /\ thread_list = 0 /\ memory = 0 /\ handle = 0 /\ pc2 = 0 /\ priority = 0 /\ pinned_cpu = 0
     /\ real_time = 0 /\ remaining_quantum = 0 /\ run_queue = 0 /\ run_queue_bitmap = 0
     /\ wait_count = 0 /\ current = 0 /\ active_cpus = 0 /\ idle_cpus = 0 /\ realtime_cpus = 0
     /\ ipi = 0 /\ preempt_timer = 0 /\ yielding = 0 /\ waking = 0 /\ panicked = 0

SumNext ==
  \/ who = "event" /\ Next /\ UNCHANGED NotEvent
  \/ who = "semaphore" /\ Sem!Next /\ UNCHANGED NotSemaphore
  \/ who = "threads" /\ Life!Next /\ UNCHANGED NotThreadLife
  \/ who = "sched" /\ Up!Next /\ UNCHANGED NotSched
  \/ who = "block" /\ Disk!Next /\ UNCHANGED NotVirtioBlock

sumvars ==
  <<who, vars, list2, state2, blocking_wait_queue2, wait_queue_block_ret2, timer2, count, valid,
  life, detached, magic2, thread_list, memory, handle, pc2, priority, pinned_cpu, real_time,
  remaining_quantum, run_queue, run_queue_bitmap, wait_count, current, active_cpus, idle_cpus,
  realtime_cpus, ipi, irq, preempt_timer, yielding, waking, panicked, ring, data, holder,
  io_event, intr, thr, done, broken>>

SumSpec == SumInit /\ [][SumNext]_sumvars
-----------------------------------------------------------------------------
\* The fairness of the components.  Posts go on; a call that holds the thread lock goes on; a
\* thread that can go on inside its call again and again does.
semvars == Sem!vars
lifevars == Life!vars
WaitFairness ==
  /\ WF_semvars(who = "semaphore" /\ Sem!sem_post)
  /\ WF_vars(who = "event" /\ (event_wait_consume \/ event_signal_set \/ event_signal_wake_all))
  /\ \A t \in Threads :
       /\ WF_semvars(who = "semaphore" /\ Sem!sem_wait_return(t))
       /\ SF_vars(who = "event" /\ event_wait_return(t))
       /\ SF_lifevars(/\ who = "threads"
                      /\ \/ Life!thread_join_return(t) \/ Life!thread_join_free(t)
                         \/ Life!thread_detach_join(t) \/ Life!exit_resched(t))

\* The processor goes on after an interrupt and with a call it has begun, interrupts and ticks
\* arrive, and boot ends.
schedvars == Up!vars
SchedFairness ==
  /\ WF_schedvars(who = "sched" /\ Up!thread_become_idle(c1))
  /\ WF_schedvars(who = "sched" /\ current[c1] \in yielding /\ Up!thread_yield(c1))
  /\ WF_schedvars(who = "sched" /\ irq[c1] # "none" /\ Up!thread_preempt(c1))
  /\ WF_schedvars(who = "sched" /\ Up!mp_mbx_reschedule_irq(c1))
  /\ SF_schedvars(who = "sched" /\ Up!thread_timer_tick(c1))
  /\ WF_schedvars(who = "sched" /\ Up!wake_all_pop)
  /\ WF_schedvars(who = "sched" /\ Up!wake_all_done)

\* The device works on what it is given, its interrupt is taken and handled, and a thread that
\* has been signaled is scheduled.
blockvars == Disk!vars
BlockFairness ==
  /\ WF_blockvars(who = "block" /\ Disk!DeviceFinishes)
  /\ WF_blockvars(/\ who = "block"
                  /\ \/ Disk!Enter \/ Disk!Look \/ Disk!EndOfRing
                     \/ Disk!FreeUsed \/ Disk!SignalIo \/ Disk!Step)
  /\ \A t \in {t1, t2} : WF_blockvars(who = "block" /\ Disk!TransferEnds(t))

FairSpec == SumSpec /\ WaitFairness /\ SchedFairness /\ BlockFairness

\* A thread that waits for a semaphore, while sem_post() keeps posting and no timeout has upset
\* the count, gets its permit (t2 stands for any of the threads: they are alike).
WaiterGetsAPermit ==
  [](who = "semaphore" => Sem!CountTellsWhoWaits) =>
    (who = "semaphore" /\ state2[t2] = "blocked" /\ ~timer2[t2]) ~> (who = "semaphore" /\ state2[t2] = "running")

\* A thread_join(), by the first thread or by another one, of a thread that has exited returns.
JoinOfTheDeadReturns ==
  \A c \in {t1, t2} :
    (who = "threads" /\ pc2[c] = Life!In("join", t3) /\ life[t3] = "death") ~> (who = "threads" /\ pc2[c] = Life!Idle)

\* With ticks, threads of one priority share the processor: a ready thread runs in the end (t1
\* stands for any of them).
ReadyThreadRuns ==
  (who = "sched" /\ state2[t1] = "ready") ~> (who = "sched" /\ state2[t1] # "ready")

\* Every transfer that has been given to the block device returns to its caller (t1 stands for
\* both).
TransferReturns ==
  (who = "block" /\ thr[t1].pc = "wait") ~> (who = "block" /\ thr[t1].pc = "out")
=============================================================================
