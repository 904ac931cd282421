------------------------------- MODULE Sched -------------------------------
(***************************************************************************)
(* The scheduler of kernel/thread.c with its wait queues, on one or more   *)
(* processors: the run queues, the choice of the next thread, quantum and  *)
(* preemption, sleeping, blocking and waking, pinned and real-time         *)
(* threads, and the reschedule interrupts of kernel/mp.c.                  *)
(*                                                                         *)
(* A step is one critical section of thread_lock, context switch included: *)
(* the lock is passed to the thread that is switched to, and what that     *)
(* thread does before it unlocks changes nothing modelled here.  The loop  *)
(* of wait_queue_wake_all() takes one step per thread with the lock held.  *)
(* Time is abstract: a pending timer may expire at any moment.             *)
(***************************************************************************)
EXTENDS Integers, Sequences, FiniteSets

CONSTANTS
  Thread,            \* the threads other than the idle threads
  CPU,               \* the processors; a processor also names its idle thread
  WaitQ,             \* the wait_queue_t objects
  AnyCPU,            \* pinned_cpu of a thread that is not pinned
  HIGHEST_PRIORITY, DEFAULT_PRIORITY,
  QUANTUM,           \* the quantum of a thread that used up its own (5 in the code)
  DYNAMIC_TIMER,     \* PLATFORM_HAS_DYNAMIC_TIMER
  CreateArgs,        \* the <<priority, pinned_cpu>> pairs given to thread_create()
  Priorities,        \* the arguments given to thread_set_priority()
  Calls              \* the calls that the threads of this instance make

IDLE_PRIORITY == 0
Prio == 0..HIGHEST_PRIORITY
NoCPU == "-1"
NotWaking == [cpu |-> NoCPU, queue |-> "NULL", reschedule |-> FALSE, mask |-> {}]

\* What the constants must be.
SchedAssumption ==
  /\ HIGHEST_PRIORITY \in Nat /\ DEFAULT_PRIORITY \in 1..HIGHEST_PRIORITY
  /\ QUANTUM \in Nat \ {0}
  /\ DYNAMIC_TIMER \in BOOLEAN
  /\ Thread \cap CPU = {} /\ AnyCPU \notin CPU /\ NoCPU \notin CPU
  /\ CreateArgs \subseteq Prio \X (CPU \cup {AnyCPU})
  /\ Priorities \subseteq Int

AllThread == Thread \cup CPU
idle_thread(c) == c

VARIABLES
  state, priority, pinned_cpu, real_time, remaining_quantum,  \* thread_t
  blocking_wait_queue, timer,  \* thread_t, and the timer on the stack of a waiting thread
  run_queue, run_queue_bitmap, \* the bitmap as the set of its bits
  list, wait_count,            \* wait_queue_t
  current,                     \* get_current_thread() of each processor
  active_cpus, idle_cpus, realtime_cpus,   \* struct mp_state
  ipi,                         \* processors with a reschedule interrupt on its way
  irq,                         \* what a processor's interrupt handling has come to
  preempt_timer,               \* is the processor's preemption timer in its queue?
  yielding,                    \* threads that are about to call thread_yield()
  waking,                      \* the wait_queue_wake_all() in progress, if any
  panicked                     \* timer_set() found its timer already queued

tvars == <<priority, pinned_cpu, real_time>>
wvars == <<blocking_wait_queue, timer, list, wait_count>>
cpuvars == <<remaining_quantum, current, idle_cpus, realtime_cpus, preempt_timer, panicked>>
vars == <<state, tvars, wvars, run_queue, run_queue_bitmap, cpuvars, active_cpus, ipi, irq, yielding, waking>>

-----------------------------------------------------------------------------
\* Helpers of the code.

\* list_delete() of the i-th node of a list.
list_delete(s, i) == [k \in 1..(Len(s) - 1) |-> IF k < i THEN s[k] ELSE s[k + 1]]

insert_in_run_queue_head(rq, p, t) == [rq EXCEPT ![p] = <<t>> \o @]

insert_in_run_queue_tail(rq, p, t) == [rq EXCEPT ![p] = Append(@, t)]

thread_is_idle(t) == t \in CPU

thread_is_realtime(t, pr) == t \in Thread /\ real_time[t] /\ pr[t] > DEFAULT_PRIORITY

thread_is_real_time_or_idle(t) == t \in CPU \/ real_time[t]

\* mp_reschedule(): the processors that a reschedule request of processor c reaches.
mp_reschedule(c, target) == (target \cap active_cpus) \ (realtime_cpus \cup {c})

\* The processors that may run t: MP_CPU_ALL_BUT_LOCAL, or the one it is pinned to.
PinMask(t) == IF pinned_cpu[t] = AnyCPU THEN CPU ELSE {pinned_cpu[t]}

wakeup_cpu_for_thread(c, t) == mp_reschedule(c, PinMask(t))

\* Fault: the pinning of the queued threads is not looked at.
RunnableAnywhere(c, s) == 1..Len(s)

\* The places of queue s that hold a thread processor c may run.
Runnable(c, s) == {i \in 1..Len(s) : pinned_cpu[s[i]] \in {AnyCPU, c}}

\* Fault: the queues are searched from the lowest priority up.
TopFromBelow(c, rq, bm, p, i) ==
  /\ p \in bm /\ i \in Runnable(c, rq[p])
  /\ \A r \in bm : r < p => Runnable(c, rq[r]) = {}
  /\ \A j \in Runnable(c, rq[p]) : i <= j

\* get_top_thread(): the i-th thread of queue p is the first of the highest queue, of
\* those whose bit is set, that holds a thread processor c may run.
get_top_thread(c, rq, bm, p, i) ==
  /\ p \in bm /\ i \in Runnable(c, rq[p])
  /\ \A r \in bm : r > p => Runnable(c, rq[r]) = {}
  /\ \A j \in Runnable(c, rq[p]) : i <= j

\* Fault: the preemption timer keeps running under a real-time or idle thread.
SwitchKeepsTimer(c, new, st, q, pr) ==
  /\ state' = [st EXCEPT ![new] = "running"]
  /\ current' = [current EXCEPT ![c] = new]
  /\ remaining_quantum' = IF new \in Thread /\ q[new] <= 0 THEN [q EXCEPT ![new] = QUANTUM] ELSE q
  /\ idle_cpus' = IF thread_is_idle(new) THEN idle_cpus \cup {c} ELSE idle_cpus \ {c}
  /\ realtime_cpus' = IF thread_is_realtime(new, pr) THEN realtime_cpus \cup {c} ELSE realtime_cpus \ {c}
  /\ preempt_timer' = [preempt_timer EXCEPT ![c] = @ \/ ~thread_is_real_time_or_idle(new)]
  /\ UNCHANGED panicked

\* thread_resched() once the next thread is known.  When it is the one that runs
\* already, neither its quantum nor the processor masks are brought up to date.
switch_to(c, new, st, q, pr) ==
  LET old    == current[c]
      starts == ~thread_is_real_time_or_idle(new) /\ thread_is_real_time_or_idle(old)
      stops  == thread_is_real_time_or_idle(new) /\ ~thread_is_real_time_or_idle(old)
  IN  /\ state' = [st EXCEPT ![new] = "running"]
      /\ IF new = old
         THEN /\ remaining_quantum' = q
              /\ UNCHANGED <<current, idle_cpus, realtime_cpus, preempt_timer, panicked>>
         ELSE /\ current' = [current EXCEPT ![c] = new]
              /\ remaining_quantum' =
                   IF new \in Thread /\ q[new] <= 0 THEN [q EXCEPT ![new] = QUANTUM] ELSE q
              /\ idle_cpus' = IF thread_is_idle(new) THEN idle_cpus \cup {c} ELSE idle_cpus \ {c}
              /\ realtime_cpus' = IF thread_is_realtime(new, pr) THEN realtime_cpus \cup {c}
                                                                 ELSE realtime_cpus \ {c}
              /\ preempt_timer' = IF DYNAMIC_TIMER /\ (starts \/ stops)
                                  THEN [preempt_timer EXCEPT ![c] = starts] ELSE preempt_timer
              /\ panicked' = (DYNAMIC_TIMER /\ starts /\ preempt_timer[c])

\* Fault: the bit of a queue is cleared whenever a thread is taken from it.
ReschedClearsBit(c, st, q, pr, rq, bm) ==
  \/ \E p \in bm : \E i \in Runnable(c, rq[p]) :
        /\ get_top_thread(c, rq, bm, p, i)
        /\ run_queue' = [rq EXCEPT ![p] = list_delete(@, i)]
        /\ run_queue_bitmap' = bm \ {p}
        /\ switch_to(c, rq[p][i], st, q, pr)
  \/ /\ \A p \in bm : Runnable(c, rq[p]) = {}
     /\ run_queue' = rq /\ run_queue_bitmap' = bm
     /\ switch_to(c, idle_thread(c), st, q, pr)

\* thread_resched() on processor c, its current thread having been put where it is to
\* wait: the thread states, quanta, priorities, run queues and bitmap are those given.
thread_resched(c, st, q, pr, rq, bm) ==
  \/ \E p \in bm : \E i \in Runnable(c, rq[p]) :
        /\ get_top_thread(c, rq, bm, p, i)
        /\ run_queue' = [rq EXCEPT ![p] = list_delete(@, i)]
        /\ run_queue_bitmap' = IF Len(rq[p]) = 1 THEN bm \ {p} ELSE bm
        /\ switch_to(c, rq[p][i], st, q, pr)
  \/ /\ \A p \in bm : Runnable(c, rq[p]) = {}
     /\ run_queue' = rq /\ run_queue_bitmap' = bm
     /\ switch_to(c, idle_thread(c), st, q, pr)

-----------------------------------------------------------------------------
Init ==   \* after thread_init_early() on every processor, none of them scheduling yet
  /\ state = [t \in AllThread |-> IF t \in CPU THEN "running" ELSE "none"]
  /\ priority = [t \in Thread |-> IDLE_PRIORITY]
  /\ pinned_cpu = [t \in Thread |-> AnyCPU]
  /\ real_time = [t \in Thread |-> FALSE]
  /\ remaining_quantum = [t \in Thread |-> 0]
  /\ blocking_wait_queue = [t \in Thread |-> "NULL"]
  /\ timer = [t \in Thread |-> NoCPU]
  /\ run_queue = [p \in Prio |-> <<>>] /\ run_queue_bitmap = {}
  /\ list = [w \in WaitQ |-> <<>>] /\ wait_count = [w \in WaitQ |-> 0]
  /\ current = [c \in CPU |-> idle_thread(c)]
  /\ active_cpus = {} /\ idle_cpus = {} /\ realtime_cpus = {}
  /\ ipi = {} /\ irq = [c \in CPU |-> "none"]
  /\ preempt_timer = [c \in CPU |-> FALSE]
  /\ yielding = {}
  /\ waking = NotWaking
  /\ panicked = FALSE

\* Nobody is in the middle of wait_queue_wake_all() with thread_lock held.
LockFree == waking.cpu = NoCPU /\ ~panicked

\* Processor c runs thread code that may make the given call.
Running(c, call) ==
  /\ LockFree /\ call \in Calls
  /\ irq[c] = "none" /\ current[c] \in Thread /\ current[c] \notin yielding

\* Boot code on a processor that does not schedule yet runs with interrupts off and may
\* create and resume threads (lk_main, lk_secondary_cpu_entry).
Booting(c) == LockFree /\ c \notin active_cpus

\* Processor c takes an interrupt.
Interruptible(c) == c \in active_cpus /\ irq[c] = "none"

thread_create(c, t, p, pin) ==
  /\ Running(c, "create") \/ Booting(c)
  /\ state[t] = "none"
  /\ state' = [state EXCEPT ![t] = "suspended"]
  /\ priority' = [priority EXCEPT ![t] = p]
  /\ pinned_cpu' = [pinned_cpu EXCEPT ![t] = pin]
  /\ UNCHANGED <<real_time, wvars, run_queue, run_queue_bitmap, cpuvars, active_cpus, ipi, irq, yielding, waking>>

\* The preemption timer is stopped only when the caller flags itself.  In-tree callers
\* flag themselves or a thread not yet resumed; "set_real_time_any" is any other thread.
thread_set_real_time(c, t) ==
  /\ \/ Running(c, "set_real_time") /\ (t = current[c] \/ state[t] = "suspended")
     \/ Running(c, "set_real_time_any")
  /\ state[t] \notin {"none", "death"}
  /\ preempt_timer' = IF t = current[c] /\ DYNAMIC_TIMER THEN [preempt_timer EXCEPT ![c] = FALSE] ELSE preempt_timer
  /\ real_time' = [real_time EXCEPT ![t] = TRUE]
  /\ UNCHANGED <<state, priority, pinned_cpu, wvars, run_queue, run_queue_bitmap, remaining_quantum, current,
                 active_cpus, idle_cpus, realtime_cpus, panicked, ipi, irq, yielding, waking>>

\* thread_resume(): a caller with interrupts enabled goes on to thread_yield().
thread_resume(c, t) ==
  /\ Running(c, "resume") \/ Booting(c)
  /\ state[t] \notin {"none", "death"}
  /\ IF state[t] = "suspended"
     THEN /\ state' = [state EXCEPT ![t] = "ready"]
          /\ run_queue' = insert_in_run_queue_head(run_queue, priority[t], t)
          /\ run_queue_bitmap' = run_queue_bitmap \cup {priority[t]}
          /\ yielding' = IF Booting(c) THEN yielding ELSE yielding \cup {current[c]}
     ELSE UNCHANGED <<state, run_queue, run_queue_bitmap, yielding>>
  /\ ipi' = ipi \cup wakeup_cpu_for_thread(c, t)
  /\ UNCHANGED <<tvars, wvars, cpuvars, active_cpus, irq, waking>>

\* The current thread of c is made ready, put back at the head or the tail of its queue
\* unless it is the idle thread, and the processor reschedules with the quanta q.
PutBack(c, q, head) ==
  LET t == current[c]
      st == [state EXCEPT ![t] = "ready"]
      rq == IF head THEN insert_in_run_queue_head(run_queue, priority[t], t)
                    ELSE insert_in_run_queue_tail(run_queue, priority[t], t)
  IN  IF thread_is_idle(t)
      THEN thread_resched(c, st, q, priority, run_queue, run_queue_bitmap)
      ELSE thread_resched(c, st, q, priority, rq, run_queue_bitmap \cup {priority[t]})

thread_yield(c) ==
  LET t == current[c] IN
  /\ LockFree /\ irq[c] = "none"
  /\ t \in yielding \/ Running(c, "yield")
  /\ PutBack(c, IF t \in Thread THEN [remaining_quantum EXCEPT ![t] = 0] ELSE remaining_quantum, FALSE)
  /\ yielding' = yielding \ {t}
  /\ UNCHANGED <<tvars, wvars, active_cpus, ipi, irq, waking>>

\* Fault: a thread goes back to the head of its queue even when its quantum is used up.
PreemptToHead(c) ==
  /\ LockFree
  /\ irq[c] \in {"timer", "resched"} \/ Running(c, "preempt")
  /\ PutBack(c, remaining_quantum, TRUE)
  /\ irq' = [irq EXCEPT ![c] = "none"]
  /\ UNCHANGED <<tvars, wvars, active_cpus, ipi, yielding, waking>>

\* Fault: the preempted thread is forgotten.
PreemptForgets(c) ==
  /\ LockFree
  /\ irq[c] \in {"timer", "resched"} \/ Running(c, "preempt")
  /\ thread_resched(c, [state EXCEPT ![current[c]] = "ready"], remaining_quantum, priority, run_queue, run_queue_bitmap)
  /\ irq' = [irq EXCEPT ![c] = "none"]
  /\ UNCHANGED <<tvars, wvars, active_cpus, ipi, yielding, waking>>

\* thread_preempt(): on the way out of an interrupt, or called (cbuf_write).
thread_preempt(c) ==
  /\ LockFree
  /\ irq[c] \in {"timer", "resched"} \/ Running(c, "preempt")
  /\ \/ /\ current[c] \in Thread => remaining_quantum[current[c]] > 0
        /\ PutBack(c, remaining_quantum, TRUE)
     \/ /\ current[c] \in Thread /\ remaining_quantum[current[c]] <= 0
        /\ PutBack(c, remaining_quantum, FALSE)
  /\ irq' = [irq EXCEPT ![c] = "none"]
  /\ UNCHANGED <<tvars, wvars, active_cpus, ipi, yielding, waking>>

thread_set_priority(c, arg) ==
  LET t == current[c]
      p == IF arg <= IDLE_PRIORITY THEN IDLE_PRIORITY + 1
           ELSE IF arg > HIGHEST_PRIORITY THEN HIGHEST_PRIORITY ELSE arg
      pr == [priority EXCEPT ![t] = p]
  IN
  /\ Running(c, "set_priority")
  /\ priority' = pr
  /\ thread_resched(c, [state EXCEPT ![t] = "ready"], remaining_quantum, pr,
                    insert_in_run_queue_head(run_queue, p, t), run_queue_bitmap \cup {p})
  /\ UNCHANGED <<pinned_cpu, real_time, wvars, active_cpus, ipi, irq, yielding, waking>>

thread_sleep(c) ==
  LET t == current[c] IN
  /\ Running(c, "sleep")
  /\ timer' = [timer EXCEPT ![t] = c]
  /\ thread_resched(c, [state EXCEPT ![t] = "sleeping"], remaining_quantum, priority, run_queue, run_queue_bitmap)
  /\ UNCHANGED <<tvars, blocking_wait_queue, list, wait_count, active_cpus, ipi, irq, yielding, waking>>

thread_exit(c) ==
  /\ Running(c, "exit")
  /\ thread_resched(c, [state EXCEPT ![current[c]] = "death"], remaining_quantum, priority, run_queue, run_queue_bitmap)
  /\ UNCHANGED <<tvars, wvars, active_cpus, ipi, irq, yielding, waking>>

\* Fault: the blocked thread is not counted.
BlockUncounted(c, w, finite) ==
  LET t == current[c] IN
  /\ Running(c, IF finite THEN "timed_wait" ELSE "wait")
  /\ list' = [list EXCEPT ![w] = Append(@, t)]
  /\ blocking_wait_queue' = [blocking_wait_queue EXCEPT ![t] = w]
  /\ timer' = IF finite THEN [timer EXCEPT ![t] = c] ELSE timer
  /\ thread_resched(c, [state EXCEPT ![t] = "blocked"], remaining_quantum, priority, run_queue, run_queue_bitmap)
  /\ UNCHANGED <<tvars, wait_count, active_cpus, ipi, irq, yielding, waking>>

\* wait_queue_block() with a timeout that is not zero.
wait_queue_block(c, w, finite) ==
  LET t == current[c] IN
  /\ Running(c, IF finite THEN "timed_wait" ELSE "wait")
  /\ list' = [list EXCEPT ![w] = Append(@, t)]
  /\ wait_count' = [wait_count EXCEPT ![w] = @ + 1]
  /\ blocking_wait_queue' = [blocking_wait_queue EXCEPT ![t] = w]
  /\ timer' = IF finite THEN [timer EXCEPT ![t] = c] ELSE timer
  /\ thread_resched(c, [state EXCEPT ![t] = "blocked"], remaining_quantum, priority, run_queue, run_queue_bitmap)
  /\ UNCHANGED <<tvars, active_cpus, ipi, irq, yielding, waking>>

\* A waking call on c comes from a thread, or from an interrupt handler, which does not
\* ask for a reschedule but returns INT_RESCHEDULE, as the drivers' handlers do.
WakeCaller(c, reschedule) ==
  \/ Running(c, "wake") /\ UNCHANGED irq
  \/ /\ LockFree /\ "irq_wake" \in Calls /\ Interruptible(c) /\ ~reschedule
     /\ irq' = [irq EXCEPT ![c] = "resched"]

\* What waking blocked or sleeping thread t does to its own fields.  The timeout timer
\* of a woken thread is cancelled when it runs; until then it finds the thread not blocked.
WakeFields(t) ==
  /\ blocking_wait_queue' = [blocking_wait_queue EXCEPT ![t] = "NULL"]
  /\ timer' = [timer EXCEPT ![t] = NoCPU]

\* Fault: no other processor is told about the woken thread.
WakeOneQuietly(c, w, reschedule) ==
  LET t == Head(list[w])
      st == [state EXCEPT ![t] = "ready"]
  IN
  /\ WakeCaller(c, reschedule) /\ list[w] # <<>> /\ ~reschedule
  /\ list' = [list EXCEPT ![w] = Tail(@)]
  /\ wait_count' = [wait_count EXCEPT ![w] = @ - 1]
  /\ WakeFields(t)
  /\ state' = st
  /\ run_queue' = insert_in_run_queue_head(run_queue, priority[t], t)
  /\ run_queue_bitmap' = run_queue_bitmap \cup {priority[t]}
  /\ UNCHANGED <<cpuvars, ipi, tvars, active_cpus, yielding, waking>>

\* wait_queue_wake_one() on a queue that is not empty.  With reschedule the caller goes
\* to the head of its run queue first, so that the woken thread comes before it.
wait_queue_wake_one(c, w, reschedule) ==
  LET t   == Head(list[w])
      cur == current[c]
      rq  == IF reschedule THEN insert_in_run_queue_head(run_queue, priority[cur], cur) ELSE run_queue
      rq2 == insert_in_run_queue_head(rq, priority[t], t)
      bm2 == run_queue_bitmap \cup {priority[t]} \cup (IF reschedule THEN {priority[cur]} ELSE {})
      st  == [state EXCEPT ![t] = "ready"]
  IN
  /\ WakeCaller(c, reschedule) /\ list[w] # <<>>
  /\ list' = [list EXCEPT ![w] = Tail(@)]
  /\ wait_count' = [wait_count EXCEPT ![w] = @ - 1]
  /\ WakeFields(t)
  /\ ipi' = ipi \cup wakeup_cpu_for_thread(c, t)
  /\ IF reschedule
     THEN thread_resched(c, [st EXCEPT ![cur] = "ready"], remaining_quantum, priority, rq2, bm2)
     ELSE state' = st /\ run_queue' = rq2 /\ run_queue_bitmap' = bm2 /\ UNCHANGED cpuvars
  /\ UNCHANGED <<tvars, active_cpus, yielding, waking>>

\* wait_queue_wake_all() on a queue that is not empty: the caller is put back first if it
\* is to reschedule, ...
wait_queue_wake_all(c, w, reschedule) ==
  LET cur == current[c] IN
  /\ WakeCaller(c, reschedule) /\ list[w] # <<>>
  /\ waking' = [cpu |-> c, queue |-> w, reschedule |-> reschedule, mask |-> {}]
  /\ IF reschedule /\ wait_count[w] > 0
     THEN /\ state' = [state EXCEPT ![cur] = "ready"]
          /\ run_queue' = insert_in_run_queue_head(run_queue, priority[cur], cur)
          /\ run_queue_bitmap' = run_queue_bitmap \cup {priority[cur]}
     ELSE UNCHANGED <<state, run_queue, run_queue_bitmap>>
  /\ UNCHANGED <<tvars, wvars, cpuvars, active_cpus, ipi, yielding>>

\* ... then the queue is emptied from its head ...
wake_all_pop ==
  LET w == waking.queue
      t == Head(list[w])
  IN
  /\ waking.cpu # NoCPU /\ list[w] # <<>>
  /\ list' = [list EXCEPT ![w] = Tail(@)]
  /\ wait_count' = [wait_count EXCEPT ![w] = @ - 1]
  /\ WakeFields(t)
  /\ state' = [state EXCEPT ![t] = "ready"]
  /\ run_queue' = insert_in_run_queue_head(run_queue, priority[t], t)
  /\ run_queue_bitmap' = run_queue_bitmap \cup {priority[t]}
  /\ waking' = [waking EXCEPT !.mask = @ \cup PinMask(t)]
  /\ UNCHANGED <<tvars, cpuvars, active_cpus, ipi, irq, yielding>>

\* ... and the processors of the woken threads are told, this one last.
wake_all_done ==
  LET c == waking.cpu IN
  /\ waking.cpu # NoCPU /\ list[waking.queue] = <<>>
  /\ waking' = NotWaking
  /\ ipi' = ipi \cup mp_reschedule(c, waking.mask)
  /\ IF waking.mask # {} /\ waking.reschedule
     THEN thread_resched(c, state, remaining_quantum, priority, run_queue, run_queue_bitmap)
     ELSE UNCHANGED <<state, run_queue, run_queue_bitmap, cpuvars>>
  /\ UNCHANGED <<tvars, wvars, active_cpus, irq, yielding>>

\* timer_tick() on c calls the callbacks of the timers that have expired.
InTimerTick(c) == LockFree /\ c \in active_cpus /\ irq[c] \in {"none", "timer"}

\* thread_sleep_handler(), which tells no other processor.
thread_sleep_handler(c, t) ==
  /\ InTimerTick(c) /\ timer[t] = c /\ state[t] = "sleeping"
  /\ timer' = [timer EXCEPT ![t] = NoCPU]
  /\ state' = [state EXCEPT ![t] = "ready"]
  /\ run_queue' = insert_in_run_queue_head(run_queue, priority[t], t)
  /\ run_queue_bitmap' = run_queue_bitmap \cup {priority[t]}
  /\ irq' = [irq EXCEPT ![c] = "timer"]
  /\ UNCHANGED <<tvars, blocking_wait_queue, list, wait_count, cpuvars, active_cpus, ipi, yielding, waking>>

\* wait_queue_timeout_handler() and thread_unblock_from_wait_queue().
wait_queue_timeout_handler(c, t) ==
  LET w == blocking_wait_queue[t] IN
  /\ InTimerTick(c) /\ timer[t] = c /\ state[t] = "blocked"
  /\ \E i \in 1..Len(list[w]) : list[w][i] = t /\ list' = [list EXCEPT ![w] = list_delete(@, i)]
  /\ wait_count' = [wait_count EXCEPT ![w] = @ - 1]
  /\ WakeFields(t)
  /\ state' = [state EXCEPT ![t] = "ready"]
  /\ run_queue' = insert_in_run_queue_head(run_queue, priority[t], t)
  /\ run_queue_bitmap' = run_queue_bitmap \cup {priority[t]}
  /\ ipi' = ipi \cup wakeup_cpu_for_thread(c, t)
  /\ irq' = [irq EXCEPT ![c] = "timer"]
  /\ UNCHANGED <<tvars, cpuvars, active_cpus, yielding, waking>>

\* The waking processor has its interrupts off; the others need no lock to take one.
IrqsOn(c) == ~panicked /\ (waking.cpu # NoCPU => waking.cpu # c)

\* The preemption tick.  The quantum is changed without thread_lock.  Below zero it
\* counts on in the code; all values <= 0 are treated alike there and are 0 here.
thread_timer_tick(c) ==
  LET t == current[c] IN
  /\ IrqsOn(c)
  /\ c \in active_cpus /\ irq[c] \in {"none", "timer"}
  /\ DYNAMIC_TIMER => preempt_timer[c]
  /\ ~thread_is_real_time_or_idle(t)
  /\ remaining_quantum' = [remaining_quantum EXCEPT ![t] = IF @ > 0 THEN @ - 1 ELSE 0]
  /\ irq' = IF remaining_quantum[t] <= 1 THEN [irq EXCEPT ![c] = "timer"] ELSE irq
  /\ UNCHANGED <<state, tvars, wvars, run_queue, run_queue_bitmap, current, active_cpus, idle_cpus, realtime_cpus,
                 preempt_timer, panicked, ipi, yielding, waking>>

\* mp_mbx_reschedule_irq()
mp_mbx_reschedule_irq(c) ==
  /\ IrqsOn(c)
  /\ c \in ipi /\ Interruptible(c)
  /\ ipi' = ipi \ {c}
  /\ irq' = [irq EXCEPT ![c] = "resched"]
  /\ UNCHANGED <<state, tvars, wvars, run_queue, run_queue_bitmap, cpuvars, active_cpus, yielding, waking>>

\* thread_become_idle() and thread_secondary_cpu_entry(): c starts to schedule.
thread_become_idle(c) ==
  /\ Booting(c)
  /\ active_cpus' = active_cpus \cup {c}
  /\ idle_cpus' = idle_cpus \cup {c}
  /\ yielding' = yielding \cup {idle_thread(c)}
  /\ UNCHANGED <<state, tvars, wvars, run_queue, run_queue_bitmap, remaining_quantum, current, realtime_cpus,
                 preempt_timer, panicked, ipi, irq, waking>>

ThreadCall(c) ==
  \/ \E t \in Thread : \/ \E a \in CreateArgs : thread_create(c, t, a[1], a[2])
                       \/ thread_set_real_time(c, t)
                       \/ thread_resume(c, t)
  \/ \E p \in Priorities : thread_set_priority(c, p)
  \/ \E w \in WaitQ, b \in BOOLEAN : \/ wait_queue_block(c, w, b)
                                     \/ wait_queue_wake_one(c, w, b)
                                     \/ wait_queue_wake_all(c, w, b)
  \/ thread_sleep(c) \/ thread_exit(c)

TimerCallback(c) ==
  \E t \in Thread : thread_sleep_handler(c, t) \/ wait_queue_timeout_handler(c, t)

Next ==
  \/ \E c \in CPU : \/ ThreadCall(c) \/ thread_yield(c) \/ thread_preempt(c)
                    \/ TimerCallback(c) \/ thread_timer_tick(c) \/ mp_mbx_reschedule_irq(c)
                    \/ thread_become_idle(c)
  \/ wake_all_pop \/ wake_all_done

Spec == Init /\ [][Next]_vars

\* A processor goes on after an interrupt and with a call it has begun, interrupts and
\* ticks arrive, and boot ends.  No thread is obliged to make any call.
Fairness ==
  /\ \A c \in CPU : /\ WF_vars(thread_become_idle(c))
                    /\ WF_vars(current[c] \in yielding /\ thread_yield(c))
                    /\ WF_vars(irq[c] # "none" /\ thread_preempt(c))
                    /\ WF_vars(mp_mbx_reschedule_irq(c))
                    /\ SF_vars(thread_timer_tick(c))
  /\ WF_vars(wake_all_pop) /\ WF_vars(wake_all_done)

LiveSpec == Spec /\ Fairness
-----------------------------------------------------------------------------
ThreadState == {"none", "suspended", "ready", "running", "blocked", "sleeping", "death"}

TypeOK ==
  /\ state \in [AllThread -> ThreadState]
  /\ priority \in [Thread -> Prio]
  /\ pinned_cpu \in [Thread -> CPU \cup {AnyCPU}]
  /\ real_time \in [Thread -> BOOLEAN]
  /\ remaining_quantum \in [Thread -> 0..QUANTUM]
  /\ blocking_wait_queue \in [Thread -> WaitQ \cup {"NULL"}]
  /\ timer \in [Thread -> CPU \cup {NoCPU}]
  /\ run_queue \in [Prio -> Seq(Thread)]
  /\ run_queue_bitmap \subseteq Prio
  /\ list \in [WaitQ -> Seq(Thread)]
  /\ wait_count \in [WaitQ -> Nat]
  /\ current \in [CPU -> AllThread]
  /\ active_cpus \subseteq CPU /\ idle_cpus \subseteq CPU /\ realtime_cpus \subseteq CPU /\ ipi \subseteq CPU
  /\ irq \in [CPU -> {"none", "timer", "resched"}]
  /\ preempt_timer \in [CPU -> BOOLEAN]
  /\ yielding \subseteq AllThread
  /\ waking \in {NotWaking} \cup [cpu : CPU, queue : WaitQ, reschedule : BOOLEAN, mask : SUBSET CPU]
  /\ panicked \in BOOLEAN

\* Is t put back in a run queue while it still is current, in wait_queue_wake_all()?
PutBackEarly(t) == waking.cpu # NoCPU /\ waking.reschedule /\ current[waking.cpu] = t

\* Every thread is where its state says and nowhere else: a running thread is current on
\* exactly one processor, a ready one is queued once at its own priority, a blocked one
\* is once on the wait queue it names.  These are the assertions of the queue helpers,
\* thread_resched() and thread_unblock_from_wait_queue(), for all threads at once.
PlacedByState ==
  /\ \A c, d \in CPU : current[c] = current[d] => c = d
  /\ \A c \in CPU : state[current[c]] = "running" \/ PutBackEarly(current[c])
  /\ \A c \in CPU : current[c] \in Thread \cup {idle_thread(c)}
  /\ \A t \in AllThread : state[t] = "running" => \E c \in CPU : current[c] = t
  /\ \A p \in Prio : \A i \in 1..Len(run_queue[p]) :
        state[run_queue[p][i]] = "ready" /\ priority[run_queue[p][i]] = p
  /\ \A p \in Prio : \A i, j \in 1..Len(run_queue[p]) : run_queue[p][i] = run_queue[p][j] => i = j
  /\ \A t \in Thread : state[t] = "ready" => \E i \in 1..Len(run_queue[priority[t]]) : run_queue[priority[t]][i] = t
  /\ \A w \in WaitQ : \A i \in 1..Len(list[w]) : state[list[w][i]] = "blocked" /\ blocking_wait_queue[list[w][i]] = w
  /\ \A w \in WaitQ : \A i, j \in 1..Len(list[w]) : list[w][i] = list[w][j] => i = j
  /\ \A t \in Thread : state[t] = "blocked" =>
        blocking_wait_queue[t] \in WaitQ /\ \E i \in 1..Len(list[blocking_wait_queue[t]]) : list[blocking_wait_queue[t]][i] = t

\* The redundant copies agree with the lists: a bit of run_queue_bitmap is set exactly
\* when the queue holds a thread, and wait->count is the length of the wait queue.
CountsAgree ==
  /\ run_queue_bitmap = {p \in Prio : run_queue[p] # <<>>}
  /\ \A w \in WaitQ : wait_count[w] = Len(list[w])

\* Whoever switches takes a thread of the highest priority there is for it: nothing it
\* may run and that is left ready goes before the thread it took.
SwitchToHighest ==
  \A c \in CPU : current'[c] # current[c] =>
    \A t \in Thread : state'[t] = "ready" /\ pinned_cpu[t] \in {AnyCPU, c} =>
       current'[c] \in Thread /\ priority'[t] <= priority'[current'[c]]

\* No switch of any processor passes over a thread of a higher priority.
TakesTheHighest == [][SwitchToHighest]_vars

\* A pinned thread runs only where it is pinned.
PinnedStaysPut ==
  \A c \in CPU : current[c] \in Thread => pinned_cpu[current[c]] \in {AnyCPU, c}

\* Every thread is in the place its state says, and the copies of that knowledge, the bitmap and
\* the counts of the queues and the pinning, agree.
EveryThreadInItsPlace == PlacedByState /\ CountsAgree /\ PinnedStaysPut

\* The preemption timer of a scheduling processor runs exactly under the threads that
\* are to be preempted, so it is never started twice (timer_set() would panic).
PreemptTimerFollowsThread ==
  /\ ~panicked
  /\ DYNAMIC_TIMER => \A c \in CPU : preempt_timer[c] <=> ~thread_is_real_time_or_idle(current[c])

\* timer_set() panics with "timer already in list"; thread_resched() never gets there.
NeverPanics == ~panicked

\* realtime_cpus holds only processors "that are currently running realtime code": the
\* others must keep getting reschedule interrupts (mp_reschedule).
RealtimeMaskIsCurrent ==
  \A c \in CPU : c \in realtime_cpus => thread_is_realtime(current[c], priority)

\* No wake-up is lost between processors: as long as a processor idles, a thread that is
\* ready and may run there has a reschedule interrupt on its way to it, or the processor
\* is already about to reschedule.
NoIdleWhileReady ==
  waking.cpu = NoCPU =>
  \A c \in active_cpus : \A t \in Thread :
     current[c] = idle_thread(c) /\ state[t] = "ready" /\ pinned_cpu[t] \in {AnyCPU, c} =>
        c \in ipi \/ irq[c] # "none" \/ idle_thread(c) \in yielding

\* With ticks, threads of one priority share the processor: a ready thread runs, or
\* another is ready or running above it, or it was put elsewhere.
ReadyThreadRuns ==
  \A t \in Thread : state[t] = "ready" ~> state[t] # "ready"
=============================================================================
