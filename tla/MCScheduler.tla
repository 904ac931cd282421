---------------------------- MODULE MCScheduler -----------------------------
(***************************************************************************)
(* Two threads of two priorities on two processors, for TLC: threads that  *)
(* block and wake each other; and threads that may be pinned and real-time *)
(* and that yield, sleep and change their priority. "who" says which of    *)
(* the two a behaviour is about: the threads of the first are not created  *)
(* in the behaviours of the second, and the variables of the second stay 0 *)
(* in those of the first.                                                  *)
(***************************************************************************)
EXTENDS Sched, TLC

CONSTANTS q1, q2, c1, c2   \* model values

VARIABLES who,  \* the component that runs
          state2, priority2, pinned_cpu2, real_time2, remaining_quantum2, blocking_wait_queue2,
          timer2, run_queue2, run_queue_bitmap2, list2, wait_count2, current2, active_cpus2,
          idle_cpus2, realtime_cpus2, ipi2, irq2, preempt_timer2, yielding2, waking2, panicked2

\* Threads that may run on any processor, of both priorities.
Unpinned == {<<1, AnyCPU>>, <<2, AnyCPU>>}

Pinned == INSTANCE Sched WITH
  Thread <- {q1, q2}, CreateArgs <- Unpinned \cup {<<1, c1>>, <<2, c2>>}, Priorities <- {1, 2},
  Calls <- {"yield", "preempt", "sleep", "set_priority", "set_real_time"}, state <- state2,
  priority <- priority2, pinned_cpu <- pinned_cpu2, real_time <- real_time2,
  remaining_quantum <- remaining_quantum2, blocking_wait_queue <- blocking_wait_queue2,
  timer <- timer2, run_queue <- run_queue2, run_queue_bitmap <- run_queue_bitmap2,
  list <- list2, wait_count <- wait_count2, current <- current2, active_cpus <- active_cpus2,
  idle_cpus <- idle_cpus2, realtime_cpus <- realtime_cpus2, ipi <- ipi2, irq <- irq2,
  preempt_timer <- preempt_timer2, yielding <- yielding2, waking <- waking2,
  panicked <- panicked2

ASSUME SchedAssumption /\ Pinned!SchedAssumption

\* What each component leaves alone.
NotSched ==
  <<who, state2, priority2, pinned_cpu2, real_time2, remaining_quantum2, blocking_wait_queue2,
  timer2, run_queue2, run_queue_bitmap2, list2, wait_count2, current2, active_cpus2, idle_cpus2,
  realtime_cpus2, ipi2, irq2, preempt_timer2, yielding2, waking2, panicked2>>
NotPinned == <<who, vars>>

SumInit ==
  \/ /\ who = "waits" /\ Init
     /\ state2 = 0 /\ priority2 = 0 /\ pinned_cpu2 = 0 /\ real_time2 = 0
     /\ remaining_quantum2 = 0 /\ blocking_wait_queue2 = 0 /\ timer2 = 0 /\ run_queue2 = 0
     /\ run_queue_bitmap2 = 0 /\ list2 = 0 /\ wait_count2 = 0 /\ current2 = 0
     /\ active_cpus2 = 0 /\ idle_cpus2 = 0 /\ realtime_cpus2 = 0 /\ ipi2 = 0 /\ irq2 = 0
     /\ preempt_timer2 = 0 /\ yielding2 = 0 /\ waking2 = 0 /\ panicked2 = 0
  \/ /\ who = "pinned" /\ Pinned!Init /\ Init

SumNext ==
  \/ who = "waits" /\ Next /\ UNCHANGED NotSched
  \/ who = "pinned" /\ Pinned!Next /\ UNCHANGED NotPinned

sumvars ==
  <<who, vars, state2, priority2, pinned_cpu2, real_time2, remaining_quantum2,
  blocking_wait_queue2, timer2, run_queue2, run_queue_bitmap2, list2, wait_count2, current2,
  active_cpus2, idle_cpus2, realtime_cpus2, ipi2, irq2, preempt_timer2, yielding2, waking2,
  panicked2>>

SumSpec == SumInit /\ [][SumNext]_sumvars
-----------------------------------------------------------------------------
\* The threads are interchangeable.
Symmetry == Permutations(Thread) \cup Permutations({q1, q2})

\* What the scheduler promises of threads that wait it also promises of pinned and real-time threads
\* that yield, sleep and change their priority: each is in one place and runs only where it is
\* pinned, a processor that switches takes the highest priority that may run there, and its
\* preemption timer follows the thread it runs.
PinnedAreScheduled ==
  /\ [](who = "pinned" => Pinned!EveryThreadInItsPlace /\ Pinned!PreemptTimerFollowsThread)
  /\ [][who = "pinned" => Pinned!SwitchToHighest]_sumvars
=============================================================================
