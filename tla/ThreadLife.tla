---------------------------- MODULE ThreadLife ----------------------------
(***************************************************************************)
(* The life of the threads of kernel/thread.c: created, resumed, exited,   *)
(* and then joined, or detached before or after that, until the memory of  *)
(* the thread_t and its stack is freed and may become another thread.      *)
(*                                                                         *)
(* Each thread's retcode_wait_queue is a wait queue of module WaitQueue    *)
(* and is named by its thread.  The scheduler is left to module Sched: a   *)
(* thread that is alive and not waiting may take a step at any time.       *)
(***************************************************************************)
EXTENDS WaitQueue

CONSTANTS Main,      \* the bootstrap thread, which never exits
          Timeouts,  \* the timeouts passed to thread_join(): zero, finite, infinite
          Shared,    \* may a thread's creator give the pointer to other threads?
          SMP        \* is there another processor to run in the middle of thread_exit()?

\* What the constants must be.
ThreadLifeAssumption ==
  /\ Queue = Thread
  /\ Main \in Thread
  /\ Timeouts \subseteq {"zero", "finite", "infinite"}
  /\ Shared \in BOOLEAN
  /\ SMP \in BOOLEAN

VARIABLES life,         \* "none", or t->state: "suspended", "alive" (ready, running or blocked), "death"
          detached,     \* THREAD_FLAG_DETACHED
          magic,        \* t->magic = THREAD_MAGIC
          thread_list,  \* the master thread list
          memory,       \* the blocks of the thread_t and its stack: "free", "held", or "delayed"
          handle,       \* the threads that may pass the pointer t to the operations below
          pc            \* the operation a thread is in the middle of, and on which thread

lvars == <<life, detached, magic, thread_list, memory, handle, pc>>
vars == <<wqvars, lvars>>

Op == {"none", "join", "free", "detach_join", "exit"}
In(op, t) == [op |-> op, of |-> t]
Idle == In("none", Main)

Init ==
  /\ wait_queue_init
  /\ life = [t \in Thread |-> IF t = Main THEN "alive" ELSE "none"]
  /\ detached = [t \in Thread |-> FALSE]
  /\ magic = [t \in Thread |-> t = Main]
  /\ thread_list = {Main}
  /\ memory = [t \in Thread |-> IF t = Main THEN "held" ELSE "free"]
  /\ handle = [t \in Thread |-> {}]
  /\ pc = [t \in Thread |-> Idle]

\* thread_lock is free: no thread is between its THREAD_LOCK in thread_exit() and the
\* switch to another thread.  Every other critical section is one step.
LockFree == \A t \in Thread : pc[t].op # "exit"

\* Thread c executes code of its own.
Runs(c) == life[c] = "alive" /\ state[c] = "running" /\ pc[c] = Idle

\* The caller has no more use for its pointer to t.
Drop(c, t) == handle' = [handle EXCEPT ![t] = @ \ {c}]

\* malloc() and its siblings first free what is on the delayed free list, under a lock
\* of the heap's own: the memory and life of the threads afterwards.
delayed_freed_memory == [t \in Thread |-> IF memory[t] = "delayed" THEN "free" ELSE memory[t]]
delayed_freed_life == [t \in Thread |-> IF memory[t] = "delayed" THEN "none" ELSE life[t]]

\* Any allocation that is not thread_create()'s.
malloc(c) ==
  /\ Runs(c)
  /\ SMP \/ LockFree
  /\ memory' = delayed_freed_memory
  /\ life' = delayed_freed_life
  /\ UNCHANGED <<wqvars, detached, magic, thread_list, handle, pc>>

\* The pointer to the new thread goes to the threads of H.  When there is no memory
\* NULL is returned and nothing changes.
thread_create(c, t, H) ==
  /\ Runs(c) /\ LockFree /\ c \in H /\ (H = {c} \/ Shared)
  /\ memory[t] # "held"
  /\ memory' = [delayed_freed_memory EXCEPT ![t] = "held"]
  /\ life' = [delayed_freed_life EXCEPT ![t] = "suspended"]
  /\ detached' = [detached EXCEPT ![t] = FALSE]
  /\ magic' = [magic EXCEPT ![t] = TRUE]
  /\ thread_list' = thread_list \cup {t}
  /\ handle' = [handle EXCEPT ![t] = H]
  /\ list' = [list EXCEPT ![t] = <<>>]
  /\ wait_queue_block_ret' = [wait_queue_block_ret EXCEPT ![t] = "NO_ERROR"]
  /\ UNCHANGED <<state, blocking_wait_queue, timer, pc>>

\* Resuming a thread that is not suspended changes nothing.
thread_resume(c, t) ==
  /\ Runs(c) /\ LockFree
  /\ life[t] = "suspended"
  /\ life' = [life EXCEPT ![t] = "alive"]
  /\ UNCHANGED <<wqvars, detached, magic, thread_list, memory, handle, pc>>

\* Fault: the dead thread stays in the master list.
ReapKeepsListed(c, t) ==
  /\ magic' = [magic EXCEPT ![t] = FALSE]
  /\ pc' = [pc EXCEPT ![c] = In("free", t)]
  /\ Drop(c, t)
  /\ UNCHANGED <<life, detached, memory, thread_list>>

\* The end of thread_join(), still under thread_lock.  The blocks are freed after
\* the lock has been released.
Reap(c, t) ==
  /\ thread_list' = thread_list \ {t}
  /\ magic' = [magic EXCEPT ![t] = FALSE]
  /\ pc' = [pc EXCEPT ![c] = In("free", t)]
  /\ Drop(c, t)
  /\ UNCHANGED <<life, detached, memory>>

\* Fault: a thread that has died meanwhile is waited for like a live one.
JoinIgnoresDeath(c, t, timeout) ==
  /\ LockFree /\ magic[t]
  /\ IF detached[t]
     THEN /\ Drop(c, t)
          /\ pc' = [pc EXCEPT ![c] = Idle]
          /\ UNCHANGED <<wqvars, life, detached, magic, thread_list, memory>>
     ELSE /\ wait_queue_block(c, t, timeout = "finite")
          /\ pc' = [pc EXCEPT ![c] = In("join", t)]
          /\ UNCHANGED <<life, detached, magic, thread_list, memory, handle>>

\* thread_join() up to its wait: refused for a detached thread, done at once for a
\* dead one, and given up at once with a timeout of zero.
join_start(c, t, timeout) ==
  /\ LockFree /\ magic[t]
  /\ \/ /\ detached[t]
        /\ Drop(c, t)
        /\ pc' = [pc EXCEPT ![c] = Idle]
        /\ UNCHANGED <<wqvars, life, detached, magic, thread_list, memory>>
     \/ /\ ~detached[t] /\ life[t] = "death"
        /\ Reap(c, t)
        /\ UNCHANGED wqvars
     \/ /\ ~detached[t] /\ life[t] # "death" /\ timeout = "zero"
        /\ pc' = [pc EXCEPT ![c] = Idle]
        /\ UNCHANGED <<wqvars, life, detached, magic, thread_list, memory, handle>>
     \/ /\ ~detached[t] /\ life[t] # "death" /\ timeout # "zero"
        /\ wait_queue_block(c, t, timeout = "finite")
        /\ pc' = [pc EXCEPT ![c] = In("join", t)]
        /\ UNCHANGED <<life, detached, magic, thread_list, memory, handle>>

thread_join(c, t, timeout) == Runs(c) /\ c \in handle[t] /\ join_start(c, t, timeout)

\* Fault: the error of the wait is not looked at.
JoinReturnIgnoresError(c) ==
  /\ pc[c].op = "join" /\ LockFree
  /\ wait_queue_return(c)
  /\ Reap(c, pc[c].of)

\* thread_join() after its wait.  A caller told that the thread is detached has no
\* more use for the pointer; after a timeout it may try again.
thread_join_return(c) ==
  /\ pc[c].op = "join" /\ LockFree
  /\ wait_queue_return(c)
  /\ \/ wait_queue_block_ret[c] = "NO_ERROR" /\ Reap(c, pc[c].of)
     \/ /\ wait_queue_block_ret[c] # "NO_ERROR"
        /\ pc' = [pc EXCEPT ![c] = Idle]
        /\ IF wait_queue_block_ret[c] = "ERR_THREAD_DETACHED"
           THEN Drop(c, pc[c].of)
           ELSE UNCHANGED handle
        /\ UNCHANGED <<life, detached, magic, thread_list, memory>>

\* The timer of a timed join.
JoinTimeout(c) == LockFree /\ wait_queue_timeout_handler(c) /\ UNCHANGED lvars

\* thread_join() frees the stack and the structure.
thread_join_free(c) ==
  /\ pc[c].op = "free"
  /\ SMP \/ LockFree
  /\ memory' = [memory EXCEPT ![pc[c].of] = "free"]
  /\ life' = [life EXCEPT ![pc[c].of] = "none"]
  /\ pc' = [pc EXCEPT ![c] = Idle]
  /\ UNCHANGED <<wqvars, detached, magic, thread_list, handle>>

\* Whoever is inside thread_join() is told.  A dead thread is left to thread_join(),
\* which is entered after the lock has been released.
thread_detach(c, t) ==
  /\ Runs(c) /\ LockFree /\ c \in handle[t] /\ magic[t]
  /\ wait_queue_wake_all(t, "ERR_THREAD_DETACHED")
  /\ \/ /\ life[t] = "death"
        /\ detached' = [detached EXCEPT ![t] = FALSE]
        /\ pc' = [pc EXCEPT ![c] = In("detach_join", t)]
        /\ UNCHANGED handle
     \/ /\ life[t] # "death"
        /\ detached' = [detached EXCEPT ![t] = TRUE]
        /\ Drop(c, t)
        /\ UNCHANGED pc
  /\ UNCHANGED <<life, magic, thread_list, memory>>

thread_detach_join(c) == pc[c].op = "detach_join" /\ join_start(c, pc[c].of, "zero")

\* Fault: a thread that is not detached is torn down by its own exit as well.
ExitFreesAlways(t) ==
  /\ Runs(t) /\ LockFree /\ t # Main
  /\ life' = [life EXCEPT ![t] = "death"]
  /\ pc' = [pc EXCEPT ![t] = In("exit", t)]
  /\ handle' = [u \in Thread |-> handle[u] \ {t}]
  /\ thread_list' = thread_list \ {t}
  /\ magic' = [magic EXCEPT ![t] = FALSE]
  /\ memory' = [memory EXCEPT ![t] = "delayed"]
  /\ IF detached[t] THEN UNCHANGED wqvars ELSE wait_queue_wake_all(t, "NO_ERROR")
  /\ UNCHANGED detached

\* Fault: a detached thread's memory is given to free() instead of the delayed list.
ExitFreesNow(t) ==
  /\ Runs(t) /\ LockFree /\ t # Main
  /\ life' = [life EXCEPT ![t] = IF detached[t] THEN "none" ELSE "death"]
  /\ pc' = [pc EXCEPT ![t] = In("exit", t)]
  /\ handle' = [u \in Thread |-> handle[u] \ {t}]
  /\ IF detached[t]
     THEN /\ thread_list' = thread_list \ {t}
          /\ magic' = [magic EXCEPT ![t] = FALSE]
          /\ memory' = [memory EXCEPT ![t] = "free"]
          /\ UNCHANGED wqvars
     ELSE /\ wait_queue_wake_all(t, "NO_ERROR")
          /\ UNCHANGED <<thread_list, magic, memory>>
  /\ UNCHANGED detached

\* thread_exit() up to thread_resched(); what the dead thread could have joined is
\* nobody's any more.
thread_exit(t) ==
  /\ Runs(t) /\ LockFree /\ t # Main
  /\ life' = [life EXCEPT ![t] = "death"]
  /\ pc' = [pc EXCEPT ![t] = In("exit", t)]
  /\ handle' = [u \in Thread |-> handle[u] \ {t}]
  /\ IF detached[t]
     THEN /\ thread_list' = thread_list \ {t}
          /\ magic' = [magic EXCEPT ![t] = FALSE]
          /\ memory' = [memory EXCEPT ![t] = "delayed"]
          /\ UNCHANGED wqvars
     ELSE /\ wait_queue_wake_all(t, "NO_ERROR")
          /\ UNCHANGED <<thread_list, magic, memory>>
  /\ UNCHANGED detached

\* thread_resched() has left the dead thread's stack, and the lock to the next thread.
exit_resched(t) ==
  /\ pc[t].op = "exit"
  /\ pc' = [pc EXCEPT ![t] = Idle]
  /\ UNCHANGED <<wqvars, life, detached, magic, thread_list, memory, handle>>

Next ==
  \E c \in Thread :
    \/ malloc(c)
    \/ \E t \in Thread, H \in SUBSET Thread : thread_create(c, t, H)
    \/ \E t \in Thread : thread_resume(c, t)
    \/ \E t \in Thread, timeout \in Timeouts : thread_join(c, t, timeout)
    \/ thread_join_return(c)
    \/ JoinTimeout(c)
    \/ thread_join_free(c)
    \/ \E t \in Thread : thread_detach(c, t)
    \/ thread_detach_join(c)
    \/ thread_exit(c)
    \/ exit_resched(c)

Spec == Init /\ [][Next]_vars

\* A thread in the middle of an operation is scheduled again, and gets thread_lock then:
\* the lock is free again and again, so that takes strong fairness.
Fairness ==
  \A c \in Thread :
    /\ SF_vars(thread_join_return(c)) /\ SF_vars(thread_join_free(c))
    /\ SF_vars(thread_detach_join(c)) /\ WF_vars(exit_resched(c))

LiveSpec == Spec /\ Fairness
-----------------------------------------------------------------------------
TypeOK ==
  /\ WaitQueueTypeOK
  /\ life \in [Thread -> {"none", "suspended", "alive", "death"}]
  /\ detached \in [Thread -> BOOLEAN]
  /\ magic \in [Thread -> BOOLEAN]
  /\ thread_list \subseteq Thread
  /\ memory \in [Thread -> {"free", "held", "delayed"}]
  /\ handle \in [Thread -> SUBSET Thread]
  /\ pc \in [Thread -> [op : Op, of : Thread]]
  /\ thread_list = {t \in Thread : magic[t]}

\* The assertions of thread_join() (thread.c, after its wait): when a join goes on to
\* reap a thread, or thread_detach() enters thread_join() for a dead one, that thread
\* is still there, dead, and nobody else's to free.
JoinerFindsTheDead ==
  \A c \in Thread :
    pc[c].op = "detach_join" \/ (pc[c].op = "join" /\ state[c] = "ready" /\ wait_queue_block_ret[c] = "NO_ERROR")
    => magic[pc[c].of] /\ life[pc[c].of] = "death" /\ ~detached[pc[c].of]

\* The memory of a dead thread is freed once: as long as it is in the master list
\* nobody has begun to, and from then on exactly one party is going to, the delayed
\* free list (thread_exit) or one thread (thread_join).
DeadAreReapedOnce ==
  \A t \in Thread :
    LET freers == {c \in Thread : pc[c] = In("free", t)}
    IN  /\ Cardinality(freers) <= 1
        /\ freers # {} <=> life[t] = "death" /\ ~magic[t] /\ memory[t] = "held"
        /\ memory[t] = "delayed" => life[t] = "death" /\ ~magic[t]

\* A thread sleeps in thread_join() only for a thread that can still wake it: neither
\* dead nor detached (thread_exit and thread_detach wake all of the queue).
NoJoinerSleepsForNothing ==
  \A c \in Thread :
    state[c] = "blocked" => life[pc[c].of] \in {"suspended", "alive"} /\ ~detached[pc[c].of] /\ magic[pc[c].of]

\* A thread's stack and structure are not freed while it is still executing
\* thread_exit() on them: heap_delayed_free() exists to put the free off until then.
FreedOnlyWhenGone == \A t \in Thread : pc[t].op = "exit" => memory[t] # "free"

\* A joiner finds the dead thread it was woken for, what a dead thread leaves is freed
\* once, and not before the thread has left its stack.
TheDeadAreReapedOnce == JoinerFindsTheDead /\ DeadAreReapedOnce /\ FreedOnlyWhenGone

\* A join of a thread that dies is over eventually, whoever else joins or detaches.
JoinOfTheDeadReturns ==
  \A c, t \in Thread : (pc[c] = In("join", t) /\ life[t] = "death") ~> pc[c] = Idle
=============================================================================
