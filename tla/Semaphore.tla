----------------------------- MODULE Semaphore -----------------------------
(***************************************************************************)
(* One semaphore_t of kernel/semaphore.c.  sem_post() may be called by any *)
(* thread or interrupt handler, so it has no caller here.                  *)
(***************************************************************************)
EXTENDS WaitQueue

CONSTANTS Timeouts,      \* the kinds of timeout given to sem_timedwait()
          InitialValues, \* the values given to sem_init()
          MaxPermits     \* bound: nobody posts when this many permits are unused

\* What the constants must be.
SemaphoreAssumption ==
  /\ Queue = {"sem->wait"}
  /\ IsFiniteSet(Thread)
  /\ Timeouts \subseteq {"zero", "finite"}
  /\ InitialValues \subseteq Nat
  /\ MaxPermits \in Nat

VARIABLES count,   \* sem->count: negative when threads wait
          valid    \* until sem_destroy()

vars == <<wqvars, count, valid>>

wait == "sem->wait"

\* The threads between the --count of their wait and either the permit they are given
\* or the ++count of their back-out.
Waiting == {t \in Thread : state[t] = "blocked"
                           \/ (state[t] = "ready" /\ wait_queue_block_ret[t] = "ERR_TIMED_OUT")}

\* The permits that no thread has been given.
Permits == count + Cardinality(Waiting)

sem_init ==
  /\ wait_queue_init
  /\ count \in InitialValues
  /\ valid = TRUE

sem_post ==
  /\ valid /\ Permits < MaxPermits
  /\ count' = count + 1
  /\ IF count + 1 <= 0 THEN wait_queue_wake_one(wait, "NO_ERROR") ELSE UNCHANGED wqvars
  /\ UNCHANGED valid

sem_wait(t) ==
  /\ valid /\ state[t] = "running"
  /\ count' = count - 1
  /\ IF count - 1 < 0 THEN wait_queue_block(t, wait, FALSE) ELSE UNCHANGED wqvars
  /\ UNCHANGED valid

\* Fault: the count is taken when it is zero.
TrywaitAtZero(t) ==
  /\ valid /\ state[t] = "running"
  /\ count' = IF count < 0 THEN count ELSE count - 1
  /\ UNCHANGED <<wqvars, valid>>

sem_trywait(t) ==
  /\ valid /\ state[t] = "running"
  /\ count' = IF count <= 0 THEN count ELSE count - 1
  /\ UNCHANGED <<wqvars, valid>>

sem_timedwait(t, timeout) ==
  /\ valid /\ state[t] = "running"
  /\ \/ /\ count - 1 >= 0
        /\ count' = count - 1
        /\ UNCHANGED wqvars
     \/ /\ count - 1 < 0
        /\ timeout = "finite"
        /\ count' = count - 1
        /\ wait_queue_block(t, wait, TRUE)
     \/ /\ count - 1 < 0
        /\ timeout = "zero"      \* counted, timed out and backed out in one step
        /\ UNCHANGED <<count, wqvars>>
  /\ UNCHANGED valid

\* Fault: the back-out after a timeout is forgotten.
ReturnKeepsCount(t) == wait_queue_return(t) /\ UNCHANGED <<count, valid>>

\* sem_wait() and sem_timedwait() after their wait: only a timed out wait is backed out.
sem_wait_return(t) ==
  /\ wait_queue_return(t)
  /\ count' = IF wait_queue_block_ret[t] = "ERR_TIMED_OUT" THEN count + 1 ELSE count
  /\ UNCHANGED valid

\* The caller's duty (wait.h): no thread is in the middle of an operation, that is,
\* none is on its way back from a wait.
sem_destroy ==
  /\ valid /\ \A t \in Thread : state[t] # "ready"
  /\ valid' = FALSE
  /\ count' = 0
  /\ wait_queue_destroy(wait)

WaitTimeout(t) == wait_queue_timeout_handler(t) /\ UNCHANGED <<count, valid>>

Step(t) ==
  \/ sem_wait(t)
  \/ sem_trywait(t)
  \/ \E timeout \in Timeouts : sem_timedwait(t, timeout)
  \/ sem_wait_return(t)
  \/ WaitTimeout(t)

Next == sem_post \/ sem_destroy \/ \E t \in Thread : Step(t)

Spec == sem_init /\ [][Next]_vars

\* The scheduler runs every ready thread again and somebody keeps posting while a
\* permit may be added.
FairSpec == Spec /\ WF_vars(sem_post) /\ \A t \in Thread : WF_vars(sem_wait_return(t))
-----------------------------------------------------------------------------
TypeOK ==
  /\ WaitQueueTypeOK
  /\ count \in Int /\ count >= -Cardinality(Thread)
  /\ valid \in BOOLEAN

\* Every operation of semaphore.c is a step of a counting semaphore, with the permits
\* and the waiting threads read off count and the wait queue: no permit is invented or
\* given twice, and none disappears, through timeouts and back-outs too.
Abstract == INSTANCE CountingSemaphore WITH permits <- Permits, waiting <- Waiting
ImplementsCountingSemaphore == Abstract!Spec

\* sem_post() takes a count that stays positive as proof that nobody waits ("otherwise
\* it's safe to just increase the count available with no downsides"): a negative count
\* counts the threads asleep and those that timed out and have not run yet.
CountTellsWhoWaits ==
  valid => Len(list[wait]) + Cardinality({t \in Thread : state[t] = "ready" /\ wait_queue_block_ret[t] = "ERR_TIMED_OUT"})
             = (IF count < 0 THEN -count ELSE 0)

\* As long as it is so, a thread that waits without a timeout gets a permit (or the
\* semaphore is destroyed) when posts keep coming.
WaiterGetsAPermit ==
  []CountTellsWhoWaits =>
     \A t \in Thread : (state[t] = "blocked" /\ ~timer[t]) ~> state[t] = "running"
=============================================================================
