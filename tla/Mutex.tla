------------------------------- MODULE Mutex -------------------------------
(***************************************************************************)
(* One mutex_t of kernel/mutex.c and the threads that use it.  A thread    *)
(* that returned from mutex_acquire_timeout() with NO_ERROR is "inside"    *)
(* until it releases or destroys the mutex.                                *)
(***************************************************************************)
EXTENDS WaitQueue

CONSTANTS NoThread,   \* the null holder
          Timeouts    \* the kinds of timeout callers pass: a subset of the three below

ZeroTimeout == "zero"
FiniteTimeout == "finite"
INFINITE_TIME == "infinite"

ASSUME MutexAssumption ==
  /\ Queue = {"m->wait"}
  /\ NoThread \notin Thread
  /\ IsFiniteSet(Thread)
  /\ Timeouts \subseteq {ZeroTimeout, FiniteTimeout, INFINITE_TIME}

VARIABLES holder, count,  \* fields of the mutex_t
          magic,          \* TRUE until mutex_destroy() clears m->magic
          pc              \* "inside" the critical section, or "outside"

mvars == <<holder, count, magic, pc>>
vars == <<wqvars, mvars>>

wait == "m->wait"

Init ==
  /\ wait_queue_init
  /\ holder = NoThread
  /\ count = 0
  /\ magic = TRUE
  /\ pc = [t \in Thread |-> "outside"]

\* The panic on a recursive acquire (LK_DEBUGLEVEL > 0) is the guard on holder.
mutex_acquire_timeout(t, timeout) ==
  /\ magic /\ state[t] = "running" /\ pc[t] = "outside" /\ holder # t
  /\ \/ /\ count + 1 <= 1
        /\ count' = count + 1
        /\ holder' = t
        /\ pc' = [pc EXCEPT ![t] = "inside"]
        /\ UNCHANGED <<wqvars, magic>>
     \/ /\ count + 1 > 1
        /\ timeout # ZeroTimeout
        /\ count' = count + 1
        /\ wait_queue_block(t, wait, timeout = FiniteTimeout)
        /\ UNCHANGED <<holder, magic, pc>>
     \/ /\ count + 1 > 1
        /\ timeout = ZeroTimeout      \* counted, timed out and backed out in one step
        /\ UNCHANGED vars

\* Fault: the back-out of a timed out acquire is forgotten.
AcquireReturnKeepsCount(t) ==
  /\ wait_queue_return(t)
  /\ \/ /\ wait_queue_block_ret[t] = "NO_ERROR"
        /\ holder' = t
        /\ pc' = [pc EXCEPT ![t] = "inside"]
     \/ /\ wait_queue_block_ret[t] # "NO_ERROR"
        /\ UNCHANGED <<holder, pc>>
  /\ UNCHANGED <<count, magic>>

\* mutex_acquire_timeout() after its wait: take the mutex that was handed over, back
\* out after a timeout, or just leave when it was destroyed.
mutex_acquire_return(t) ==
  /\ wait_queue_return(t)
  /\ \/ /\ wait_queue_block_ret[t] = "NO_ERROR"
        /\ holder' = t
        /\ pc' = [pc EXCEPT ![t] = "inside"]
        /\ UNCHANGED count
     \/ /\ wait_queue_block_ret[t] = "ERR_TIMED_OUT"
        /\ count' = count - 1
        /\ UNCHANGED <<holder, pc>>
     \/ /\ wait_queue_block_ret[t] \notin {"NO_ERROR", "ERR_TIMED_OUT"}
        /\ UNCHANGED <<holder, pc, count>>
  /\ UNCHANGED magic

\* Fault: every waiter is woken, as if they would compete for the mutex again.
ReleaseWakesAll(t) ==
  /\ magic /\ state[t] = "running" /\ holder = t
  /\ holder' = NoThread
  /\ count' = count - 1
  /\ pc' = [pc EXCEPT ![t] = "outside"]
  /\ IF count - 1 >= 1 THEN wait_queue_wake_all(wait, "NO_ERROR") ELSE UNCHANGED wqvars
  /\ UNCHANGED magic

\* The panic on a release by another thread is the guard on holder.
mutex_release(t) ==
  /\ magic /\ state[t] = "running" /\ holder = t
  /\ holder' = NoThread
  /\ count' = count - 1
  /\ pc' = [pc EXCEPT ![t] = "outside"]
  /\ IF count - 1 >= 1 THEN wait_queue_wake_one(wait, "NO_ERROR") ELSE UNCHANGED wqvars
  /\ UNCHANGED magic

\* mutex_destroy() is refused (panic) while another thread holds the mutex.  It does
\* not touch holder.
mutex_destroy(t) ==
  /\ magic /\ state[t] = "running" /\ holder \in {NoThread, t}
  /\ magic' = FALSE
  /\ count' = 0
  /\ pc' = [pc EXCEPT ![t] = "outside"]
  /\ wait_queue_destroy(wait)
  /\ UNCHANGED holder

\* A destroyed mutex_t may be initialised again once no thread is still in one of
\* its operations (the caller's duty: the comment on wait_queue_destroy in wait.h).
mutex_init(t) ==
  /\ ~magic /\ \A u \in Thread : state[u] = "running" /\ pc[u] = "outside"
  /\ magic' = TRUE
  /\ count' = 0
  /\ holder' = NoThread
  /\ list' = [list EXCEPT ![wait] = <<>>]
  /\ UNCHANGED <<state, blocking_wait_queue, wait_queue_block_ret, timer, pc>>

\* The timer of a timed acquire.
AcquireTimeout(t) == wait_queue_timeout_handler(t) /\ UNCHANGED mvars

Step(t) ==
  \/ \E timeout \in Timeouts : mutex_acquire_timeout(t, timeout)
  \/ mutex_acquire_return(t)
  \/ mutex_release(t)
  \/ AcquireTimeout(t)

Next == \E t \in Thread : Step(t) \/ mutex_destroy(t) \/ mutex_init(t)

Spec == Init /\ [][Next]_vars

\* The scheduler runs every ready thread again, and a holder does not keep the mutex
\* for ever.  Nobody is obliged to acquire, to time out or to destroy.
Fairness == \A t \in Thread : WF_vars(mutex_acquire_return(t)) /\ WF_vars(mutex_release(t))

FairSpec == Spec /\ Fairness
-----------------------------------------------------------------------------
TypeOK ==
  /\ WaitQueueTypeOK
  /\ holder \in Thread \cup {NoThread}
  /\ count \in Int /\ (magic => count >= 0)
  /\ magic \in BOOLEAN
  /\ pc \in [Thread -> {"inside", "outside"}]

\* The threads the mutex belongs to: the one inside, or the one mutex_release() woke
\* to hand it over.
Owners == {t \in Thread : pc[t] = "inside" \/ (state[t] = "ready" /\ wait_queue_block_ret[t] = "NO_ERROR")}

\* The threads between the ++count of their acquire and the matching --count.
Engaged == {t \in Thread : pc[t] = "inside" \/ state[t] # "running"}

\* At most one thread is inside or has been handed the mutex (mutex_acquire_timeout,
\* mutex_release), whatever waits time out and whenever the mutex is destroyed.
MutualExclusion == \A t, u \in Owners : t = u

\* m->count counts the threads that own or wait for the mutex, the timed out ones that
\* have not run yet included, and m->holder is the thread inside.
CountIsEngaged ==
  magic => /\ count = Cardinality(Engaged)
           /\ \A t \in Thread : holder = t <=> pc[t] = "inside"

\* mutex_acquire_timeout() "waits up to timeout ms for the mutex to become available":
\* no thread sleeps in it when the mutex belongs to nobody and no thread is on its way
\* back from a wait to do anything about it.
NobodySleepsOnAFreeMutex ==
  (\E t \in Thread : state[t] = "blocked") =>
     Owners # {} \/ \E t \in Thread : state[t] = "ready"

\* The hand-over is starvation free unless a release is lost on a waiter that has timed
\* out: as long as a mutex that is counted has an owner, a thread that waits without a
\* timeout gets the mutex, or the mutex is destroyed.
BlockedGetsTheMutex ==
  [](count > 0 => Owners # {}) =>
     \A t \in Thread : (state[t] = "blocked" /\ ~timer[t]) ~> (pc[t] = "inside" \/ ~magic)
=============================================================================
