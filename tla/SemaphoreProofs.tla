-------------------------- MODULE SemaphoreProofs --------------------------
(***************************************************************************)
(* kernel/semaphore.c implements a counting semaphore, for any number of   *)
(* threads, any initial values and any mix of timeouts.                    *)
(***************************************************************************)
EXTENDS Semaphore, WaitQueueProofs, FiniteSetTheorems

\* The inductive invariant: the wait queue is in order, and no permit was given out that was not
\* there, which bounds count from below.
IInv ==
  /\ WaitQueueInv
  /\ count \in Int /\ valid \in BOOLEAN
  /\ Permits >= 0

\* What the steps do to Waiting is all that matters to the number of permits.
LEMMA WaitingFinite ==
  ASSUME SemaphoreAssumption
  PROVE  /\ IsFiniteSet(Waiting) /\ Cardinality(Waiting) \in Nat
         /\ Cardinality(Waiting) <= Cardinality(Thread) /\ Cardinality(Thread) \in Nat
<1>1. IsFiniteSet(Thread) /\ Waiting \subseteq Thread
  BY DEF SemaphoreAssumption, Waiting
<1> QED BY <1>1, FS_Subset, FS_CardinalityType

\* A thread that joins those that wait adds one to their number, ...
LEMMA Joins ==
  ASSUME SemaphoreAssumption, NEW t \in Thread, t \notin Waiting, Waiting' = Waiting \cup {t}
  PROVE  Cardinality(Waiting)' = Cardinality(Waiting) + 1
BY WaitingFinite, FS_AddElement

\* ... and one that leaves them takes one away.
LEMMA Leaves ==
  ASSUME SemaphoreAssumption, NEW t \in Thread, t \in Waiting, Waiting' = Waiting \ {t}
  PROVE  Cardinality(Waiting)' = Cardinality(Waiting) - 1
BY WaitingFinite, FS_RemoveElement

\* Before sem_init() returns nobody waits and every permit is unused.
LEMMA SemInit ==
  ASSUME SemaphoreAssumption, sem_init
  PROVE  IInv /\ Abstract!Init
<1>1. WaitQueueInv
  BY InitLemma DEF sem_init
<1>2. Waiting = {}
  BY DEF sem_init, wait_queue_init, Waiting
<1>3. Permits = count /\ count \in Nat /\ valid \in BOOLEAN
  BY <1>2, FS_EmptySet DEF Permits, sem_init, SemaphoreAssumption
<1> QED BY <1>1, <1>2, <1>3 DEF IInv, Abstract!Init

\* The abstract semaphore is left alone, or takes one step, and the invariant stays.
Simulates == IInv' /\ (Abstract!Next \/ UNCHANGED Abstract!vars)

\* A thread that has to wait is counted (sem_wait, sem_timedwait).
LEMMA BlockStep ==
  ASSUME SemaphoreAssumption, IInv, NEW t \in Thread, NEW finite \in BOOLEAN,
         state[t] = "running", count' = count - 1, UNCHANGED valid, wait_queue_block(t, wait, finite)
  PROVE  Simulates
<1>1. WaitQueueInv'
  BY BlockLemma DEF IInv, SemaphoreAssumption, wait
<1>2. t \notin Waiting /\ Waiting' = Waiting \cup {t}
  BY DEF IInv, WaitQueueInv, WaitQueueTypeOK, Waiting, wait_queue_block
<1>3. Cardinality(Waiting)' = Cardinality(Waiting) + 1
  BY <1>2, Joins
<1>4. Permits' = Permits
  BY <1>3, WaitingFinite DEF Permits, IInv
<1>5. Abstract!Wait(t)
  BY <1>2, <1>4 DEF Abstract!Wait
<1> QED BY <1>1, <1>4, <1>5 DEF Simulates, IInv, Abstract!Next

\* A permit that is there is taken at once (sem_wait, sem_trywait, sem_timedwait).
LEMMA TakeStep ==
  ASSUME SemaphoreAssumption, IInv, NEW t \in Thread,
         state[t] = "running", count - 1 >= 0, count' = count - 1, UNCHANGED <<valid, wqvars>>
  PROVE  Simulates
<1>1. WaitQueueInv'
  BY DEF IInv, WaitQueueInv, WaitQueueTypeOK, QueuesHoldTheBlocked, wqvars
<1>2. t \notin Waiting /\ Waiting' = Waiting
  BY DEF Waiting, wqvars
<1>3. Permits' = Permits - 1 /\ Permits > 0 /\ Permits' >= 0
  BY <1>2, WaitingFinite DEF Permits, IInv
<1>4. Abstract!Take(t)
  BY <1>2, <1>3 DEF Abstract!Take
<1> QED BY <1>1, <1>3, <1>4 DEF Simulates, IInv, Abstract!Next

\* A step that changes neither count nor the queue is a stutter of the semaphore.
LEMMA IdleStep ==
  ASSUME IInv, UNCHANGED <<count, valid, wqvars>>
  PROVE  Simulates
<1>1. WaitQueueInv'
  BY DEF IInv, WaitQueueInv, WaitQueueTypeOK, QueuesHoldTheBlocked, wqvars
<1>2. Waiting' = Waiting
  BY DEF Waiting, wqvars
<1>3. Permits' = Permits
  BY <1>2 DEF Permits
<1> QED BY <1>1, <1>2, <1>3 DEF Simulates, IInv, Abstract!vars

\* A post makes a permit, or gives one to the thread at the head of the queue.  When count says
\* that threads wait but those have all timed out already, it makes a permit too.
LEMMA PostStep ==
  ASSUME SemaphoreAssumption, IInv, sem_post
  PROVE  Simulates
<1> wait \in Queue
  BY DEF SemaphoreAssumption, wait
<1>1. CASE UNCHANGED wqvars
  <2>1. WaitQueueInv'
    BY <1>1 DEF IInv, WaitQueueInv, WaitQueueTypeOK, QueuesHoldTheBlocked, wqvars
  <2>2. Waiting' = Waiting
    BY <1>1 DEF Waiting, wqvars
  <2>3. Permits' = Permits + 1 /\ Permits' >= 0
    BY <2>2, WaitingFinite DEF Permits, IInv, sem_post
  <2>4. Abstract!Post
    BY <2>2, <2>3 DEF Abstract!Post
  <2> QED BY <2>1, <2>3, <2>4 DEF Simulates, IInv, Abstract!Next, sem_post
<1>2. CASE wait_queue_wake_one(wait, "NO_ERROR") /\ list[wait] # <<>>
  <2>1. WaitQueueInv'
    BY <1>2, WakeOneLemma DEF IInv, Status
  <2>2. PICK h \in Thread : h = Head(list[wait]) /\ state[h] = "blocked"
    BY <1>2 DEF IInv, WaitQueueInv, WaitQueueTypeOK, QueuesHoldTheBlocked
  <2>3. /\ state' = [state EXCEPT ![h] = "ready"]
        /\ wait_queue_block_ret' = [wait_queue_block_ret EXCEPT ![h] = "NO_ERROR"]
    BY <1>2, <2>2, WokenOne DEF wait_queue_wake_one, IInv, WaitQueueInv
  <2>4. h \in Waiting /\ Waiting' = Waiting \ {h}
    BY <2>2, <2>3 DEF Waiting, IInv, WaitQueueInv, WaitQueueTypeOK
  <2>5. Permits' = Permits
    <3>1. Cardinality(Waiting)' = Cardinality(Waiting) - 1
      BY <2>4, Leaves
    <3>2. count \in Int /\ count' = count + 1
      BY DEF IInv, sem_post
    <3> QED BY <3>1, <3>2, WaitingFinite DEF Permits
  <2>6. Abstract!PostTo(h)
    BY <2>4, <2>5 DEF Abstract!PostTo
  <2> QED BY <2>1, <2>5, <2>6 DEF Simulates, IInv, Abstract!Next, sem_post
<1> QED BY <1>1, <1>2 DEF sem_post, wait_queue_wake_one

\* A waiter that returns after its timeout gives up; any other had its answer before.
LEMMA ReturnStep ==
  ASSUME SemaphoreAssumption, IInv, NEW t \in Thread, sem_wait_return(t)
  PROVE  Simulates
<1>1. WaitQueueInv'
  BY ReturnLemma DEF IInv, sem_wait_return
<1>2. state[t] = "ready" /\ state' = [state EXCEPT ![t] = "running"] /\ UNCHANGED wait_queue_block_ret
  BY DEF sem_wait_return, wait_queue_return
<1>3. CASE wait_queue_block_ret[t] = "ERR_TIMED_OUT"
  <2>1. t \in Waiting /\ Waiting' = Waiting \ {t}
    BY <1>2, <1>3 DEF Waiting, IInv, WaitQueueInv, WaitQueueTypeOK
  <2>2. Permits' = Permits
    <3>1. Cardinality(Waiting)' = Cardinality(Waiting) - 1
      BY <2>1, Leaves
    <3>2. count \in Int /\ count' = count + 1
      BY <1>3 DEF IInv, sem_wait_return
    <3> QED BY <3>1, <3>2, WaitingFinite DEF Permits
  <2>3. Abstract!Expire(t)
    BY <2>1, <2>2 DEF Abstract!Expire
  <2> QED BY <1>1, <1>3, <2>2, <2>3 DEF Simulates, IInv, Abstract!Next, sem_wait_return
<1>4. CASE wait_queue_block_ret[t] # "ERR_TIMED_OUT"
  <2>1. Waiting' = Waiting
    BY <1>2, <1>4 DEF Waiting, IInv, WaitQueueInv, WaitQueueTypeOK
  <2>2. Permits' = Permits
    BY <1>4, <2>1 DEF Permits, sem_wait_return
  <2> QED BY <1>1, <1>4, <2>1, <2>2 DEF Simulates, IInv, Abstract!vars, sem_wait_return
<1> QED BY <1>3, <1>4

\* A timeout only turns a sleeper into one that is about to back out.
LEMMA TimeoutStep ==
  ASSUME SemaphoreAssumption, IInv, NEW t \in Thread, WaitTimeout(t)
  PROVE  Simulates
<1>1. WaitQueueInv'
  BY TimeoutLemma DEF IInv, WaitTimeout
<1>2. Waiting' = Waiting
  <2>1. CASE thread_unblock_from_wait_queue(t, "ERR_TIMED_OUT")
    <3>1. /\ state[t] = "blocked" /\ state' = [state EXCEPT ![t] = "ready"]
          /\ wait_queue_block_ret' = [wait_queue_block_ret EXCEPT ![t] = "ERR_TIMED_OUT"]
      BY <2>1, WokenOne DEF thread_unblock_from_wait_queue, IInv, WaitQueueInv
    <3> QED BY <3>1 DEF Waiting, IInv, WaitQueueInv, WaitQueueTypeOK
  <2>2. CASE UNCHANGED <<state, wait_queue_block_ret>>
    BY <2>2 DEF Waiting
  <2> QED BY <2>1, <2>2 DEF WaitTimeout, wait_queue_timeout_handler
<1>3. Permits' = Permits
  BY <1>2 DEF Permits, WaitTimeout
<1> QED BY <1>1, <1>2, <1>3 DEF Simulates, IInv, Abstract!vars, WaitTimeout

\* A destroyed semaphore keeps nobody waiting.
LEMMA DestroyStep ==
  ASSUME SemaphoreAssumption, IInv, sem_destroy
  PROVE  Simulates
<1> wait \in Queue
  BY DEF SemaphoreAssumption, wait
<1>1. WaitQueueInv'
  BY WakeAllLemma DEF IInv, Status, sem_destroy, wait_queue_destroy
<1>2. Waiting' = {}
  <2> DEFINE W == {list[wait][i] : i \in 1..Len(list[wait])}
  <2>1. \A t \in Thread : state[t] = "blocked" => t \in W
    BY DEF IInv, WaitQueueInv, QueuesHoldTheBlocked, SemaphoreAssumption, wait
  <2>2. \A t \in Thread : /\ state'[t] = IF t \in W THEN "ready" ELSE state[t]
                          /\ wait_queue_block_ret'[t] = IF t \in W THEN "ERR_OBJECT_DESTROYED" ELSE wait_queue_block_ret[t]
    BY DEF sem_destroy, wait_queue_destroy, wait_queue_wake_all, Woken
  <2> HIDE DEF W
  <2>3. \A t \in Thread : state[t] \in {"running", "blocked"}
    BY DEF sem_destroy, IInv, WaitQueueInv, WaitQueueTypeOK
  <2>4. \A t \in Thread : t \notin Waiting'
    BY <2>1, <2>2, <2>3 DEF Waiting
  <2> QED BY <2>4 DEF Waiting
<1>3. Permits' = 0
  BY <1>2, FS_EmptySet DEF Permits, sem_destroy
<1>4. Abstract!Destroy
  BY <1>2, <1>3 DEF Abstract!Destroy
<1>5. valid' \in BOOLEAN
  BY DEF sem_destroy
<1>6. count' \in Int /\ Permits' >= 0
  BY <1>3 DEF sem_destroy
<1> QED BY <1>1, <1>4, <1>5, <1>6 DEF Simulates, IInv, Abstract!Next

\* Every step of semaphore.c keeps the invariant and is a step of the counting semaphore.
LEMMA NextStep ==
  ASSUME SemaphoreAssumption, IInv, [Next]_vars
  PROVE  Simulates
<1>1. CASE UNCHANGED vars
  BY <1>1, IdleStep DEF vars
<1>2. CASE sem_post
  BY <1>2, PostStep
<1>3. CASE sem_destroy
  BY <1>3, DestroyStep
<1>4. ASSUME NEW t \in Thread, Step(t)
      PROVE  Simulates
  <2>1. CASE sem_wait(t)
    <3>1. state[t] = "running" /\ count' = count - 1 /\ UNCHANGED valid /\ count \in Int
      BY <2>1 DEF sem_wait, IInv
    <3>2. CASE wait_queue_block(t, wait, FALSE)
      BY <3>1, <3>2, BlockStep
    <3>3. CASE count - 1 >= 0 /\ UNCHANGED wqvars
      BY <3>1, <3>3, TakeStep
    <3>4. ~(count - 1 < 0) => count - 1 >= 0
      BY <3>1
    <3> QED BY <2>1, <3>2, <3>3, <3>4 DEF sem_wait
  <2>2. CASE sem_trywait(t)
    BY <2>2, TakeStep, IdleStep DEF sem_trywait, IInv
  <2>3. CASE \E timeout \in Timeouts : sem_timedwait(t, timeout)
    BY <2>3, BlockStep, TakeStep, IdleStep DEF sem_timedwait, IInv
  <2>4. CASE sem_wait_return(t)
    BY <2>4, ReturnStep
  <2>5. CASE WaitTimeout(t)
    BY <2>5, TimeoutStep
  <2> QED BY <1>4, <2>1, <2>2, <2>3, <2>4, <2>5 DEF Step
<1> QED BY <1>1, <1>2, <1>3, <1>4 DEF Next

\* The wait queue of a semaphore is always in order, and a count never falls below minus the
\* number of threads that wait.
THEOREM Invariance ==
  ASSUME SemaphoreAssumption
  PROVE  Spec => []IInv
<1>1. sem_init => IInv
  BY SemInit
<1>2. IInv /\ [Next]_vars => IInv'
  BY NextStep DEF Simulates
<1> QED BY <1>1, <1>2, PTL DEF Spec

\* The variables of semaphore.c keep their types; count is at least minus the number of threads.
THEOREM TypeCorrect ==
  ASSUME SemaphoreAssumption
  PROVE  Spec => []TypeOK
<1>1. IInv => TypeOK
  BY WaitingFinite DEF IInv, TypeOK, WaitQueueInv, Permits
<1> QED BY <1>1, Invariance, PTL

\* semaphore.c implements a counting semaphore: no permit is invented, lost or given twice,
\* whatever posts, timeouts, back-outs and destruction meet.
THEOREM Refinement ==
  ASSUME SemaphoreAssumption
  PROVE  Spec => ImplementsCountingSemaphore
<1>1. sem_init => Abstract!Init
  BY SemInit
<1>2. IInv /\ [Next]_vars => [Abstract!Next]_(Abstract!vars)
  BY NextStep DEF Simulates
<1> QED BY <1>1, <1>2, Invariance, PTL DEF Spec, ImplementsCountingSemaphore, Abstract!Spec
=============================================================================
