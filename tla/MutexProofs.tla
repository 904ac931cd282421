---------------------------- MODULE MutexProofs ----------------------------
(***************************************************************************)
(* The mutex of kernel/mutex.c excludes, for any number of threads and any *)
(* mixture of timeouts, destructions and re-initialisations.               *)
(***************************************************************************)
EXTENDS Mutex, WaitQueueProofs, FiniteSetTheorems

\* A thread inside the critical section is not in the middle of an acquire.
InsideRuns == \A t \in Thread : pc[t] = "inside" => state[t] = "running"

\* Only a destroyed mutex sends its waiters away without their counting themselves out.
OnlyDestroySendsAway ==
  magic => \A t \in Thread : state[t] = "ready" => wait_queue_block_ret[t] \in {"NO_ERROR", "ERR_TIMED_OUT"}

\* The inductive invariant: an acquire takes a mutex whose count is zero, so the count
\* must bound the owners, and a release leaves the mutex to the thread it wakes, so
\* that thread must not have been an owner before.
IInv == TypeOK /\ QueuesHoldTheBlocked /\ InsideRuns /\ OnlyDestroySendsAway /\ MutualExclusion /\ CountIsEngaged

\* The threads engaged with the mutex can be counted.
LEMMA EngagedType ==
  IsFiniteSet(Engaged) /\ Engaged \subseteq Thread /\ Cardinality(Engaged) \in Nat
BY MutexAssumption, FS_Subset, FS_CardinalityType DEF Engaged

\* The mutex starts with nobody inside or waiting (mutex_init).
LEMMA InitInv == Init => IInv
<1> SUFFICES ASSUME Init PROVE IInv
  OBVIOUS
<1>1. WaitQueueInv
  BY InitLemma DEF Init
<1>2. Engaged = {} /\ Owners = {}
  BY DEF Init, wait_queue_init, Engaged, Owners
<1>3. Cardinality(Engaged) = 0
  BY <1>2, FS_EmptySet
<1> QED BY <1>1, <1>2, <1>3, MutexAssumption
        DEF Init, wait_queue_init, IInv, TypeOK, WaitQueueInv, InsideRuns, OnlyDestroySendsAway, MutualExclusion, CountIsEngaged

\* A step in which no thread becomes ready keeps OnlyDestroySendsAway.
LEMMA NobodyBecomesReady ==
  ASSUME OnlyDestroySendsAway, UNCHANGED magic,
         \A t \in Thread : state'[t] = "ready" =>
            state[t] = "ready" /\ wait_queue_block_ret'[t] = wait_queue_block_ret[t]
  PROVE  OnlyDestroySendsAway'
BY DEF OnlyDestroySendsAway

\* mutex_acquire_timeout(): taken at once only when nobody is engaged.
LEMMA AcquireStep ==
  ASSUME IInv, NEW t \in Thread, NEW timeout \in Timeouts, mutex_acquire_timeout(t, timeout)
  PROVE  IInv'
<1> USE DEF IInv
<1>1. WaitQueueInv /\ wait \in Queue
  BY MutexAssumption DEF TypeOK, WaitQueueInv, wait
<1>2. t \notin Engaged
  BY DEF mutex_acquire_timeout, Engaged
<1>3. count \in Nat /\ count = Cardinality(Engaged)
  BY EngagedType DEF mutex_acquire_timeout, CountIsEngaged
<1>4. CASE UNCHANGED vars
  BY <1>4 DEF vars, mvars, wqvars, TypeOK, OnlyDestroySendsAway, WaitQueueTypeOK, QueuesHoldTheBlocked, InsideRuns, MutualExclusion,
              Owners, CountIsEngaged, Engaged
<1>5. CASE /\ count + 1 <= 1 /\ count' = count + 1 /\ holder' = t
           /\ pc' = [pc EXCEPT ![t] = "inside"] /\ UNCHANGED <<wqvars, magic>>
  <2>1. Engaged = {}
    BY <1>3, <1>5, EngagedType, FS_EmptySet
  <2>2. Engaged' = {t} /\ Owners' = {t}
    BY <2>1, <1>5 DEF Engaged, Owners, wqvars, TypeOK, mutex_acquire_timeout
  <2>3. Cardinality({t}) = 1
    BY FS_Singleton
  <2>4. TypeOK' /\ QueuesHoldTheBlocked'
    BY <1>5, <1>3 DEF TypeOK, wqvars, WaitQueueTypeOK, QueuesHoldTheBlocked
  <2>5. InsideRuns' /\ OnlyDestroySendsAway'
    BY <1>5 DEF InsideRuns, OnlyDestroySendsAway, wqvars, TypeOK, mutex_acquire_timeout
  <2>6. \A u \in Thread : holder' = u <=> pc'[u] = "inside"
    BY <1>5, <2>1 DEF TypeOK, Engaged
  <2>7. count' = Cardinality(Engaged')
    BY <1>3, <1>5, <2>2, <2>3
  <2> QED BY <2>2, <2>4, <2>5, <2>6, <2>7 DEF MutualExclusion, CountIsEngaged
<1>6. CASE /\ count + 1 > 1 /\ count' = count + 1
           /\ wait_queue_block(t, wait, timeout = FiniteTimeout) /\ UNCHANGED <<holder, magic, pc>>
  <2>1. WaitQueueInv'
    BY <1>1, <1>6, BlockLemma DEF mutex_acquire_timeout
  <2>2. Engaged' = Engaged \cup {t} /\ Owners' = Owners
    BY <1>6 DEF Engaged, Owners, wait_queue_block, TypeOK, WaitQueueTypeOK, mutex_acquire_timeout
  <2>3. Cardinality(Engaged') = count + 1
    BY <2>2, <1>2, <1>3, EngagedType, FS_AddElement
  <2>4. TypeOK' /\ InsideRuns'
    BY <1>3, <1>6, <2>1 DEF TypeOK, WaitQueueInv, InsideRuns, wait_queue_block, WaitQueueTypeOK, mutex_acquire_timeout
  <2>5. OnlyDestroySendsAway'
    BY <1>6, NobodyBecomesReady DEF wait_queue_block, TypeOK, WaitQueueTypeOK
  <2> QED BY <1>6, <2>1, <2>2, <2>3, <2>4, <2>5 DEF MutualExclusion, CountIsEngaged, WaitQueueInv
<1> QED BY <1>4, <1>5, <1>6 DEF mutex_acquire_timeout

\* The return from a wait: into the mutex that was handed over, or out of the count.
LEMMA AcquireReturnStep ==
  ASSUME IInv, NEW t \in Thread, mutex_acquire_return(t)
  PROVE  IInv'
<1> USE DEF IInv
<1>1. WaitQueueInv /\ WaitQueueInv'
  BY ReturnLemma DEF TypeOK, WaitQueueInv, mutex_acquire_return
<1>2. state[t] = "ready" /\ pc[t] = "outside" /\ state' = [state EXCEPT ![t] = "running"] /\ UNCHANGED <<wait_queue_block_ret, magic>>
  BY DEF mutex_acquire_return, wait_queue_return, InsideRuns, TypeOK
<1>3. t \in Engaged
  BY <1>2 DEF Engaged
<1>4. OnlyDestroySendsAway'
  BY <1>2, NobodyBecomesReady DEF TypeOK, WaitQueueTypeOK
<1>5. CASE wait_queue_block_ret[t] = "NO_ERROR" /\ holder' = t /\ pc' = [pc EXCEPT ![t] = "inside"] /\ UNCHANGED count
  <2>1. Engaged' = Engaged /\ Owners' = Owners /\ t \in Owners
    BY <1>2, <1>5 DEF Engaged, Owners, TypeOK, WaitQueueTypeOK
  <2>2. TypeOK' /\ InsideRuns'
    BY <1>1, <1>2, <1>5 DEF TypeOK, WaitQueueInv, InsideRuns, WaitQueueTypeOK
  <2>3. \A u \in Thread : pc'[u] = "inside" <=> u = t
    BY <1>2, <1>5, <2>1 DEF MutualExclusion, Owners, TypeOK
  <2> QED BY <1>1, <1>2, <1>5, <2>1, <2>2, <2>3, <1>4 DEF MutualExclusion, CountIsEngaged, WaitQueueInv
<1>6. CASE wait_queue_block_ret[t] # "NO_ERROR" /\ UNCHANGED <<holder, pc>>
           /\ \/ wait_queue_block_ret[t] = "ERR_TIMED_OUT" /\ count' = count - 1
              \/ wait_queue_block_ret[t] # "ERR_TIMED_OUT" /\ UNCHANGED count
  <2>1. Engaged' = Engaged \ {t} /\ Owners' = Owners
    BY <1>2, <1>6 DEF Engaged, Owners, TypeOK, WaitQueueTypeOK
  <2>2. Cardinality(Engaged') = Cardinality(Engaged) - 1 /\ Cardinality(Engaged') \in Nat
    BY <1>3, <2>1, EngagedType, FS_RemoveElement, FS_CardinalityType
  <2>3. CountIsEngaged'
    BY <1>2, <1>6, <2>2, EngagedType DEF OnlyDestroySendsAway, CountIsEngaged
  <2>4. TypeOK' /\ InsideRuns'
    BY <1>1, <1>2, <1>6, <2>2, <2>3 DEF TypeOK, WaitQueueInv, InsideRuns, WaitQueueTypeOK, CountIsEngaged
  <2> QED BY <1>1, <1>2, <1>6, <2>1, <2>3, <2>4, <1>4 DEF MutualExclusion, WaitQueueInv
<1> QED BY <1>5, <1>6 DEF mutex_acquire_return

\* mutex_release(): the head of the queue becomes the only owner.
LEMMA ReleaseStep ==
  ASSUME IInv, NEW t \in Thread, mutex_release(t)
  PROVE  IInv'
<1> USE DEF IInv
<1>1. WaitQueueInv /\ wait \in Queue /\ "NO_ERROR" \in Status
  BY MutexAssumption DEF TypeOK, WaitQueueInv, wait, Status
<1>2. /\ magic /\ UNCHANGED magic /\ state[t] = "running" /\ pc[t] = "inside" /\ holder' = NoThread
      /\ count' = count - 1 /\ pc' = [pc EXCEPT ![t] = "outside"] /\ count = Cardinality(Engaged)
  BY DEF mutex_release, CountIsEngaged
<1>3. t \in Engaged /\ Owners = {t}
  BY <1>2 DEF Engaged, Owners, MutualExclusion
<1>4. wait_queue_wake_one(wait, "NO_ERROR") \/ UNCHANGED wqvars
  BY DEF mutex_release
<1>5. WaitQueueInv'
  BY <1>1, <1>4, WakeOneLemma DEF WaitQueueInv, WaitQueueTypeOK, QueuesHoldTheBlocked, wqvars
<1>6. \/ UNCHANGED <<state, wait_queue_block_ret>>
      \/ \E h \in Thread : /\ state[h] = "blocked" /\ state' = [state EXCEPT ![h] = "ready"]
                           /\ wait_queue_block_ret' = [wait_queue_block_ret EXCEPT ![h] = "NO_ERROR"]
  <2>1. CASE UNCHANGED wqvars
    BY <2>1 DEF wqvars
  <2>2. CASE list[wait] = <<>> /\ wait_queue_wake_one(wait, "NO_ERROR")
    BY <2>2 DEF wqvars, wait_queue_wake_one
  <2>3. CASE list[wait] # <<>> /\ wait_queue_wake_one(wait, "NO_ERROR")
    <3>1. 1 \in 1..Len(list[wait]) /\ Head(list[wait]) = list[wait][1] /\ list[wait][1] \in Thread
      BY <1>1, <2>3 DEF WaitQueueInv, WaitQueueTypeOK
    <3>2. state[Head(list[wait])] = "blocked"
      BY <1>1, <3>1 DEF WaitQueueInv, QueuesHoldTheBlocked
    <3>3. Woken({Head(list[wait])}, "NO_ERROR")
      BY <2>3 DEF wait_queue_wake_one
    <3> QED BY <3>1, <3>2, <3>3, WokenOne DEF TypeOK
  <2> QED BY <1>4, <2>1, <2>2, <2>3
<1>7. Engaged' = Engaged \ {t}
  BY <1>2, <1>6 DEF Engaged, TypeOK, WaitQueueTypeOK
<1>8. Cardinality(Engaged') = Cardinality(Engaged) - 1 /\ count' \in Nat
  <2>1. Cardinality(Engaged') = Cardinality(Engaged) - 1 /\ Cardinality(Engaged') \in Nat
    BY <1>3, <1>7, EngagedType, FS_RemoveElement, FS_CardinalityType
  <2> QED BY <1>2, <2>1
<1>9. MutualExclusion'
  BY <1>2, <1>3, <1>6 DEF MutualExclusion, Owners, TypeOK, WaitQueueTypeOK
<1>10. TypeOK' /\ InsideRuns' /\ OnlyDestroySendsAway'
  <2>1. TypeOK'
    BY <1>2, <1>5, <1>8 DEF TypeOK, WaitQueueInv
  <2>2. InsideRuns'
    BY <1>2, <1>6 DEF InsideRuns, TypeOK, WaitQueueTypeOK
  <2>3. OnlyDestroySendsAway'
    BY <1>2, <1>6 DEF OnlyDestroySendsAway, TypeOK, WaitQueueTypeOK
  <2> QED BY <2>1, <2>2, <2>3
<1>11. \A u \in Thread : holder' = u <=> pc'[u] = "inside"
  BY <1>2, <1>3, MutexAssumption DEF Owners, TypeOK
<1> QED BY <1>2, <1>5, <1>8, <1>9, <1>10, <1>11 DEF CountIsEngaged, WaitQueueInv

\* mutex_destroy(): whoever it sends away does not come to own the mutex.
LEMMA DestroyStep ==
  ASSUME IInv, NEW t \in Thread, mutex_destroy(t)
  PROVE  IInv'
<1> USE DEF IInv
<1>1. WaitQueueInv'
  BY WakeAllLemma, MutexAssumption DEF mutex_destroy, wait_queue_destroy, TypeOK, WaitQueueInv, wait, Status
<1>2. /\ magic' = FALSE /\ count' = 0 /\ pc' = [pc EXCEPT ![t] = "outside"] /\ UNCHANGED holder
      /\ wait_queue_wake_all(wait, "ERR_OBJECT_DESTROYED")
  BY DEF mutex_destroy, wait_queue_destroy
<1>3. \A u \in Thread : \/ state'[u] = state[u] /\ wait_queue_block_ret'[u] = wait_queue_block_ret[u]
                        \/ state[u] = "blocked" /\ wait_queue_block_ret'[u] = "ERR_OBJECT_DESTROYED"
  <2>1. \A i \in 1..Len(list[wait]) : state[list[wait][i]] = "blocked"
    BY MutexAssumption DEF QueuesHoldTheBlocked, wait
  <2> QED BY <1>2, <2>1 DEF wait_queue_wake_all, Woken
<1>4. TypeOK'
  <2>1. magic' \in BOOLEAN
    BY <1>2
  <2> QED BY <1>1, <1>2, <2>1 DEF TypeOK, WaitQueueInv
<1>5. InsideRuns'
  BY <1>2, <1>3 DEF InsideRuns, TypeOK
<1>6. MutualExclusion'
  BY <1>2, <1>3 DEF MutualExclusion, Owners, TypeOK
<1> QED BY <1>1, <1>2, <1>4, <1>5, <1>6 DEF WaitQueueInv, OnlyDestroySendsAway, CountIsEngaged

\* mutex_init() of a destroyed mutex that nobody uses any more.
LEMMA ReinitStep ==
  ASSUME IInv, NEW t \in Thread, mutex_init(t)
  PROVE  IInv'
<1> USE DEF IInv
<1>1. list' = list
  <2>1. list[wait] = <<>>
    <3>1. wait \in Queue /\ list[wait] \in Seq(Thread)
      BY MutexAssumption DEF wait, TypeOK, WaitQueueTypeOK
    <3>2. Len(list[wait]) = 0
      BY <3>1 DEF QueuesHoldTheBlocked, mutex_init
    <3> QED BY <3>1, <3>2
  <2> QED BY <2>1 DEF mutex_init, TypeOK, WaitQueueTypeOK
<1>2. Engaged' = {} /\ Owners' = {}
  BY DEF mutex_init, Engaged, Owners
<1>3. Cardinality(Engaged') = 0
  BY <1>2, FS_EmptySet
<1>4. TypeOK' /\ QueuesHoldTheBlocked'
  <2>1. magic' \in BOOLEAN
    BY DEF mutex_init
  <2>2. UNCHANGED wqvars /\ count' = 0 /\ holder' = NoThread /\ UNCHANGED pc
    BY <1>1 DEF mutex_init, wqvars
  <2>3. QueuesHoldTheBlocked' /\ WaitQueueTypeOK'
    BY <2>2 DEF wqvars, TypeOK, WaitQueueTypeOK, QueuesHoldTheBlocked
  <2> QED BY <2>1, <2>2, <2>3 DEF TypeOK
<1> QED BY <1>2, <1>3, <1>4, MutexAssumption
        DEF mutex_init, InsideRuns, OnlyDestroySendsAway, MutualExclusion, CountIsEngaged

\* The timeout of a timed acquire makes no owner and changes no count.
LEMMA TimeoutStep ==
  ASSUME IInv, NEW t \in Thread, AcquireTimeout(t)
  PROVE  IInv'
<1> USE DEF IInv
<1>1. WaitQueueInv' /\ UNCHANGED mvars
  BY TimeoutLemma DEF AcquireTimeout, TypeOK, WaitQueueInv
<1>2. \/ UNCHANGED <<state, wait_queue_block_ret>>
      \/ /\ state[t] = "blocked" /\ state' = [state EXCEPT ![t] = "ready"]
         /\ wait_queue_block_ret' = [wait_queue_block_ret EXCEPT ![t] = "ERR_TIMED_OUT"]
  BY WokenOne DEF AcquireTimeout, wait_queue_timeout_handler, thread_unblock_from_wait_queue, TypeOK
<1>3. Engaged' = Engaged /\ Owners' = Owners
  BY <1>1, <1>2 DEF Engaged, Owners, mvars, InsideRuns, TypeOK, WaitQueueTypeOK
<1>4. TypeOK' /\ InsideRuns' /\ OnlyDestroySendsAway'
  BY <1>1, <1>2 DEF TypeOK, WaitQueueInv, InsideRuns, OnlyDestroySendsAway, mvars, WaitQueueTypeOK
<1> QED BY <1>1, <1>3, <1>4 DEF MutualExclusion, CountIsEngaged, mvars, WaitQueueInv

\* Every operation of mutex.c preserves the inductive invariant.
THEOREM Invariance == Spec => []IInv
<1>1. IInv /\ [Next]_vars => IInv'
  <2> SUFFICES ASSUME IInv, [Next]_vars PROVE IInv'
    OBVIOUS
  <2>1. CASE UNCHANGED vars
    BY <2>1 DEF IInv, vars, mvars, wqvars, TypeOK, WaitQueueTypeOK, QueuesHoldTheBlocked, InsideRuns,
                OnlyDestroySendsAway, MutualExclusion, Owners, CountIsEngaged, Engaged
  <2>2. CASE Next
    BY <2>2, AcquireStep, AcquireReturnStep, ReleaseStep, TimeoutStep, DestroyStep, ReinitStep DEF Next, Step
  <2> QED BY <2>1, <2>2
<1> QED BY <1>1, InitInv, PTL DEF Spec

\* The fields of the mutex and of the waiting threads keep their types.
THEOREM TypeCorrect == Spec => []TypeOK
BY Invariance, PTL DEF IInv

\* mutex_acquire_timeout() and mutex_release() never let two threads in: at most one
\* thread is inside the mutex or has it handed over.
THEOREM Exclusion == Spec => []MutualExclusion
BY Invariance, PTL DEF IInv

\* m->count is the number of threads that own or wait for a live mutex, and m->holder
\* is the thread inside.
THEOREM Accounting == Spec => []CountIsEngaged
BY Invariance, PTL DEF IInv

\* The wait queue of the mutex holds exactly the blocked threads, each once.
THEOREM QueueCorrect == Spec => []QueuesHoldTheBlocked
BY Invariance, PTL DEF IInv
=============================================================================
