---------------------------- MODULE EventProofs ----------------------------
(***************************************************************************)
(* kernel/event.c behaves as if every call were one step, although         *)
(* event_unsignal() takes no lock, for any number of threads and interrupt *)
(* handlers and for both kinds of event.                                   *)
(***************************************************************************)
EXTENDS Event, WaitQueueProofs

\* The threads that the event keeps waiting.
Sleepers == {t \in Thread : state[t] = "blocked"}

\* The inductive invariant.  A call that is to set the signal of an auto-unsignal event found
\* nobody waiting, and thread_lock keeps it so; nobody sleeps on a signaled event.
IInv ==
  /\ WaitQueueInv /\ TypeOK
  /\ pc = "set" => Sleepers = {}
  /\ signaled /\ pc # "wake_all" => Sleepers = {}

\* The sleepers are the threads of the one wait queue.
LEMMA SleepersQueued ==
  ASSUME EventAssumption, WaitQueueInv
  PROVE  /\ wait \in Queue
         /\ Sleepers = {list[wait][i] : i \in 1..Len(list[wait])}
         /\ Sleepers = {} <=> list[wait] = <<>>
<1>1. wait \in Queue /\ \A q \in Queue : q = wait
  BY DEF EventAssumption, wait
<1>2. Sleepers = {list[wait][i] : i \in 1..Len(list[wait])}
  BY <1>1 DEF WaitQueueInv, WaitQueueTypeOK, QueuesHoldTheBlocked, Sleepers
<1>3. list[wait] \in Seq(Thread)
  BY <1>1 DEF WaitQueueInv, WaitQueueTypeOK
<1>4. Sleepers = {} <=> list[wait] = <<>>
  <2>1. CASE list[wait] = <<>>
    BY <1>2, <2>1
  <2>2. CASE list[wait] # <<>>
    <3>1. 1 \in 1..Len(list[wait])
      BY <1>3, <2>2
    <3> QED BY <1>2, <2>2, <3>1
  <2> QED BY <2>1, <2>2
<1> QED BY <1>1, <1>2, <1>4

\* event_init() is the initial state of the atomic event, and nobody waits.
LEMMA EventInit ==
  ASSUME EventAssumption, event_init
  PROVE  IInv /\ Abstract!Init
<1>1. WaitQueueInv
  BY InitLemma DEF event_init
<1>2. Sleepers = {} /\ {t \in Thread : state[t] = "blocked"} = {}
  BY DEF event_init, wait_queue_init, Sleepers
<1>3. TypeOK
  BY <1>1 DEF event_init, TypeOK, WaitQueueInv
<1>4. Abstract!Init
  BY <1>2 DEF event_init, Abstract!Init
<1> QED BY <1>1, <1>2, <1>3, <1>4 DEF IInv

\* The invariant stays, and the atomic event takes a step or none.
Simulates == IInv' /\ (Abstract!Next \/ UNCHANGED Abstract!vars)

\* A step that leaves the wait queue alone keeps it in order.
LEMMA QueueAlone ==
  ASSUME WaitQueueInv, UNCHANGED wqvars
  PROVE  WaitQueueInv' /\ Sleepers' = Sleepers
BY DEF WaitQueueInv, WaitQueueTypeOK, QueuesHoldTheBlocked, wqvars, Sleepers

\* A thread that waits goes past a signal, taking it along when the event is auto-unsignal, or
\* is kept waiting, or does not wait at all (event_wait_timeout).
LEMMA WaitStep ==
  ASSUME EventAssumption, IInv, NEW t \in Thread, NEW timeout \in Timeouts, event_wait_timeout(t, timeout)
  PROVE  Simulates
<1> USE DEF IInv, TypeOK
<1>1. t \notin Sleepers /\ thread_lock = "free" /\ pc = "idle" /\ t \in Actor /\ t # "free"
  BY DEF event_wait_timeout, Ready, Sleepers, Actor, EventAssumption
<1>2. CASE signaled /\ autounsignal /\ thread_lock' = t /\ pc' = "consume" /\ UNCHANGED wqvars
  <2>1. WaitQueueInv' /\ Sleepers' = Sleepers
    BY <1>2, QueueAlone
  <2>2. IInv'
    BY <1>1, <1>2, <2>1 DEF event_wait_timeout, WaitQueueInv
  <2>3. Abstract!Pass(t)
    BY <1>1, <1>2, <2>1 DEF event_wait_timeout, Abstract!Pass, Sleepers
  <2> QED BY <2>2, <2>3 DEF Simulates, Abstract!Next
<1>3. CASE ~signaled /\ wait_queue_block(t, wait, timeout = "finite") /\ UNCHANGED <<thread_lock, pc>>
  <2>1. WaitQueueInv'
    <3>1. (timeout = "finite") \in BOOLEAN /\ wait \in Queue /\ state[t] = "running"
      BY SleepersQueued DEF event_wait_timeout, Ready
    <3> QED BY <1>3, <3>1, BlockLemma
  <2>2. Sleepers' = Sleepers \cup {t}
    BY <1>3 DEF Sleepers, wait_queue_block, WaitQueueInv, WaitQueueTypeOK
  <2>3. IInv'
    BY <1>1, <1>3, <2>1 DEF event_wait_timeout, WaitQueueInv
  <2>4. Abstract!Wait(t)
    BY <1>1, <1>3, <2>2 DEF event_wait_timeout, Abstract!Wait, Sleepers
  <2> QED BY <2>3, <2>4 DEF Simulates, Abstract!Next
<1>4. CASE UNCHANGED <<wqvars, thread_lock, pc>>
  <2>1. WaitQueueInv' /\ Sleepers' = Sleepers
    BY <1>4, QueueAlone
  <2>2. IInv'
    BY <1>4, <2>1 DEF event_wait_timeout, WaitQueueInv
  <2>3. UNCHANGED Abstract!vars
    BY <1>4, <2>1 DEF event_wait_timeout, Abstract!vars, Sleepers
  <2> QED BY <2>2, <2>3 DEF Simulates
<1> QED BY <1>2, <1>3, <1>4 DEF event_wait_timeout

\* The signal that a thread took along is stored away: it was gone for everybody else before.
LEMMA ConsumeStep ==
  ASSUME IInv, event_wait_consume
  PROVE  Simulates
<1> USE DEF IInv, TypeOK
<1>1. WaitQueueInv' /\ Sleepers' = Sleepers
  BY QueueAlone DEF event_wait_consume
<1>2. IInv'
  BY <1>1 DEF event_wait_consume, WaitQueueInv
<1>3. UNCHANGED Abstract!vars
  BY <1>1 DEF event_wait_consume, Abstract!vars, Sleepers
<1> QED BY <1>2, <1>3 DEF Simulates

\* A signal of an auto-unsignal event lets one thread go; of any other event, all of them
\* (event_signal).
LEMMA SignalStep ==
  ASSUME EventAssumption, IInv, NEW a \in Actor, event_signal(a)
  PROVE  Simulates
<1> USE DEF IInv, TypeOK
<1>1. thread_lock = "free" /\ pc = "idle" /\ a # "free" /\ wait \in Queue
  BY SleepersQueued DEF event_signal, Actor, EventAssumption
<1>2. CASE signaled /\ UNCHANGED <<wqvars, signaled, thread_lock, pc>>
  <2>1. WaitQueueInv' /\ Sleepers' = Sleepers
    BY <1>2, QueueAlone
  <2>2. IInv'
    BY <1>2, <2>1 DEF event_signal, WaitQueueInv
  <2>3. UNCHANGED Abstract!vars
    BY <1>2, <2>1 DEF event_signal, Abstract!vars, Sleepers
  <2> QED BY <2>2, <2>3 DEF Simulates
<1>3. CASE /\ ~signaled /\ autounsignal /\ UNCHANGED signaled
           /\ list[wait] = <<>> /\ UNCHANGED wqvars /\ thread_lock' = a /\ pc' = "set"
  <2>1. WaitQueueInv' /\ Sleepers' = Sleepers /\ Sleepers = {}
    BY <1>3, QueueAlone, SleepersQueued
  <2>2. IInv'
    BY <1>1, <1>3, <2>1 DEF event_signal, WaitQueueInv
  <2>3. UNCHANGED Abstract!vars
    BY <1>1, <1>3, <2>1 DEF event_signal, Abstract!vars, Sleepers
  <2> QED BY <2>2, <2>3 DEF Simulates
<1>4. CASE /\ ~signaled /\ autounsignal /\ UNCHANGED signaled
           /\ list[wait] # <<>> /\ wait_queue_wake_one(wait, "NO_ERROR") /\ UNCHANGED <<thread_lock, pc>>
  <2>1. WaitQueueInv'
    BY <1>1, <1>4, WakeOneLemma DEF Status
  <2>2. PICK h \in Thread : h = Head(list[wait]) /\ state[h] = "blocked"
    BY <1>1, <1>4 DEF WaitQueueInv, WaitQueueTypeOK, QueuesHoldTheBlocked
  <2>3. state' = [state EXCEPT ![h] = "ready"]
    BY <1>4, <2>2, WokenOne DEF wait_queue_wake_one, WaitQueueInv
  <2>4. h \in Sleepers /\ Sleepers' = Sleepers \ {h}
    BY <2>2, <2>3 DEF Sleepers, WaitQueueInv, WaitQueueTypeOK
  <2>5. IInv'
    BY <1>1, <1>4, <2>1 DEF event_signal, WaitQueueInv
  <2>6. Abstract!SignalOne(h)
    BY <1>1, <1>4, <2>4 DEF event_signal, Abstract!SignalOne, Sleepers
  <2> QED BY <2>5, <2>6 DEF Simulates, Abstract!Next
<1>5. CASE ~signaled /\ ~autounsignal /\ signaled' = TRUE /\ thread_lock' = a /\ pc' = "wake_all" /\ UNCHANGED wqvars
  <2>1. WaitQueueInv' /\ Sleepers' = Sleepers
    BY <1>5, QueueAlone
  <2>2. IInv'
    BY <1>1, <1>5, <2>1 DEF event_signal, WaitQueueInv
  <2>3. Abstract!Signal
    BY <1>1, <1>5 DEF event_signal, Abstract!Signal
  <2> QED BY <2>2, <2>3 DEF Simulates, Abstract!Next
<1>6. \/ signaled /\ UNCHANGED <<wqvars, signaled, thread_lock, pc>>
      \/ /\ ~signaled /\ autounsignal /\ UNCHANGED signaled /\ wait_queue_wake_one(wait, "NO_ERROR")
         /\ IF list[wait] = <<>> THEN thread_lock' = a /\ pc' = "set" ELSE UNCHANGED <<thread_lock, pc>>
      \/ ~signaled /\ ~autounsignal /\ signaled' = TRUE /\ thread_lock' = a /\ pc' = "wake_all" /\ UNCHANGED wqvars
  BY DEF event_signal
<1>7. list[wait] = <<>> /\ wait_queue_wake_one(wait, "NO_ERROR") => UNCHANGED wqvars
  BY DEF wait_queue_wake_one
<1> HIDE DEF IInv, TypeOK
<1> QED BY <1>2, <1>3, <1>4, <1>5, <1>6, <1>7

\* The signal of an auto-unsignal event is set while still nobody waits.
LEMMA SetStep ==
  ASSUME IInv, event_signal_set
  PROVE  Simulates
<1> USE DEF IInv, TypeOK
<1>1. WaitQueueInv' /\ Sleepers' = Sleepers /\ Sleepers = {}
  BY QueueAlone DEF event_signal_set
<1>2. IInv'
  BY <1>1 DEF event_signal_set, WaitQueueInv
<1>3. Abstract!Signal
  BY <1>1 DEF event_signal_set, Abstract!Signal, Sleepers
<1> QED BY <1>2, <1>3 DEF Simulates, Abstract!Next

\* Everybody is woken who did not wait for the atomic event any more.
LEMMA WakeAllStep ==
  ASSUME EventAssumption, IInv, event_signal_wake_all
  PROVE  Simulates
<1> USE DEF IInv, TypeOK
<1>1. WaitQueueInv'
  BY SleepersQueued, WakeAllLemma DEF event_signal_wake_all, Status
<1>2. Sleepers' = {}
  <2>1. Sleepers = {list[wait][i] : i \in 1..Len(list[wait])}
    BY SleepersQueued
  <2>2. \A t \in Thread : state'[t] = IF t \in Sleepers THEN "ready" ELSE state[t]
    BY <2>1 DEF event_signal_wake_all, wait_queue_wake_all, Woken
  <2> QED BY <2>2 DEF Sleepers
<1>3. IInv'
  BY <1>1, <1>2 DEF event_signal_wake_all, WaitQueueInv
<1>4. UNCHANGED Abstract!vars
  BY <1>2 DEF event_signal_wake_all, Abstract!vars, Sleepers
<1> QED BY <1>3, <1>4 DEF Simulates

\* The store of event_unsignal() falls anywhere, and is a step of its own.
LEMMA UnsignalStep ==
  ASSUME IInv, NEW a \in Actor, event_unsignal(a)
  PROVE  Simulates
<1> USE DEF IInv, TypeOK
<1>1. WaitQueueInv' /\ Sleepers' = Sleepers
  BY QueueAlone DEF event_unsignal
<1>2. IInv'
  BY <1>1 DEF event_unsignal, WaitQueueInv
<1>3. Abstract!Unsignal
  BY <1>1 DEF event_unsignal, Abstract!Unsignal, Sleepers
<1> QED BY <1>2, <1>3 DEF Simulates, Abstract!Next

\* A destroyed event keeps nobody waiting.
LEMMA DestroyStep ==
  ASSUME EventAssumption, IInv, NEW t \in Thread, event_destroy(t)
  PROVE  Simulates
<1> USE DEF IInv, TypeOK
<1>1. WaitQueueInv'
  BY SleepersQueued, WakeAllLemma DEF event_destroy, wait_queue_destroy, Status
<1>2. Sleepers' = {}
  <2>1. Sleepers = {list[wait][i] : i \in 1..Len(list[wait])}
    BY SleepersQueued
  <2>2. \A u \in Thread : state'[u] = IF u \in Sleepers THEN "ready" ELSE state[u]
    BY <2>1 DEF event_destroy, wait_queue_destroy, wait_queue_wake_all, Woken
  <2> QED BY <2>2 DEF Sleepers
<1>3. IInv'
  BY <1>1, <1>2 DEF event_destroy, WaitQueueInv
<1>4. Abstract!Destroy
  BY <1>2 DEF event_destroy, Abstract!Destroy, Sleepers
<1> QED BY <1>3, <1>4 DEF Simulates, Abstract!Next

\* A timeout ends the wait of one thread, unless it was over already.
LEMMA TimeoutStep ==
  ASSUME EventAssumption, IInv, NEW t \in Thread, WaitTimeout(t)
  PROVE  Simulates
<1> USE DEF IInv, TypeOK
<1>1. WaitQueueInv' /\ pc = "idle"
  BY TimeoutLemma DEF WaitTimeout
<1>2. CASE thread_unblock_from_wait_queue(t, "ERR_TIMED_OUT")
  <2>1. state[t] = "blocked" /\ state' = [state EXCEPT ![t] = "ready"]
    BY <1>2, WokenOne DEF thread_unblock_from_wait_queue, WaitQueueInv
  <2>2. t \in Sleepers /\ Sleepers' = Sleepers \ {t}
    BY <2>1 DEF Sleepers, WaitQueueInv, WaitQueueTypeOK
  <2>3. IInv'
    BY <1>1, <2>2 DEF WaitTimeout, WaitQueueInv
  <2>4. Abstract!Expire(t)
    BY <1>1, <2>2 DEF WaitTimeout, Abstract!Expire, Sleepers
  <2> QED BY <2>3, <2>4 DEF Simulates, Abstract!Next
<1>3. CASE UNCHANGED state
  <2>1. Sleepers' = Sleepers
    BY <1>3 DEF Sleepers
  <2>2. IInv'
    BY <1>1, <2>1 DEF WaitTimeout, WaitQueueInv
  <2>3. UNCHANGED Abstract!vars
    BY <2>1 DEF WaitTimeout, Abstract!vars, Sleepers
  <2> QED BY <2>2, <2>3 DEF Simulates
<1> QED BY <1>2, <1>3 DEF WaitTimeout, wait_queue_timeout_handler

\* A thread that returns from its wait was let go before.
LEMMA ReturnStep ==
  ASSUME IInv, NEW t \in Thread, event_wait_return(t)
  PROVE  Simulates
<1> USE DEF IInv, TypeOK
<1>1. WaitQueueInv' /\ Sleepers' = Sleepers
  BY ReturnLemma DEF event_wait_return, wait_queue_return, Sleepers, WaitQueueInv, WaitQueueTypeOK
<1>2. IInv'
  BY <1>1 DEF event_wait_return, WaitQueueInv
<1>3. UNCHANGED Abstract!vars
  BY <1>1 DEF event_wait_return, Abstract!vars, Sleepers
<1> QED BY <1>2, <1>3 DEF Simulates

\* Every step of event.c keeps the invariant and is a step of the atomic event, or none.
LEMMA NextStep ==
  ASSUME EventAssumption, IInv, [Next]_vars
  PROVE  Simulates
<1>1. CASE UNCHANGED vars
  <2>1. WaitQueueInv' /\ Sleepers' = Sleepers
    BY <1>1, QueueAlone DEF vars, IInv
  <2>2. IInv'
    BY <1>1, <2>1 DEF vars, IInv, TypeOK, WaitQueueInv
  <2>3. UNCHANGED Abstract!vars
    BY <1>1, <2>1 DEF vars, Abstract!vars, Sleepers
  <2> QED BY <2>2, <2>3 DEF Simulates
<1>2. CASE Next
  <2>1. CASE event_wait_consume \/ event_signal_set \/ event_signal_wake_all
    BY <2>1, ConsumeStep, SetStep, WakeAllStep
  <2>2. CASE \E a \in Actor : event_signal(a) \/ event_unsignal(a)
    BY <2>2, SignalStep, UnsignalStep
  <2>3. CASE \E t \in Thread : \/ \E timeout \in Timeouts : event_wait_timeout(t, timeout)
                               \/ event_wait_return(t) \/ WaitTimeout(t) \/ event_destroy(t)
    BY <2>3, WaitStep, ReturnStep, TimeoutStep, DestroyStep
  <2> QED BY <1>2, <2>1, <2>2, <2>3 DEF Next
<1> QED BY <1>1, <1>2

\* The invariant holds in every state of an event.
THEOREM Invariance ==
  ASSUME EventAssumption
  PROVE  Spec => []IInv
<1>1. event_init => IInv
  BY EventInit
<1>2. IInv /\ [Next]_vars => IInv'
  BY NextStep DEF Simulates
<1> QED BY <1>1, <1>2, PTL DEF Spec

\* No thread sleeps on a signaled event, except while event_signal() is waking it.
THEOREM NobodySleepsOnASignal ==
  ASSUME EventAssumption
  PROVE  Spec => []NoSleeperOnSignaledEvent
<1>1. IInv => NoSleeperOnSignaledEvent
  BY SleepersQueued DEF IInv, NoSleeperOnSignaledEvent
<1> QED BY <1>1, Invariance, PTL

\* event.c implements the atomic event: a signal of an auto-unsignal event lets exactly one
\* thread through and one of any other event lets everybody through, although event_unsignal()
\* may store between the read and the write of another call.
THEOREM Refinement ==
  ASSUME EventAssumption
  PROVE  Spec => ImplementsAtomicEvent
<1>1. event_init => Abstract!Init
  BY EventInit
<1>2. IInv /\ [Next]_vars => [Abstract!Next]_(Abstract!vars)
  BY NextStep DEF Simulates
<1> QED BY <1>1, <1>2, Invariance, PTL DEF Spec, ImplementsAtomicEvent, Abstract!Spec
=============================================================================
