-------------------------- MODULE ThreadLifeProofs --------------------------
(***************************************************************************)
(* A thread of kernel/thread.c that has exited is reaped once, by the one  *)
(* thread that may join it or by its own exit, for any number of threads   *)
(* and any timeouts, as long as the pointer to a thread stays with the     *)
(* thread that created it.                                                 *)
(***************************************************************************)
EXTENDS ThreadLife, WaitQueueProofs, FiniteSetTheorems

\* A thread's pointer is with one other thread at most, and only while it may be used: not for
\* a detached thread, and not for one that is being reaped.
PointersAreSole ==
  \A t \in Thread :
    /\ \A c, d \in handle[t] : c = d
    /\ handle[t] # {} => magic[t] /\ ~detached[t]

\* What the life of a thread says about its memory.
LifeAndMemory ==
  \A t \in Thread :
    /\ life[t] = "none" <=> memory[t] = "free"
    /\ memory[t] = "delayed" => life[t] = "death" /\ ~magic[t]
    /\ life[t] \in {"suspended", "alive"} => magic[t]
    /\ magic[t] => memory[t] = "held"

\* Where a thread is in its own code: in thread_exit() after its death, in any other operation
\* only alive, and off the processor only in thread_join(), for the thread it joins.
OperationsOfTheLiving ==
  \A c \in Thread :
    /\ pc[c].op = "none" => pc[c] = Idle
    /\ pc[c].op = "exit" => life[c] \in {"death", "none"} /\ (~SMP => life[c] = "death")
    /\ pc[c].op \in {"join", "free", "detach_join"} => life[c] = "alive"
    /\ state[c] # "running" <=> pc[c].op = "join"
    /\ state[c] = "blocked" => blocking_wait_queue[c] = pc[c].of

\* A joiner still has its pointer.  It sleeps for a thread that lives; it is woken by the death
\* of that thread or by its timeout.
JoinersHoldThePointer ==
  \A c \in Thread :
    /\ pc[c].op \in {"join", "detach_join"} => c \in handle[pc[c].of]
    /\ pc[c].op = "detach_join" => life[pc[c].of] = "death"
    /\ state[c] = "blocked" => life[pc[c].of] # "death"
    /\ state[c] = "ready" => \/ wait_queue_block_ret[c] = "ERR_TIMED_OUT"
                             \/ wait_queue_block_ret[c] = "NO_ERROR" /\ life[pc[c].of] = "death"

\* One thread, and no more, frees what a dead thread has left, once it is out of the list.
FreersAreSole ==
  \A t \in Thread :
    /\ (\E c \in Thread : pc[c] = In("free", t)) <=> life[t] = "death" /\ ~magic[t] /\ memory[t] = "held"
    /\ \A c, d \in Thread : pc[c] = In("free", t) /\ pc[d] = In("free", t) => c = d

\* The inductive invariant.
IInv ==
  /\ WaitQueueInv /\ TypeOK
  /\ PointersAreSole /\ LifeAndMemory /\ OperationsOfTheLiving /\ JoinersHoldThePointer /\ FreersAreSole

\* A step that leaves the wait queues alone keeps them in order.
LEMMA QueueAlone ==
  ASSUME WaitQueueInv, UNCHANGED wqvars
  PROVE  WaitQueueInv'
BY DEF WaitQueueInv, WaitQueueTypeOK, QueuesHoldTheBlocked, wqvars

\* A stuttering step keeps the invariant.
LEMMA Stutter ==
  ASSUME IInv, UNCHANGED vars
  PROVE  IInv'
<1> USE DEF IInv, vars, lvars
<1>1. WaitQueueInv'
  BY QueueAlone, Zenon
<1>2. TypeOK'
  BY <1>1, Zenon DEF TypeOK, WaitQueueInv
<1>3. PointersAreSole' /\ LifeAndMemory' /\ FreersAreSole'
  BY DEF PointersAreSole, LifeAndMemory, FreersAreSole
<1>4. OperationsOfTheLiving' /\ JoinersHoldThePointer'
  BY Zenon DEF OperationsOfTheLiving, JoinersHoldThePointer, wqvars
<1> QED BY <1>1, <1>2, <1>3, <1>4, Zenon

\* In the first state only the bootstrap thread exists.
LEMMA LifeInit ==
  ASSUME ThreadLifeAssumption, Init
  PROVE  IInv
<1>1. WaitQueueInv
  BY InitLemma, Zenon DEF Init
<1>2. TypeOK
  BY <1>1, Zenon DEF Init, TypeOK, WaitQueueInv, ThreadLifeAssumption, Idle, In, Op
<1>3. PointersAreSole /\ LifeAndMemory
  BY Zenon DEF Init, PointersAreSole, LifeAndMemory
<1>4. OperationsOfTheLiving /\ JoinersHoldThePointer
  BY Zenon DEF Init, wait_queue_init, OperationsOfTheLiving, JoinersHoldThePointer, Idle, In
<1>5. FreersAreSole
  BY Zenon DEF Init, FreersAreSole, Idle, In
<1> QED BY <1>1, <1>2, <1>3, <1>4, <1>5, Zenon DEF IInv

\* An allocation frees what exited threads have left; they were dead and out of the list.
LEMMA MallocStep ==
  ASSUME ThreadLifeAssumption, IInv, NEW c \in Thread, malloc(c)
  PROVE  IInv'
<1> USE DEF IInv, malloc, delayed_freed_memory, delayed_freed_life
<1>1. WaitQueueInv'
  BY QueueAlone, Zenon
<1>2. TypeOK'
  BY <1>1, Zenon DEF TypeOK, WaitQueueInv
<1>3. PointersAreSole' /\ LifeAndMemory'
  BY DEF TypeOK, PointersAreSole, LifeAndMemory
<1>4. OperationsOfTheLiving'
  BY Zenon DEF TypeOK, OperationsOfTheLiving, LifeAndMemory, LockFree, wqvars
<1>5. JoinersHoldThePointer'
  <2>1. \A d \in Thread : pc[d].op \in {"join", "detach_join"} => memory[pc[d].of] = "held" /\ pc[d].of \in Thread
    BY DEF TypeOK, JoinersHoldThePointer, PointersAreSole, LifeAndMemory
  <2>2. \A d \in Thread : pc[d].op \in {"join", "detach_join"} => life'[pc[d].of] = life[pc[d].of]
    BY <2>1, Zenon DEF TypeOK
  <2>3. UNCHANGED <<state, wait_queue_block_ret, pc, handle>>
    BY Zenon DEF wqvars
  <2>4. \A d \in Thread : state[d] \in {"running", "ready", "blocked"}
    BY Zenon DEF WaitQueueInv, WaitQueueTypeOK
  <2> HIDE DEF malloc, delayed_freed_memory, delayed_freed_life
  <2> QED BY <2>2, <2>3, <2>4 DEF JoinersHoldThePointer, OperationsOfTheLiving
<1>6. FreersAreSole'
  BY DEF TypeOK, FreersAreSole
<1> QED BY <1>1, <1>2, <1>3, <1>4, <1>5, <1>6, Zenon

\* A new thread takes memory that nobody holds: no thread waits for it, is about to free it or
\* runs on it.
LEMMA CreateStep ==
  ASSUME ThreadLifeAssumption, ~Shared, IInv, NEW c \in Thread, NEW t \in Thread, NEW H \in SUBSET Thread,
         thread_create(c, t, H)
  PROVE  IInv'
<1> USE DEF IInv
<1>1. /\ life[c] = "alive" /\ pc[c] = Idle /\ H = {c} /\ memory[t] # "held" /\ t # c
      /\ \A d \in Thread : pc[d].op # "exit"
  BY Zenon DEF thread_create, Runs, LockFree, LifeAndMemory
<1>2. /\ memory' = [d \in Thread |-> IF d = t THEN "held" ELSE IF memory[d] = "delayed" THEN "free" ELSE memory[d]]
      /\ life' = [d \in Thread |-> IF d = t THEN "suspended" ELSE IF memory[d] = "delayed" THEN "none" ELSE life[d]]
      /\ detached' = [detached EXCEPT ![t] = FALSE] /\ magic' = [magic EXCEPT ![t] = TRUE]
      /\ thread_list' = thread_list \cup {t} /\ handle' = [handle EXCEPT ![t] = {c}]
      /\ UNCHANGED <<state, blocking_wait_queue, timer, pc>>
      /\ wait_queue_block_ret' = [wait_queue_block_ret EXCEPT ![t] = "NO_ERROR"]
  BY <1>1, Zenon DEF thread_create, delayed_freed_memory, delayed_freed_life
<1>3. \A d \in Thread : /\ pc[d].of \in Thread
                        /\ state[d] \in {"running", "ready", "blocked"}
                        /\ pc[d].op \in {"join", "detach_join"} => pc[d].of # t /\ memory[pc[d].of] = "held"
                        /\ pc[d] # In("free", t)
  BY <1>1 DEF TypeOK, WaitQueueInv, WaitQueueTypeOK, JoinersHoldThePointer, PointersAreSole, LifeAndMemory, FreersAreSole
<1>4. t \in Queue /\ list[t] = <<>> /\ state[t] = "running"
  <2>1. t \in Queue /\ list[t] \in Seq(Thread)
    BY Zenon DEF ThreadLifeAssumption, WaitQueueInv, WaitQueueTypeOK
  <2>2. ASSUME NEW i \in 1..Len(list[t])
        PROVE  FALSE
    <3>1. PICK d \in Thread : d = list[t][i]
      BY <2>1
    <3>2. state[d] = "blocked" /\ blocking_wait_queue[d] = t
      BY <2>1, <3>1, Zenon DEF WaitQueueInv, QueuesHoldTheBlocked
    <3>3. pc[d].op = "join" /\ pc[d].of = t
      BY <3>2, Zenon DEF OperationsOfTheLiving
    <3> QED BY <1>3, <3>3, Zenon
  <2>3. pc[t].op # "join"
    BY <1>1, Zenon DEF OperationsOfTheLiving, LifeAndMemory
  <2> QED BY <2>1, <2>2, <2>3 DEF OperationsOfTheLiving
<1>5. WaitQueueInv'
  <2>1. list' = list
    BY <1>4, Zenon DEF thread_create, WaitQueueInv, WaitQueueTypeOK
  <2>2. WaitQueueTypeOK'
    BY <1>2, <2>1, Zenon DEF WaitQueueInv, WaitQueueTypeOK, Status
  <2>3. QueuesHoldTheBlocked'
    BY <1>2, <2>1 DEF WaitQueueInv, QueuesHoldTheBlocked
  <2> QED BY <2>2, <2>3, Zenon DEF WaitQueueInv
<1>6. TypeOK'
  BY <1>2, <1>5, Zenon DEF TypeOK, WaitQueueInv
<1>7. PointersAreSole' /\ LifeAndMemory'
  BY <1>1, <1>2 DEF TypeOK, PointersAreSole, LifeAndMemory
<1>8. OperationsOfTheLiving'
  BY <1>1, <1>2, <1>3 DEF TypeOK, OperationsOfTheLiving, LifeAndMemory
<1>9. JoinersHoldThePointer'
  <2>1. \A d \in Thread : pc[d].op \in {"join", "detach_join"} => life'[pc[d].of] = life[pc[d].of] /\ handle'[pc[d].of] = handle[pc[d].of]
    <3> SUFFICES ASSUME NEW d \in Thread, pc[d].op \in {"join", "detach_join"}
                 PROVE  life'[pc[d].of] = life[pc[d].of] /\ handle'[pc[d].of] = handle[pc[d].of]
      BY Zenon
    <3>1. pc[d].of \in Thread /\ pc[d].of # t /\ memory[pc[d].of] = "held"
      BY <1>3, Zenon
    <3>2. \A u \in Thread : u # t /\ memory[u] = "held" => life'[u] = life[u] /\ handle'[u] = handle[u]
      BY <1>2, Zenon DEF TypeOK
    <3> QED BY <3>1, <3>2, Zenon
  <2>2. \A d \in Thread : state[d] # "running" => wait_queue_block_ret'[d] = wait_queue_block_ret[d]
    BY <1>2, <1>4, Zenon DEF WaitQueueInv, WaitQueueTypeOK
  <2> SUFFICES ASSUME NEW d \in Thread
               PROVE  /\ pc[d].op \in {"join", "detach_join"} => d \in handle'[pc[d].of]
                      /\ pc[d].op = "detach_join" => life'[pc[d].of] = "death"
                      /\ state[d] = "blocked" => life'[pc[d].of] # "death"
                      /\ state[d] = "ready" => \/ wait_queue_block_ret'[d] = "ERR_TIMED_OUT"
                                               \/ wait_queue_block_ret'[d] = "NO_ERROR" /\ life'[pc[d].of] = "death"
    BY <1>2 DEF JoinersHoldThePointer
  <2> QED BY <1>2, <1>3, <2>1, <2>2 DEF JoinersHoldThePointer, OperationsOfTheLiving
<1>10. FreersAreSole'
  BY <1>1, <1>2, <1>3 DEF TypeOK, FreersAreSole
<1> QED BY <1>5, <1>6, <1>7, <1>8, <1>9, <1>10, Zenon

\* A suspended thread starts to run.
LEMMA ResumeStep ==
  ASSUME ThreadLifeAssumption, IInv, NEW c \in Thread, NEW t \in Thread, thread_resume(c, t)
  PROVE  IInv'
<1> USE DEF IInv, thread_resume
<1>1. WaitQueueInv'
  BY QueueAlone, Zenon
<1>2. TypeOK'
  BY <1>1, Zenon DEF TypeOK, WaitQueueInv
<1>3. PointersAreSole' /\ LifeAndMemory' /\ FreersAreSole'
  BY DEF TypeOK, PointersAreSole, LifeAndMemory, FreersAreSole
<1>4. OperationsOfTheLiving'
  BY Zenon DEF TypeOK, OperationsOfTheLiving, LockFree, wqvars
<1>5. JoinersHoldThePointer'
  BY Zenon DEF TypeOK, JoinersHoldThePointer, wqvars
<1> QED BY <1>1, <1>2, <1>3, <1>4, <1>5, Zenon

\* What the holder of a pointer finds: a thread that is there, and that only it may free.
LEMMA HolderAlone ==
  ASSUME IInv, NEW c \in Thread, NEW t \in Thread, c \in handle[t]
  PROVE  /\ handle[t] = {c} /\ magic[t] /\ ~detached[t] /\ memory[t] = "held" /\ life[t] # "none"
         /\ \A d \in Thread : /\ d # c /\ pc[d].op \in {"join", "detach_join"} => pc[d].of # t
                              /\ pc[d] # In("free", t)
BY DEF IInv, TypeOK, PointersAreSole, LifeAndMemory, JoinersHoldThePointer, FreersAreSole

\* Reaping takes a dead thread from the list and leaves its memory to the one who reaps it.
LEMMA ReapStep ==
  ASSUME ThreadLifeAssumption, IInv, NEW c \in Thread, NEW t \in Thread,
         c \in handle[t], life[t] = "death", life[c] = "alive", pc[c].op # "free",
         Reap(c, t), WaitQueueInv',
         state'[c] = "running" /\ \A d \in Thread \ {c} : state'[d] = state[d],
         UNCHANGED <<blocking_wait_queue, wait_queue_block_ret>>
  PROVE  IInv'
<1> USE DEF IInv
<1>1. /\ handle[t] = {c} /\ magic[t] /\ ~detached[t] /\ memory[t] = "held"
      /\ \A d \in Thread : /\ d # c /\ pc[d].op \in {"join", "detach_join"} => pc[d].of # t
                           /\ pc[d] # In("free", t)
  BY HolderAlone, Zenon
<1>2. /\ thread_list' = thread_list \ {t} /\ magic' = [magic EXCEPT ![t] = FALSE]
      /\ pc' = [pc EXCEPT ![c] = In("free", t)] /\ handle' = [handle EXCEPT ![t] = @ \ {c}]
      /\ UNCHANGED <<life, detached, memory>>
  BY Zenon DEF Reap, Drop
<1>3. TypeOK'
  BY <1>2, Zenon DEF TypeOK, WaitQueueInv, In, Op
<1>4. PointersAreSole' /\ LifeAndMemory'
  BY <1>1, <1>2 DEF TypeOK, PointersAreSole, LifeAndMemory
<1>5. /\ pc'[c] = In("free", t) /\ pc'[c].op = "free" /\ pc'[c].of = t
      /\ \A d \in Thread \ {c} : pc'[d] = pc[d]
  BY <1>2, Zenon DEF TypeOK, In
<1>6. OperationsOfTheLiving'
  <2> SUFFICES ASSUME NEW d \in Thread
               PROVE  OperationsOfTheLiving!(d)'
    BY Zenon DEF OperationsOfTheLiving
  <2>1. CASE d = c
    BY <1>2, <1>5, <2>1, Zenon
  <2>2. CASE d # c
    BY <1>2, <1>5, <2>2 DEF OperationsOfTheLiving
  <2> QED BY <2>1, <2>2, Zenon
<1>7. JoinersHoldThePointer'
  <2> SUFFICES ASSUME NEW d \in Thread
               PROVE  JoinersHoldThePointer!(d)'
    BY Zenon DEF JoinersHoldThePointer
  <2>1. CASE d = c
    BY <1>5, <2>1, Zenon
  <2>2. CASE d # c
    <3>1. pc[d].op \in {"join", "detach_join"} => handle'[pc[d].of] = handle[pc[d].of]
      BY <1>1, <1>2, <2>2, Zenon DEF TypeOK
    <3> QED BY <1>2, <1>5, <2>2, <3>1 DEF JoinersHoldThePointer
  <2> QED BY <2>1, <2>2, Zenon
<1>8. FreersAreSole'
  <2>1. \A u \in Thread : In("free", t) = In("free", u) => t = u
    BY Zenon DEF In
  <2>2. \A u \in Thread : pc[c] # In("free", u)
    BY DEF In
  <2> QED BY <1>1, <1>2, <1>5, <2>1, <2>2 DEF TypeOK, FreersAreSole
<1> QED BY <1>3, <1>4, <1>6, <1>7, <1>8, Zenon

\* A thread leaves an operation in which it had nothing to free.
LEMMA IdleStep ==
  ASSUME ThreadLifeAssumption, IInv, NEW c \in Thread, pc[c].op # "free",
         pc' = [pc EXCEPT ![c] = Idle], UNCHANGED <<life, detached, magic, thread_list, memory, handle>>,
         WaitQueueInv', state'[c] = "running" /\ \A d \in Thread \ {c} : state'[d] = state[d],
         UNCHANGED <<blocking_wait_queue, wait_queue_block_ret>>
  PROVE  IInv'
<1> USE DEF IInv
<1>1. TypeOK'
  BY Zenon DEF TypeOK, WaitQueueInv, Idle, In, Op, ThreadLifeAssumption
<1>2. PointersAreSole' /\ LifeAndMemory'
  BY DEF PointersAreSole, LifeAndMemory
<1>3. pc'[c] = Idle /\ pc'[c].op = "none" /\ \A d \in Thread \ {c} : pc'[d] = pc[d]
  BY Zenon DEF TypeOK, Idle, In
<1>4. OperationsOfTheLiving'
  <2> SUFFICES ASSUME NEW d \in Thread
               PROVE  OperationsOfTheLiving!(d)'
    BY Zenon DEF OperationsOfTheLiving
  <2>1. CASE d = c
    BY <1>3, <2>1, Zenon
  <2>2. CASE d # c
    BY <1>3, <2>2 DEF OperationsOfTheLiving
  <2> QED BY <2>1, <2>2, Zenon
<1>5. JoinersHoldThePointer'
  <2> SUFFICES ASSUME NEW d \in Thread
               PROVE  JoinersHoldThePointer!(d)'
    BY Zenon DEF JoinersHoldThePointer
  <2>1. CASE d = c
    BY <1>3, <2>1, Zenon
  <2>2. CASE d # c
    BY <1>3, <2>2 DEF JoinersHoldThePointer
  <2> QED BY <2>1, <2>2, Zenon
<1>6. FreersAreSole'
  <2>1. \A u \in Thread : pc[c] # In("free", u) /\ pc'[c] # In("free", u)
    BY <1>3 DEF In
  <2> QED BY <1>3, <2>1 DEF FreersAreSole
<1> QED BY <1>1, <1>2, <1>4, <1>5, <1>6, Zenon

\* A thread goes to sleep in thread_join() for a thread that lives.
LEMMA SleepStep ==
  ASSUME ThreadLifeAssumption, IInv, NEW c \in Thread, NEW t \in Thread, NEW finite \in BOOLEAN,
         c \in handle[t], life[t] # "death", life[c] = "alive", state[c] = "running", pc[c].op # "free",
         wait_queue_block(c, t, finite),
         pc' = [pc EXCEPT ![c] = In("join", t)], UNCHANGED <<life, detached, magic, thread_list, memory, handle>>
  PROVE  IInv'
<1> USE DEF IInv
<1>1. WaitQueueInv'
  BY BlockLemma, Zenon DEF ThreadLifeAssumption
<1>2. TypeOK'
  BY <1>1, Zenon DEF TypeOK, WaitQueueInv, In, Op
<1>3. PointersAreSole' /\ LifeAndMemory'
  BY DEF PointersAreSole, LifeAndMemory
<1>4. /\ pc'[c] = In("join", t) /\ pc'[c].op = "join" /\ pc'[c].of = t
      /\ \A d \in Thread \ {c} : pc'[d] = pc[d]
  BY Zenon DEF TypeOK, In
<1>5. /\ state'[c] = "blocked" /\ blocking_wait_queue'[c] = t
      /\ \A d \in Thread \ {c} : /\ state'[d] = state[d] /\ blocking_wait_queue'[d] = blocking_wait_queue[d]
                                 /\ wait_queue_block_ret'[d] = wait_queue_block_ret[d]
  BY Zenon DEF wait_queue_block, WaitQueueInv, WaitQueueTypeOK
<1>6. OperationsOfTheLiving'
  <2> SUFFICES ASSUME NEW d \in Thread
               PROVE  OperationsOfTheLiving!(d)'
    BY Zenon DEF OperationsOfTheLiving
  <2>1. CASE d = c
    BY <1>4, <1>5, <2>1, Zenon
  <2>2. CASE d # c
    BY <1>4, <1>5, <2>2 DEF OperationsOfTheLiving
  <2> QED BY <2>1, <2>2, Zenon
<1>7. JoinersHoldThePointer'
  <2> SUFFICES ASSUME NEW d \in Thread
               PROVE  JoinersHoldThePointer!(d)'
    BY Zenon DEF JoinersHoldThePointer
  <2>1. CASE d = c
    BY <1>4, <1>5, <2>1, Zenon
  <2>2. CASE d # c
    BY <1>4, <1>5, <2>2 DEF JoinersHoldThePointer
  <2> QED BY <2>1, <2>2, Zenon
<1>8. FreersAreSole'
  <2>1. \A u \in Thread : pc[c] # In("free", u) /\ pc'[c] # In("free", u)
    BY <1>4 DEF In
  <2> QED BY <1>4, <2>1 DEF FreersAreSole
<1> QED BY <1>1, <1>2, <1>3, <1>6, <1>7, <1>8, Zenon

\* thread_join() up to its wait: for a live thread it sleeps or gives up, a dead one it reaps; it
\* is never refused, as whoever has the pointer has not detached the thread.
LEMMA JoinStart ==
  ASSUME ThreadLifeAssumption, IInv, NEW c \in Thread, NEW t \in Thread, NEW timeout,
         c \in handle[t], life[c] = "alive", state[c] = "running", pc[c].op # "free",
         join_start(c, t, timeout)
  PROVE  IInv'
<1>1. ~detached[t]
  BY HolderAlone, Zenon
<1>2. CASE life[t] = "death" /\ Reap(c, t) /\ UNCHANGED wqvars
  <2>1. WaitQueueInv'
    BY <1>2, QueueAlone, Zenon DEF IInv
  <2>2. state'[c] = "running" /\ (\A d \in Thread \ {c} : state'[d] = state[d])
        /\ UNCHANGED <<blocking_wait_queue, wait_queue_block_ret>>
    BY <1>2, Zenon DEF wqvars
  <2> QED BY <1>2, <2>1, <2>2, ReapStep, Zenon
<1>3. CASE pc' = [pc EXCEPT ![c] = Idle] /\ UNCHANGED <<wqvars, life, detached, magic, thread_list, memory, handle>>
  <2>1. WaitQueueInv'
    BY <1>3, QueueAlone, Zenon DEF IInv
  <2>2. state'[c] = "running" /\ (\A d \in Thread \ {c} : state'[d] = state[d])
        /\ UNCHANGED <<blocking_wait_queue, wait_queue_block_ret>>
    BY <1>3, Zenon DEF wqvars
  <2> QED BY <1>3, <2>1, <2>2, IdleStep, Zenon
<1>4. CASE /\ life[t] # "death" /\ wait_queue_block(c, t, timeout = "finite")
           /\ pc' = [pc EXCEPT ![c] = In("join", t)]
           /\ UNCHANGED <<life, detached, magic, thread_list, memory, handle>>
  <2>1. (timeout = "finite") \in BOOLEAN
    BY Zenon
  <2> QED BY <1>4, <2>1, SleepStep, Zenon
<1> QED BY <1>1, <1>2, <1>3, <1>4, Zenon DEF join_start

\* thread_join(), and thread_detach() of a dead thread, go into it with their pointer.
LEMMA JoinStep ==
  ASSUME ThreadLifeAssumption, IInv, NEW c \in Thread,
         \/ \E t \in Thread, timeout \in Timeouts : thread_join(c, t, timeout)
         \/ thread_detach_join(c)
  PROVE  IInv'
<1>1. ASSUME NEW t \in Thread, NEW timeout \in Timeouts, thread_join(c, t, timeout)
      PROVE  IInv'
  <2>1. c \in handle[t] /\ life[c] = "alive" /\ state[c] = "running" /\ pc[c].op # "free" /\ join_start(c, t, timeout)
    BY <1>1 DEF thread_join, Runs, Idle, In
  <2> QED BY <2>1, JoinStart, Zenon
<1>2. CASE thread_detach_join(c)
  <2>1. PICK t \in Thread : t = pc[c].of
    BY Zenon DEF IInv, TypeOK
  <2>2. c \in handle[t] /\ life[c] = "alive" /\ state[c] = "running" /\ pc[c].op # "free"
    BY <1>2, <2>1, Zenon DEF thread_detach_join, IInv, OperationsOfTheLiving, JoinersHoldThePointer
  <2>3. join_start(c, t, "zero")
    BY <1>2, <2>1, Zenon DEF thread_detach_join, join_start, Reap, Drop
  <2> QED BY <2>2, <2>3, JoinStart, Zenon
<1> QED BY <1>1, <1>2, Zenon

\* thread_join() after its wait: woken by the death of the thread it reaps it, and after a
\* timeout it gives up.
LEMMA JoinReturnStep ==
  ASSUME ThreadLifeAssumption, IInv, NEW c \in Thread, thread_join_return(c)
  PROVE  IInv'
<1>1. PICK t \in Thread : t = pc[c].of
  BY Zenon DEF IInv, TypeOK
<1>2. pc[c].op = "join" /\ state[c] = "ready" /\ wait_queue_return(c)
  BY Zenon DEF thread_join_return, wait_queue_return
<1>3. WaitQueueInv'
  BY <1>2, ReturnLemma, Zenon DEF IInv
<1>4. c \in handle[t] /\ life[c] = "alive" /\ pc[c].op # "free"
  BY <1>1, <1>2, Zenon DEF IInv, OperationsOfTheLiving, JoinersHoldThePointer
<1>5. state'[c] = "running" /\ (\A d \in Thread \ {c} : state'[d] = state[d])
      /\ UNCHANGED <<blocking_wait_queue, wait_queue_block_ret>>
  BY <1>2, Zenon DEF wait_queue_return, IInv, WaitQueueInv, WaitQueueTypeOK
<1>6. CASE wait_queue_block_ret[c] = "NO_ERROR"
  <2>1. life[t] = "death"
    BY <1>1, <1>2, <1>6, Zenon DEF IInv, JoinersHoldThePointer
  <2>2. Reap(c, t)
    BY <1>1, <1>6, Zenon DEF thread_join_return, Reap, Drop
  <2> QED BY <1>3, <1>4, <1>5, <2>1, <2>2, ReapStep, Zenon
<1>7. CASE wait_queue_block_ret[c] # "NO_ERROR"
  <2>1. wait_queue_block_ret[c] = "ERR_TIMED_OUT"
    BY <1>2, <1>7, Zenon DEF IInv, JoinersHoldThePointer
  <2>2. pc' = [pc EXCEPT ![c] = Idle] /\ UNCHANGED <<life, detached, magic, thread_list, memory, handle>>
    BY <1>7, <2>1, Zenon DEF thread_join_return
  <2> QED BY <1>3, <1>4, <1>5, <2>2, IdleStep, Zenon
<1> QED BY <1>6, <1>7, Zenon

\* The timer of a timed join makes the joiner ready, with an error; it disturbs nobody else.
LEMMA JoinTimeoutStep ==
  ASSUME ThreadLifeAssumption, IInv, NEW c \in Thread, JoinTimeout(c)
  PROVE  IInv'
<1> USE DEF IInv
<1>1. WaitQueueInv'
  BY TimeoutLemma, Zenon DEF JoinTimeout
<1>2. TypeOK' /\ PointersAreSole' /\ LifeAndMemory' /\ FreersAreSole'
  BY <1>1 DEF JoinTimeout, lvars, WaitQueueInv, TypeOK, PointersAreSole, LifeAndMemory, FreersAreSole
<1>3. CASE UNCHANGED <<state, blocking_wait_queue, wait_queue_block_ret>>
  <2>1. OperationsOfTheLiving' /\ JoinersHoldThePointer'
    BY <1>3, Zenon DEF JoinTimeout, lvars, OperationsOfTheLiving, JoinersHoldThePointer
  <2> QED BY <1>1, <1>2, <2>1, Zenon
<1>4. CASE state[c] = "blocked" /\ Woken({c}, "ERR_TIMED_OUT")
  <2>1. /\ state' = [state EXCEPT ![c] = "ready"]
        /\ blocking_wait_queue' = [blocking_wait_queue EXCEPT ![c] = NoQueue]
        /\ wait_queue_block_ret' = [wait_queue_block_ret EXCEPT ![c] = "ERR_TIMED_OUT"]
    BY <1>4, WokenOne, Zenon DEF WaitQueueInv
  <2>2. /\ state'[c] = "ready" /\ wait_queue_block_ret'[c] = "ERR_TIMED_OUT"
        /\ \A d \in Thread \ {c} : /\ state'[d] = state[d] /\ wait_queue_block_ret'[d] = wait_queue_block_ret[d]
                                   /\ blocking_wait_queue'[d] = blocking_wait_queue[d]
    BY <2>1, Zenon DEF WaitQueueInv, WaitQueueTypeOK
  <2>3. UNCHANGED <<life, detached, magic, handle, pc>>
    BY Zenon DEF JoinTimeout, lvars
  <2>4. OperationsOfTheLiving'
    <3> SUFFICES ASSUME NEW d \in Thread
                 PROVE  OperationsOfTheLiving!(d)'
      BY Zenon DEF OperationsOfTheLiving
    <3>1. CASE d = c
      BY <1>4, <2>2, <2>3, <3>1, Zenon DEF OperationsOfTheLiving
    <3>2. CASE d # c
      BY <2>2, <2>3, <3>2, Zenon DEF OperationsOfTheLiving
    <3> QED BY <3>1, <3>2, Zenon
  <2>5. JoinersHoldThePointer'
    <3> SUFFICES ASSUME NEW d \in Thread
                 PROVE  JoinersHoldThePointer!(d)'
      BY Zenon DEF JoinersHoldThePointer
    <3>1. CASE d = c
      BY <1>4, <2>2, <2>3, <3>1, Zenon DEF JoinersHoldThePointer
    <3>2. CASE d # c
      BY <2>2, <2>3, <3>2, Zenon DEF JoinersHoldThePointer
    <3> QED BY <3>1, <3>2, Zenon
  <2> QED BY <1>1, <1>2, <2>4, <2>5, Zenon
<1> QED BY <1>3, <1>4, Zenon DEF JoinTimeout, wait_queue_timeout_handler, thread_unblock_from_wait_queue

\* thread_join() frees the blocks it took out of the list, and nobody else was going to.
LEMMA FreeStep ==
  ASSUME ThreadLifeAssumption, IInv, NEW c \in Thread, thread_join_free(c)
  PROVE  IInv'
<1> USE DEF IInv
<1>1. PICK t \in Thread : t = pc[c].of
  BY Zenon DEF TypeOK
<1>2. pc[c] = In("free", t)
  BY <1>1, Zenon DEF thread_join_free, TypeOK, In
<1>3. life[t] = "death" /\ ~magic[t] /\ memory[t] = "held" /\ handle[t] = {}
  BY <1>2, Zenon DEF FreersAreSole, PointersAreSole
<1>4. WaitQueueInv'
  BY QueueAlone, Zenon DEF thread_join_free
<1>5. /\ pc'[c] = Idle /\ pc'[c].op = "none" /\ \A d \in Thread \ {c} : pc'[d] = pc[d]
      /\ life'[t] = "none" /\ memory'[t] = "free"
      /\ \A u \in Thread \ {t} : life'[u] = life[u] /\ memory'[u] = memory[u]
      /\ UNCHANGED <<wqvars, detached, magic, thread_list, handle>>
  BY <1>1, Zenon DEF thread_join_free, TypeOK, Idle, In
<1>6. TypeOK'
  BY <1>1, <1>4, Zenon DEF thread_join_free, TypeOK, WaitQueueInv, Idle, In, Op, ThreadLifeAssumption
<1>7. PointersAreSole' /\ LifeAndMemory'
  BY <1>3, <1>5 DEF PointersAreSole, LifeAndMemory
<1>8. OperationsOfTheLiving'
  <2> SUFFICES ASSUME NEW d \in Thread
               PROVE  OperationsOfTheLiving!(d)'
    BY Zenon DEF OperationsOfTheLiving
  <2>1. CASE d = c
    BY <1>2, <1>5, <2>1 DEF OperationsOfTheLiving, wqvars, In
  <2>2. CASE d # c /\ d # t
    BY <1>5, <2>2 DEF OperationsOfTheLiving, wqvars
  <2>3. CASE d # c /\ d = t
    <3>1. pc'[d] = pc[d] /\ life'[d] = "none" /\ state'[d] = state[d]
          /\ blocking_wait_queue'[d] = blocking_wait_queue[d]
      BY <1>5, <2>3, Zenon DEF wqvars
    <3>2. SMP \/ pc[d].op # "exit"
      BY Zenon DEF thread_join_free, LockFree
    <3>3. pc[d].op \notin {"join", "free", "detach_join"}
      BY <1>3, <2>3, Zenon DEF OperationsOfTheLiving
    <3> QED BY <3>1, <3>2, <3>3, Zenon DEF OperationsOfTheLiving
  <2> QED BY <2>1, <2>2, <2>3, Zenon
<1>9. JoinersHoldThePointer'
  <2> SUFFICES ASSUME NEW d \in Thread
               PROVE  JoinersHoldThePointer!(d)'
    BY Zenon DEF JoinersHoldThePointer
  <2>1. CASE d = c
    <3>1. state[c] = "running"
      BY <1>2 DEF OperationsOfTheLiving, In, WaitQueueInv, WaitQueueTypeOK
    <3> QED BY <1>5, <2>1, <3>1, Zenon DEF wqvars
  <2>2. CASE d # c
    <3>1. pc'[d] = pc[d] /\ state'[d] = state[d] /\ wait_queue_block_ret'[d] = wait_queue_block_ret[d]
      BY <1>5, <2>2, Zenon DEF wqvars
    <3>2. pc[d].op \in {"join", "detach_join"} => pc[d].of # t
      BY <1>3, Zenon DEF JoinersHoldThePointer
    <3>3. pc[d].of \in Thread
      BY Zenon DEF TypeOK
    <3>4. state[d] \in {"running", "blocked", "ready"}
      BY Zenon DEF WaitQueueInv, WaitQueueTypeOK
    <3>5. state[d] # "running" => pc[d].op = "join"
      BY Zenon DEF OperationsOfTheLiving
    <3> QED BY <1>5, <3>1, <3>2, <3>3, <3>4, <3>5 DEF JoinersHoldThePointer
  <2> QED BY <2>1, <2>2, Zenon
<1>10. FreersAreSole'
  <2> SUFFICES ASSUME NEW u \in Thread
               PROVE  FreersAreSole!(u)'
    BY Zenon DEF FreersAreSole
  <2>1. pc'[c] # In("free", u)
    BY <1>5 DEF In
  <2>2. CASE u = t
    BY <1>2, <1>5, <2>1, <2>2 DEF FreersAreSole
  <2>3. CASE u # t
    <3>1. pc[c] # In("free", u)
      BY <1>2, <2>3 DEF In
    <3> QED BY <1>5, <2>1, <2>3, <3>1 DEF FreersAreSole
  <2> QED BY <2>2, <2>3, Zenon
<1> QED BY <1>4, <1>6, <1>7, <1>8, <1>9, <1>10, Zenon

\* Only the holder of a thread's pointer can be on the thread's retcode_wait_queue, asleep.
LEMMA SleeperHolds ==
  ASSUME ThreadLifeAssumption, IInv, NEW t \in Thread, NEW i \in 1..Len(list[t])
  PROVE  /\ list[t][i] \in handle[t] /\ state[list[t][i]] = "blocked"
         /\ pc[list[t][i]].op = "join" /\ pc[list[t][i]].of = t
<1> USE DEF IInv
<1>1. t \in Queue
  BY Zenon DEF ThreadLifeAssumption
<1>2. PICK d \in Thread : d = list[t][i]
  BY <1>1 DEF WaitQueueInv, WaitQueueTypeOK
<1>3. state[d] = "blocked" /\ blocking_wait_queue[d] = t
  BY <1>1, <1>2, Zenon DEF WaitQueueInv, QueuesHoldTheBlocked
<1>4. pc[d].op = "join" /\ pc[d].of = t
  BY <1>3, Zenon DEF OperationsOfTheLiving
<1> QED BY <1>2, <1>3, <1>4, Zenon DEF JoinersHoldThePointer

\* thread_detach(): whoever detaches has the pointer, so that nobody is in thread_join() to be
\* woken; a live thread becomes its own to reap, a dead one is the caller's.
LEMMA DetachStep ==
  ASSUME ThreadLifeAssumption, IInv, NEW c \in Thread, NEW t \in Thread, thread_detach(c, t)
  PROVE  IInv'
<1> USE DEF IInv
<1>1. /\ c \in handle[t] /\ life[c] = "alive" /\ state[c] = "running" /\ pc[c] = Idle /\ pc[c].op = "none"
      /\ wait_queue_wake_all(t, "ERR_THREAD_DETACHED") /\ UNCHANGED <<life, magic, thread_list, memory>>
  BY DEF thread_detach, Runs, Idle, In
<1>2. handle[t] = {c} /\ magic[t] /\ ~detached[t]
  BY <1>1, HolderAlone, Zenon
<1>3. WaitQueueInv'
  BY <1>1, WakeAllLemma, Zenon DEF ThreadLifeAssumption, Status
<1>4. {list[t][i] : i \in 1..Len(list[t])} = {}
  BY <1>1, <1>2, SleeperHolds
<1>5. \A d \in Thread : /\ state'[d] = state[d] /\ blocking_wait_queue'[d] = blocking_wait_queue[d]
                        /\ wait_queue_block_ret'[d] = wait_queue_block_ret[d]
  BY <1>1, <1>4, Zenon DEF wait_queue_wake_all, Woken
<1>6. CASE life[t] = "death"
  <2>1. /\ pc' = [pc EXCEPT ![c] = In("detach_join", t)] /\ UNCHANGED handle
        /\ detached' = [detached EXCEPT ![t] = FALSE]
    BY <1>6, Zenon DEF thread_detach
  <2>2. /\ pc'[c] = In("detach_join", t) /\ pc'[c].op = "detach_join" /\ pc'[c].of = t
        /\ \A d \in Thread \ {c} : pc'[d] = pc[d]
    BY <2>1, Zenon DEF TypeOK, In
  <2>3. detached' = detached
    BY <1>2, <2>1, Zenon DEF TypeOK
  <2>4. TypeOK'
    BY <1>1, <1>3, <2>1, <2>3 DEF TypeOK, WaitQueueInv, In, Op
  <2>5. PointersAreSole' /\ LifeAndMemory'
    BY <1>1, <2>1, <2>3, Zenon DEF PointersAreSole, LifeAndMemory
  <2>6. OperationsOfTheLiving'
    <3> SUFFICES ASSUME NEW d \in Thread
                 PROVE  OperationsOfTheLiving!(d)'
      BY Zenon DEF OperationsOfTheLiving
    <3>1. CASE d = c
      BY <1>1, <1>5, <2>2, <3>1, Zenon
    <3>2. CASE d # c
      BY <1>1, <1>5, <2>2, <3>2 DEF OperationsOfTheLiving
    <3> QED BY <3>1, <3>2, Zenon
  <2>7. JoinersHoldThePointer'
    <3> SUFFICES ASSUME NEW d \in Thread
                 PROVE  JoinersHoldThePointer!(d)'
      BY Zenon DEF JoinersHoldThePointer
    <3>1. CASE d = c
      BY <1>1, <1>5, <1>6, <2>1, <2>2, <3>1
    <3>2. CASE d # c
      BY <1>1, <1>5, <2>1, <2>2, <3>2 DEF JoinersHoldThePointer
    <3> QED BY <3>1, <3>2, Zenon
  <2>8. FreersAreSole'
    <3>1. \A u \in Thread : pc[c] # In("free", u) /\ pc'[c] # In("free", u)
      BY <1>1, <2>2 DEF In
    <3> QED BY <1>1, <2>2, <3>1 DEF FreersAreSole
  <2> QED BY <1>3, <2>4, <2>5, <2>6, <2>7, <2>8, Zenon
<1>7. CASE life[t] # "death"
  <2>1. UNCHANGED pc /\ detached' = [detached EXCEPT ![t] = TRUE] /\ handle' = [handle EXCEPT ![t] = @ \ {c}]
    BY <1>7, Zenon DEF thread_detach, Drop
  <2>2. handle'[t] = {} /\ \A u \in Thread \ {t} : handle'[u] = handle[u] /\ detached'[u] = detached[u]
    BY <1>2, <2>1, Zenon DEF TypeOK
  <2>3. TypeOK'
    BY <1>1, <1>3, <2>1, Zenon DEF TypeOK, WaitQueueInv
  <2>4. PointersAreSole' /\ LifeAndMemory' /\ FreersAreSole'
    BY <1>1, <2>1, <2>2 DEF PointersAreSole, LifeAndMemory, FreersAreSole
  <2>5. OperationsOfTheLiving'
    BY <1>1, <1>5, <2>1 DEF OperationsOfTheLiving
  <2>6. \A d \in Thread : pc[d].op \in {"join", "detach_join"} => pc[d].of \in Thread \ {t}
    BY <1>1, <1>2 DEF JoinersHoldThePointer, TypeOK
  <2>7. JoinersHoldThePointer'
    <3>1. ASSUME NEW d \in Thread, pc[d].op \in {"join", "detach_join"}
          PROVE  d \in handle'[pc[d].of]
      <4>1. pc[d].of \in Thread \ {t} /\ d \in handle[pc[d].of]
        BY <2>6, <3>1, Zenon DEF JoinersHoldThePointer
      <4> QED BY <2>2, <4>1, Zenon
    <3> QED BY <1>1, <1>5, <2>1, <3>1 DEF JoinersHoldThePointer
  <2> QED BY <1>3, <2>3, <2>4, <2>5, <2>7, Zenon
<1> QED BY <1>6, <1>7, Zenon

\* thread_exit(): a detached thread leaves its memory to the delayed free list, and nobody has
\* its pointer; any other stays in the list, and the thread asleep for it is told.
LEMMA ExitStep ==
  ASSUME ThreadLifeAssumption, IInv, NEW t \in Thread, thread_exit(t)
  PROVE  IInv'
<1> USE DEF IInv
<1>1. /\ life[t] = "alive" /\ state[t] = "running" /\ pc[t] = Idle /\ pc[t].op = "none" /\ UNCHANGED detached
      /\ magic[t] /\ memory[t] = "held"
  BY DEF thread_exit, Runs, Idle, In, LifeAndMemory
<1>2. /\ life'[t] = "death" /\ \A u \in Thread \ {t} : life'[u] = life[u]
      /\ pc'[t] = In("exit", t) /\ pc'[t].op = "exit" /\ \A u \in Thread \ {t} : pc'[u] = pc[u]
      /\ \A u \in Thread : handle'[u] = handle[u] \ {t}
  BY Zenon DEF thread_exit, TypeOK, In
<1>3. \A u \in Thread : pc[t] # In("free", u) /\ pc'[t] # In("free", u)
  BY <1>1, <1>2 DEF In
<1>4. \A u \in Thread : pc[u] # In("free", t)
  BY <1>1, Zenon DEF FreersAreSole
<1>5. CASE detached[t]
  <2>1. /\ thread_list' = thread_list \ {t} /\ UNCHANGED wqvars
        /\ magic' = [magic EXCEPT ![t] = FALSE] /\ memory' = [memory EXCEPT ![t] = "delayed"]
    BY <1>5, Zenon DEF thread_exit
  <2>2. /\ ~magic'[t] /\ memory'[t] = "delayed"
        /\ \A u \in Thread \ {t} : magic'[u] = magic[u] /\ memory'[u] = memory[u]
    BY <2>1, Zenon DEF TypeOK
  <2>3. handle[t] = {}
    BY <1>5, Zenon DEF PointersAreSole
  <2>4. WaitQueueInv'
    BY <2>1, QueueAlone, Zenon
  <2>5. TypeOK'
    BY <1>1, <1>2, <2>1, <2>4, Zenon DEF thread_exit, TypeOK, WaitQueueInv, In, Op
  <2>6. PointersAreSole' /\ LifeAndMemory'
    BY <1>1, <1>2, <2>2, <2>3 DEF PointersAreSole, LifeAndMemory
  <2>7. OperationsOfTheLiving'
    <3> SUFFICES ASSUME NEW d \in Thread
                 PROVE  OperationsOfTheLiving!(d)'
      BY Zenon DEF OperationsOfTheLiving
    <3>1. CASE d = t
      BY <1>1, <1>2, <2>1, <3>1, Zenon DEF wqvars
    <3>2. CASE d # t
      BY <1>2, <2>1, <3>2 DEF OperationsOfTheLiving, wqvars
    <3> QED BY <3>1, <3>2, Zenon
  <2>8. JoinersHoldThePointer'
    <3> SUFFICES ASSUME NEW d \in Thread
                 PROVE  JoinersHoldThePointer!(d)'
      BY Zenon DEF JoinersHoldThePointer
    <3>1. CASE d = t
      BY <1>1, <1>2, <2>1, <3>1, Zenon DEF wqvars
    <3>2. CASE d # t
      <4>1. pc[d].op \in {"join", "detach_join"} => pc[d].of \in Thread \ {t}
        BY <2>3, Zenon DEF JoinersHoldThePointer, TypeOK
      <4>2. state[d] # "running" => pc[d].op = "join"
        BY Zenon DEF OperationsOfTheLiving
      <4>3. pc'[d] = pc[d] /\ state'[d] = state[d] /\ wait_queue_block_ret'[d] = wait_queue_block_ret[d]
        BY <1>2, <2>1, <3>2, Zenon DEF wqvars
      <4> QED BY <1>2, <3>2, <4>1, <4>2, <4>3 DEF JoinersHoldThePointer
    <3> QED BY <3>1, <3>2, Zenon
  <2>9. FreersAreSole'
    BY <1>2, <1>3, <1>4, <2>2 DEF FreersAreSole
  <2> QED BY <2>4, <2>5, <2>6, <2>7, <2>8, <2>9, Zenon
<1>6. CASE ~detached[t]
  <2> DEFINE W == {list[t][i] : i \in 1..Len(list[t])}
  <2>1. wait_queue_wake_all(t, "NO_ERROR") /\ UNCHANGED <<thread_list, magic, memory>>
    BY <1>6, Zenon DEF thread_exit
  <2>2. WaitQueueInv'
    BY <2>1, WakeAllLemma, Zenon DEF ThreadLifeAssumption, Status
  <2>3. \A d \in Thread : /\ d \in W => state'[d] = "ready" /\ wait_queue_block_ret'[d] = "NO_ERROR"
                          /\ d \notin W => /\ state'[d] = state[d] /\ blocking_wait_queue'[d] = blocking_wait_queue[d]
                                           /\ wait_queue_block_ret'[d] = wait_queue_block_ret[d]
    BY <2>1, Zenon DEF wait_queue_wake_all, Woken
  <2>4. \A d \in W : d \in handle[t] /\ state[d] = "blocked" /\ pc[d].op = "join" /\ pc[d].of = t
    BY SleeperHolds
  <2>5. \A d \in Thread : state[d] = "blocked" /\ pc[d].of = t => d \in W
    BY DEF WaitQueueInv, QueuesHoldTheBlocked, OperationsOfTheLiving
  <2>6. t \notin W
    BY <1>1, <2>4, Zenon
  <2> HIDE DEF W
  <2>7. TypeOK'
    BY <1>1, <1>2, <2>1, <2>2, Zenon DEF thread_exit, TypeOK, WaitQueueInv, In, Op
  <2>8. PointersAreSole' /\ LifeAndMemory' /\ FreersAreSole'
    BY <1>1, <1>2, <1>3, <1>4, <2>1 DEF PointersAreSole, LifeAndMemory, FreersAreSole
  <2>9. OperationsOfTheLiving'
    <3> SUFFICES ASSUME NEW d \in Thread
                 PROVE  OperationsOfTheLiving!(d)'
      BY Zenon DEF OperationsOfTheLiving
    <3>1. CASE d = t
      BY <1>1, <1>2, <2>3, <2>6, <3>1, Zenon
    <3>2. CASE d \in W
      BY <1>2, <2>3, <2>4, <2>6, <3>2 DEF OperationsOfTheLiving
    <3>3. CASE d # t /\ d \notin W
      BY <1>2, <2>3, <3>3 DEF OperationsOfTheLiving
    <3> QED BY <3>1, <3>2, <3>3, Zenon
  <2>10. JoinersHoldThePointer'
    <3> SUFFICES ASSUME NEW d \in Thread
                 PROVE  JoinersHoldThePointer!(d)'
      BY Zenon DEF JoinersHoldThePointer
    <3>1. CASE d = t
      BY <1>1, <1>2, <2>3, <2>6, <3>1, Zenon
    <3>2. CASE d \in W
      BY <1>2, <2>3, <2>4, <2>6, <3>2
    <3>3. CASE d # t /\ d \notin W
      <4>1. pc'[d] = pc[d] /\ state'[d] = state[d] /\ wait_queue_block_ret'[d] = wait_queue_block_ret[d]
        BY <1>2, <2>3, <3>3, Zenon
      <4>2. pc[d].of \in Thread
        BY Zenon DEF TypeOK
      <4>3. state[d] = "blocked" => pc[d].of # t
        BY <2>5, <3>3, Zenon
      <4>4. \A u \in Thread : life[u] = "death" => life'[u] = "death"
        BY <1>2, Zenon
      <4>5. JoinersHoldThePointer!(d)
        BY Zenon DEF JoinersHoldThePointer
      <4>6. state[d] = "blocked" => life'[pc[d].of] # "death"
        BY <1>2, <4>2, <4>3, <4>5, Zenon
      <4> QED BY <1>2, <4>1, <4>2, <4>4, <4>5, <4>6, Zenon
    <3> QED BY <3>1, <3>2, <3>3, Zenon
  <2> QED BY <2>2, <2>7, <2>8, <2>9, <2>10, Zenon
<1> QED BY <1>5, <1>6, Zenon

\* Every step keeps the invariant.
LEMMA NextStep ==
  ASSUME ThreadLifeAssumption, ~Shared, IInv, [Next]_vars
  PROVE  IInv'
<1>1. CASE UNCHANGED vars
  BY <1>1, Stutter, Zenon
<1>2. ASSUME NEW c \in Thread, exit_resched(c)
      PROVE  IInv'
  <2>1. /\ pc[c].op = "exit" /\ pc' = [pc EXCEPT ![c] = Idle]
        /\ UNCHANGED <<wqvars, life, detached, magic, thread_list, memory, handle>>
    BY <1>2, Zenon DEF exit_resched
  <2>2. state[c] = "running" /\ WaitQueueInv'
    BY <2>1, QueueAlone, Zenon DEF IInv, OperationsOfTheLiving
  <2>3. state'[c] = "running" /\ (\A d \in Thread \ {c} : state'[d] = state[d])
        /\ UNCHANGED <<blocking_wait_queue, wait_queue_block_ret>>
    BY <2>1, <2>2, Zenon DEF wqvars
  <2> QED BY <2>1, <2>2, <2>3, IdleStep, Zenon
<1>3. ASSUME NEW c \in Thread,
             \/ malloc(c)
             \/ \E t \in Thread, H \in SUBSET Thread : thread_create(c, t, H)
             \/ \E t \in Thread : thread_resume(c, t)
      PROVE  IInv'
  BY <1>3, MallocStep, CreateStep, ResumeStep, Zenon
<1>4. ASSUME NEW c \in Thread,
             \/ \E t \in Thread, timeout \in Timeouts : thread_join(c, t, timeout)
             \/ thread_detach_join(c)
             \/ thread_join_return(c)
             \/ JoinTimeout(c)
             \/ thread_join_free(c)
      PROVE  IInv'
  BY <1>4, JoinStep, JoinReturnStep, JoinTimeoutStep, FreeStep, Zenon
<1>5. ASSUME NEW c \in Thread,
             (\E t \in Thread : thread_detach(c, t)) \/ thread_exit(c)
      PROVE  IInv'
  BY <1>5, DetachStep, ExitStep, Zenon
<1> QED BY <1>1, <1>2, <1>3, <1>4, <1>5, Zenon DEF Next

\* The invariant holds as long as every thread's pointer stays with its creator.
THEOREM Invariance ==
  ASSUME ThreadLifeAssumption, ~Shared
  PROVE  Spec => []IInv
<1>1. Init => IInv
  BY LifeInit, Zenon
<1>2. IInv /\ [Next]_vars => IInv'
  BY NextStep, Zenon
<1> QED BY <1>1, <1>2, PTL DEF Spec

\* One thread at most frees what thread t has left.
LEMMA OneFreer ==
  ASSUME IInv, NEW t \in Thread
  PROVE  LET freers == {c \in Thread : pc[c] = In("free", t)}
         IN  Cardinality(freers) <= 1
<1> DEFINE freers == {c \in Thread : pc[c] = In("free", t)}
<1>1. CASE freers = {}
  BY <1>1, FS_EmptySet
<1>2. CASE freers # {}
  <2>1. PICK c \in Thread : c \in freers
    BY <1>2, Zenon
  <2>2. freers = {c}
    BY <2>1, Zenon DEF IInv, FreersAreSole
  <2> QED BY <2>2, FS_Singleton
<1> QED BY <1>1, <1>2, Zenon

\* What the invariant says of a join and of the dead: the assertions of thread_join() hold, a
\* dead thread's memory is freed by one party, and a joiner sleeps only for a thread that will
\* wake it, on any number of processors.
THEOREM JoinIsSafe ==
  ASSUME ThreadLifeAssumption, ~Shared
  PROVE  Spec => [](JoinerFindsTheDead /\ DeadAreReapedOnce /\ NoJoinerSleepsForNothing)
<1>1. ASSUME IInv
      PROVE  JoinerFindsTheDead
  <2> SUFFICES ASSUME NEW c \in Thread,
                      \/ pc[c].op = "detach_join"
                      \/ pc[c].op = "join" /\ state[c] = "ready" /\ wait_queue_block_ret[c] = "NO_ERROR"
               PROVE  magic[pc[c].of] /\ life[pc[c].of] = "death" /\ ~detached[pc[c].of]
    BY Zenon DEF JoinerFindsTheDead
  <2>1. c \in handle[pc[c].of] /\ life[pc[c].of] = "death" /\ pc[c].of \in Thread
    BY <1>1, Zenon DEF IInv, JoinersHoldThePointer, TypeOK
  <2> QED BY <1>1, <2>1, Zenon DEF IInv, PointersAreSole
<1>2. ASSUME IInv
      PROVE  DeadAreReapedOnce
  BY <1>2, OneFreer, Zenon DEF DeadAreReapedOnce, IInv, FreersAreSole, LifeAndMemory
<1>3. ASSUME IInv
      PROVE  NoJoinerSleepsForNothing
  <2> SUFFICES ASSUME NEW c \in Thread, state[c] = "blocked"
               PROVE  life[pc[c].of] \in {"suspended", "alive"} /\ ~detached[pc[c].of] /\ magic[pc[c].of]
    BY Zenon DEF NoJoinerSleepsForNothing
  <2>1. c \in handle[pc[c].of] /\ pc[c].of \in Thread
    BY <1>3, Zenon DEF IInv, JoinersHoldThePointer, OperationsOfTheLiving, TypeOK
  <2>2. magic[pc[c].of] /\ ~detached[pc[c].of] /\ life[pc[c].of] # "death"
    BY <1>3, <2>1, Zenon DEF IInv, PointersAreSole, JoinersHoldThePointer
  <2>3. life[pc[c].of] # "none"
    BY <1>3, <2>1, <2>2, Zenon DEF IInv, LifeAndMemory
  <2> QED BY <1>3, <2>1, <2>2, <2>3, Zenon DEF IInv, TypeOK
<1> QED BY <1>1, <1>2, <1>3, Invariance, PTL

\* On one processor all of it holds, a thread's stack outliving its use included: on several,
\* the delayed free list may be emptied before thread_exit() has left the stack.
THEOREM ReapedOnce ==
  ASSUME ThreadLifeAssumption, ~Shared, ~SMP
  PROVE  Spec => []TheDeadAreReapedOnce
<1>1. ASSUME IInv
      PROVE  FreedOnlyWhenGone
  BY <1>1, Zenon DEF FreedOnlyWhenGone, IInv, OperationsOfTheLiving, LifeAndMemory
<1>2. ASSUME IInv, JoinerFindsTheDead /\ DeadAreReapedOnce /\ NoJoinerSleepsForNothing
      PROVE  TheDeadAreReapedOnce
  BY <1>1, <1>2, Zenon DEF TheDeadAreReapedOnce
<1> QED BY <1>2, Invariance, JoinIsSafe, PTL
=============================================================================
