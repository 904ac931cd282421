-------------------------- MODULE WaitQueueProofs --------------------------
(***************************************************************************)
(* What the operations of WaitQueue preserve, for any number of threads    *)
(* and queues.  The proofs about the primitives built on wait queues cite  *)
(* these lemmas, one per operation.                                        *)
(***************************************************************************)
EXTENDS WaitQueue, TLAPS

\* The invariant that every wait queue operation preserves.
WaitQueueInv == WaitQueueTypeOK /\ QueuesHoldTheBlocked

\* wait_queue_init() establishes the invariant: nobody is blocked, no list has a node.
LEMMA InitLemma ==
  ASSUME wait_queue_init
  PROVE  WaitQueueInv
BY QueueAssumption DEF wait_queue_init, WaitQueueInv, WaitQueueTypeOK, QueuesHoldTheBlocked, Status

\* Blocking a running thread puts it on one queue, once (wait_queue_block).
LEMMA BlockLemma ==
  ASSUME WaitQueueInv, NEW t \in Thread, NEW q \in Queue, NEW finite \in BOOLEAN,
         state[t] = "running", wait_queue_block(t, q, finite)
  PROVE  WaitQueueInv'
<1> USE DEF WaitQueueInv, WaitQueueTypeOK
<1>1. WaitQueueTypeOK'
  BY DEF wait_queue_block, Status
<1>2. list'[q] = Append(list[q], t) /\ \A r \in Queue \ {q} : list'[r] = list[r]
  BY DEF wait_queue_block
<1>3. Len(list'[q]) = Len(list[q]) + 1 /\ list'[q][Len(list[q]) + 1] = t
      /\ \A i \in 1..Len(list[q]) : list'[q][i] = list[q][i]
  BY <1>2
<1>4. \A r \in Queue : \A i \in 1..Len(list[r]) : list[r][i] # t /\ list[r][i] \in Thread
  BY DEF QueuesHoldTheBlocked
<1>5. QueuesHoldTheBlocked'
  BY <1>2, <1>3, <1>4, QueueAssumption DEF QueuesHoldTheBlocked, wait_queue_block
<1> QED BY <1>1, <1>5

\* A thread that returns from wait_queue_block() was on no queue any more.
LEMMA ReturnLemma ==
  ASSUME WaitQueueInv, NEW t \in Thread, wait_queue_return(t)
  PROVE  WaitQueueInv'
BY DEF WaitQueueInv, WaitQueueTypeOK, QueuesHoldTheBlocked, wait_queue_return

\* Waking one thread changes the fields of no other.
LEMMA WokenOne ==
  ASSUME WaitQueueTypeOK, NEW h \in Thread, NEW err, Woken({h}, err)
  PROVE  /\ state' = [state EXCEPT ![h] = "ready"]
         /\ blocking_wait_queue' = [blocking_wait_queue EXCEPT ![h] = NoQueue]
         /\ wait_queue_block_ret' = [wait_queue_block_ret EXCEPT ![h] = err]
<1>1. state' = [state EXCEPT ![h] = "ready"]
  BY DEF Woken, WaitQueueTypeOK
<1>2. blocking_wait_queue' = [blocking_wait_queue EXCEPT ![h] = NoQueue]
  BY DEF Woken, WaitQueueTypeOK
<1>3. wait_queue_block_ret' = [wait_queue_block_ret EXCEPT ![h] = err]
  BY DEF Woken, WaitQueueTypeOK
<1> QED BY <1>1, <1>2, <1>3

\* A function on 1..n is a sequence of length n.
LEMMA SeqLemma ==
  ASSUME NEW S, NEW n \in Nat, NEW s \in [1..n -> S]
  PROVE  s \in Seq(S) /\ Len(s) = n
OBVIOUS

\* The wake-up paths take one node off a list: the k-th thread of queue q leaves it and
\* is made ready, the nodes behind it move up, and the other lists keep theirs.
LEMMA RemoveLemma ==
  ASSUME WaitQueueInv, NEW q \in Queue, NEW k \in 1..Len(list[q]), NEW err \in Status,
         Woken({list[q][k]}, err),
         list' \in [Queue -> Seq(Thread)], timer' \in [Thread -> BOOLEAN],
         Len(list'[q]) = Len(list[q]) - 1,
         \A i \in 1..Len(list'[q]) : list'[q][i] = IF i < k THEN list[q][i] ELSE list[q][i + 1],
         \A r \in Queue \ {q} : list'[r] = list[r]
  PROVE  WaitQueueInv'
<1> DEFINE h == list[q][k]
<1>1. h \in Thread /\ state[h] = "blocked" /\ blocking_wait_queue[h] = q
  BY DEF WaitQueueInv, WaitQueueTypeOK, QueuesHoldTheBlocked
<1>2. WaitQueueTypeOK'
  BY <1>1 DEF Woken, WaitQueueInv, WaitQueueTypeOK
<1>3. \A u \in Thread : /\ state'[u] = IF u = h THEN "ready" ELSE state[u]
                        /\ blocking_wait_queue'[u] = IF u = h THEN NoQueue ELSE blocking_wait_queue[u]
  BY DEF Woken
<1> DEFINE old(r, i) == IF r = q /\ i >= k THEN i + 1 ELSE i
<1>4. ASSUME NEW r \in Queue, NEW i \in 1..Len(list'[r])
      PROVE  old(r, i) \in 1..Len(list[r]) /\ list'[r][i] = list[r][old(r, i)] /\ list'[r][i] \in Thread
  <2>1. Len(list[r]) \in Nat /\ Len(list'[r]) \in Nat
    BY DEF WaitQueueInv, WaitQueueTypeOK
  <2>2. old(r, i) \in 1..Len(list[r]) /\ list'[r][i] = list[r][old(r, i)]
    BY <2>1
  <2> QED BY <2>2 DEF WaitQueueInv, WaitQueueTypeOK
<1>5. ASSUME NEW r \in Queue, NEW i \in 1..Len(list'[r])
      PROVE  list'[r][i] # h
  <2>1. old(r, i) \in 1..Len(list[r]) /\ list'[r][i] = list[r][old(r, i)]
    BY <1>4
  <2>2. CASE r = q
    <3>1. old(r, i) # k
      BY <2>2 DEF WaitQueueInv, WaitQueueTypeOK
    <3> HIDE DEF old
    <3> QED BY <2>1, <2>2, <3>1 DEF WaitQueueInv, QueuesHoldTheBlocked
  <2>3. CASE r # q
    <3> HIDE DEF old, h
    <3> QED BY <1>1, <2>1, <2>3 DEF WaitQueueInv, QueuesHoldTheBlocked
  <2> QED BY <2>2, <2>3
<1>6. \A r \in Queue : \A i \in 1..Len(list'[r]) :
         state'[list'[r][i]] = "blocked" /\ blocking_wait_queue'[list'[r][i]] = r
  <2> SUFFICES ASSUME NEW r \in Queue, NEW i \in 1..Len(list'[r])
               PROVE  state'[list'[r][i]] = "blocked" /\ blocking_wait_queue'[list'[r][i]] = r
    OBVIOUS
  <2>1. /\ old(r, i) \in 1..Len(list[r]) /\ list'[r][i] = list[r][old(r, i)]
        /\ list'[r][i] \in Thread /\ list'[r][i] # h
    BY <1>4, <1>5
  <2> HIDE DEF old, h
  <2>2. state[list'[r][i]] = "blocked" /\ blocking_wait_queue[list'[r][i]] = r
    BY <2>1 DEF WaitQueueInv, QueuesHoldTheBlocked
  <2> QED BY <2>1, <2>2, <1>3
<1>7. ASSUME NEW r \in Queue, NEW i \in 1..Len(list'[r]), NEW j \in 1..Len(list'[r]), list'[r][i] = list'[r][j]
      PROVE  i = j
  <2>1. old(r, i) = old(r, j)
    <3>1. /\ old(r, i) \in 1..Len(list[r]) /\ old(r, j) \in 1..Len(list[r])
          /\ list[r][old(r, i)] = list[r][old(r, j)]
      BY <1>4, <1>7
    <3> HIDE DEF old
    <3> QED BY <3>1 DEF WaitQueueInv, QueuesHoldTheBlocked
  <2>2. i \in Int /\ j \in Int
    BY DEF WaitQueueInv, WaitQueueTypeOK
  <2> QED BY <2>1, <2>2
<1>8. ASSUME NEW u \in Thread, state'[u] = "blocked"
      PROVE  \E r \in Queue : blocking_wait_queue'[u] = r /\ \E i \in 1..Len(list'[r]) : list'[r][i] = u
  <2>1. u # h /\ state[u] = "blocked"
    BY <1>3, <1>8
  <2>2. PICK r \in Queue : blocking_wait_queue[u] = r /\ \E i \in 1..Len(list[r]) : list[r][i] = u
    BY <2>1 DEF WaitQueueInv, QueuesHoldTheBlocked
  <2>3. PICK i \in 1..Len(list[r]) : list[r][i] = u
    BY <2>2
  <2>4. \E j \in 1..Len(list'[r]) : list'[r][j] = u
    <3>1. CASE r = q
      <4>1. i # k /\ i \in Int /\ k \in Int /\ Len(list[q]) \in Nat
        BY <3>1, <2>1, <2>3 DEF WaitQueueInv, WaitQueueTypeOK
      <4>2. CASE i < k
        <5>1. i \in 1..Len(list'[q])
          BY <3>1, <4>1, <4>2
        <5>2. list'[q][i] = u
          BY <3>1, <5>1, <4>2, <2>3
        <5> QED BY <3>1, <5>1, <5>2
      <4>3. CASE i > k
        <5>1. i - 1 \in 1..Len(list'[q]) /\ ~(i - 1 < k) /\ (i - 1) + 1 = i
          BY <3>1, <4>1, <4>3
        <5>2. list'[q][i - 1] = u
          BY <3>1, <5>1, <2>3
        <5> QED BY <3>1, <5>1, <5>2
      <4> QED BY <4>1, <4>2, <4>3
    <3>2. CASE r # q
      BY <3>2, <2>3
    <3> QED BY <3>1, <3>2
  <2> QED BY <2>1, <2>2, <2>4, <1>3
<1>9. QueuesHoldTheBlocked'
  <2> HIDE DEF old, h
  <2>1. \A u \in Thread : state'[u] # "blocked" => blocking_wait_queue'[u] = NoQueue
    BY <1>3 DEF WaitQueueInv, QueuesHoldTheBlocked
  <2> QED BY <1>6, <1>7, <1>8, <2>1 DEF QueuesHoldTheBlocked
<1> QED BY <1>2, <1>9 DEF WaitQueueInv

\* Waking the head takes just that thread off its queue (wait_queue_wake_one).
LEMMA WakeOneLemma ==
  ASSUME WaitQueueInv, NEW q \in Queue, NEW err \in Status, wait_queue_wake_one(q, err)
  PROVE  WaitQueueInv'
<1>1. CASE list[q] = <<>>
  BY <1>1 DEF wait_queue_wake_one, wqvars, QueuesHoldTheBlocked, WaitQueueInv, WaitQueueTypeOK
<1>2. CASE list[q] # <<>>
  <2>1. /\ list' = [list EXCEPT ![q] = Tail(@)]
        /\ Woken({Head(list[q])}, err) /\ UNCHANGED timer
    BY <1>2 DEF wait_queue_wake_one
  <2>2. 1 \in 1..Len(list[q]) /\ Head(list[q]) = list[q][1]
    BY <1>2 DEF WaitQueueInv, WaitQueueTypeOK
  <2>3. /\ list' \in [Queue -> Seq(Thread)] /\ timer' \in [Thread -> BOOLEAN]
        /\ Len(list'[q]) = Len(list[q]) - 1
        /\ \A i \in 1..Len(list'[q]) : list'[q][i] = list[q][i + 1]
        /\ \A r \in Queue \ {q} : list'[r] = list[r]
    BY <1>2, <2>1 DEF WaitQueueInv, WaitQueueTypeOK
  <2>4. \A i \in 1..Len(list'[q]) : ~(i < 1)
    BY <2>3 DEF WaitQueueInv, WaitQueueTypeOK
  <2> QED BY <2>1, <2>2, <2>3, <2>4, RemoveLemma
<1> QED BY <1>1, <1>2

\* So does taking a blocked thread off wherever it is (thread_unblock_from_wait_queue).
LEMMA UnblockLemma ==
  ASSUME WaitQueueInv, NEW t \in Thread, NEW err \in Status,
         thread_unblock_from_wait_queue(t, err), timer' \in [Thread -> BOOLEAN]
  PROVE  WaitQueueInv'
<1>1. PICK q \in Queue : blocking_wait_queue[t] = q /\ \E i \in 1..Len(list[q]) : list[q][i] = t
  BY DEF thread_unblock_from_wait_queue, WaitQueueInv, QueuesHoldTheBlocked
<1> DEFINE k == CHOOSE j \in 1..Len(list[q]) : list[q][j] = t
<1>2. k \in 1..Len(list[q]) /\ list[q][k] = t
  BY <1>1
<1>3. list' = [list EXCEPT ![q] = [i \in 1..(Len(list[q]) - 1) |-> IF i < k THEN list[q][i] ELSE list[q][i + 1]]]
  BY <1>1 DEF thread_unblock_from_wait_queue, list_delete, WaitQueueInv, WaitQueueTypeOK
<1> HIDE DEF k
<1>4. Len(list[q]) \in Nat /\ \A i \in 1..Len(list[q]) : list[q][i] \in Thread
  BY DEF WaitQueueInv, WaitQueueTypeOK
<1> DEFINE s == [i \in 1..(Len(list[q]) - 1) |-> IF i < k THEN list[q][i] ELSE list[q][i + 1]]
<1>5. s \in Seq(Thread) /\ Len(s) = Len(list[q]) - 1
  <2>1. Len(list[q]) - 1 \in Nat /\ s \in [1..(Len(list[q]) - 1) -> Thread]
    BY <1>2, <1>4
  <2> HIDE DEF s
  <2> QED BY <2>1, SeqLemma
<1>6. list'[q] = s /\ \A r \in Queue \ {q} : list'[r] = list[r]
  BY <1>3 DEF WaitQueueInv, WaitQueueTypeOK
<1>7. list' \in [Queue -> Seq(Thread)]
  BY <1>3, <1>5 DEF WaitQueueInv, WaitQueueTypeOK
<1>8. Woken({list[q][k]}, err)
  BY <1>2 DEF thread_unblock_from_wait_queue
<1>9. \A i \in 1..Len(list'[q]) : list'[q][i] = IF i < k THEN list[q][i] ELSE list[q][i + 1]
  BY <1>5, <1>6
<1> QED BY <1>2, <1>5, <1>6, <1>7, <1>8, <1>9, RemoveLemma

\* The timeout callback either takes a blocked thread off its queue or finds the thread
\* woken already and leaves it alone (wait_queue_timeout_handler).
LEMMA TimeoutLemma ==
  ASSUME WaitQueueInv, NEW t \in Thread, wait_queue_timeout_handler(t)
  PROVE  WaitQueueInv'
<1>1. timer' \in [Thread -> BOOLEAN]
  BY DEF wait_queue_timeout_handler, WaitQueueInv, WaitQueueTypeOK
<1>2. CASE thread_unblock_from_wait_queue(t, "ERR_TIMED_OUT")
  BY <1>1, <1>2, UnblockLemma DEF Status
<1>3. CASE UNCHANGED <<list, state, blocking_wait_queue, wait_queue_block_ret>>
  BY <1>1, <1>3 DEF WaitQueueInv, WaitQueueTypeOK, QueuesHoldTheBlocked
<1> QED BY <1>2, <1>3 DEF wait_queue_timeout_handler

\* Waking the whole queue leaves nobody blocked on it (wait_queue_wake_all).
LEMMA WakeAllLemma ==
  ASSUME WaitQueueInv, NEW q \in Queue, NEW err \in Status, wait_queue_wake_all(q, err)
  PROVE  WaitQueueInv'
<1> DEFINE W == {list[q][i] : i \in 1..Len(list[q])}
<1>1. /\ list'[q] = <<>> /\ \A r \in Queue \ {q} : list'[r] = list[r]
      /\ list' \in [Queue -> Seq(Thread)] /\ UNCHANGED timer
  BY DEF wait_queue_wake_all, WaitQueueInv, WaitQueueTypeOK
<1>2. W \subseteq Thread
  BY DEF WaitQueueInv, WaitQueueTypeOK
<1>3. Woken(W, err)
  BY DEF wait_queue_wake_all
<1>4. WaitQueueTypeOK'
  <2> HIDE DEF W
  <2> QED BY <1>1, <1>3 DEF Woken, WaitQueueInv, WaitQueueTypeOK
<1>5. \A u \in Thread : u \in W <=> state[u] = "blocked" /\ blocking_wait_queue[u] = q
  BY DEF WaitQueueInv, WaitQueueTypeOK, QueuesHoldTheBlocked
<1>6. \A u \in Thread : /\ state'[u] = IF u \in W THEN "ready" ELSE state[u]
                        /\ blocking_wait_queue'[u] = IF u \in W THEN NoQueue ELSE blocking_wait_queue[u]
  BY <1>3 DEF Woken
<1>7. \A r \in Queue : \A i \in 1..Len(list'[r]) : r # q /\ list'[r][i] = list[r][i] /\ list[r][i] \in Thread
  BY <1>1 DEF WaitQueueInv, WaitQueueTypeOK
<1>8. QueuesHoldTheBlocked'
  <2> HIDE DEF W
  <2>1. \A r \in Queue : \A i \in 1..Len(list'[r]) :
           state'[list'[r][i]] = "blocked" /\ blocking_wait_queue'[list'[r][i]] = r
    BY <1>1, <1>5, <1>6, <1>7 DEF WaitQueueInv, QueuesHoldTheBlocked
  <2>2. \A r \in Queue : \A i, j \in 1..Len(list'[r]) : list'[r][i] = list'[r][j] => i = j
    BY <1>1, <1>7 DEF WaitQueueInv, QueuesHoldTheBlocked
  <2>3. ASSUME NEW u \in Thread, state'[u] = "blocked"
        PROVE  \E r \in Queue : blocking_wait_queue'[u] = r /\ \E i \in 1..Len(list'[r]) : list'[r][i] = u
    <3>1. u \notin W /\ state[u] = "blocked" /\ blocking_wait_queue'[u] = blocking_wait_queue[u]
      BY <2>3, <1>6
    <3>2. PICK r \in Queue : blocking_wait_queue[u] = r /\ \E i \in 1..Len(list[r]) : list[r][i] = u
      BY <3>1 DEF WaitQueueInv, QueuesHoldTheBlocked
    <3>3. r # q BY <3>1, <3>2, <1>5
    <3> QED BY <3>1, <3>2, <3>3, <1>1
  <2>4. \A u \in Thread : state'[u] # "blocked" => blocking_wait_queue'[u] = NoQueue
    BY <1>6 DEF WaitQueueInv, QueuesHoldTheBlocked
  <2> QED BY <2>1, <2>2, <2>3, <2>4 DEF QueuesHoldTheBlocked
<1> QED BY <1>4, <1>8 DEF WaitQueueInv
=============================================================================
