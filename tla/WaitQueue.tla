----------------------------- MODULE WaitQueue -----------------------------
(***************************************************************************)
(* The wait queues of kernel/thread.c as the primitives built on them see  *)
(* them: a thread runs, is blocked on one queue, or has been taken off its *)
(* queue and is ready to return from wait_queue_block().                   *)
(*                                                                         *)
(* Every operation runs under thread_lock with interrupts off, so it is    *)
(* one step.  wait_queue_block() is two: the lock is handed over at the    *)
(* context switch, and the code after thread_resched() runs when the       *)
(* scheduler picks the thread again, arbitrarily later.  Which ready       *)
(* thread that is belongs to module Sched; here it is any of them.         *)
(***************************************************************************)
EXTENDS Integers, Sequences, FiniteSets

CONSTANTS Thread,   \* the threads that use the queues
          Queue     \* the wait_queue_t objects

VARIABLES list,                 \* wait_queue_t.list, head first
          state,                \* "running", "blocked", or "ready": off the queue, not yet back
          blocking_wait_queue,  \* the queue a blocked thread is on
          wait_queue_block_ret, \* what wait_queue_block() is going to return
          timer                 \* is the thread's timeout timer pending?

wqvars == <<list, state, blocking_wait_queue, wait_queue_block_ret, timer>>

NoQueue == "NULL"

Status == {"NO_ERROR", "ERR_TIMED_OUT", "ERR_OBJECT_DESTROYED", "ERR_THREAD_DETACHED", "ERR_CANCELLED"}

ASSUME QueueAssumption == NoQueue \notin Queue

\* list_delete(): the list without its node t.
list_delete(s, t) ==
  LET i == CHOOSE j \in 1..Len(s) : s[j] = t
  IN  [k \in 1..(Len(s) - 1) |-> IF k < i THEN s[k] ELSE s[k + 1]]

wait_queue_init ==
  /\ list = [q \in Queue |-> <<>>]
  /\ state = [t \in Thread |-> "running"]
  /\ blocking_wait_queue = [t \in Thread |-> NoQueue]
  /\ wait_queue_block_ret = [t \in Thread |-> "NO_ERROR"]
  /\ timer = [t \in Thread |-> FALSE]

\* Fault: the thread is put at the head of the queue.
BlockAtHead(t, q, finite) ==
  /\ list' = [list EXCEPT ![q] = <<t>> \o @]
  /\ state' = [state EXCEPT ![t] = "blocked"]
  /\ blocking_wait_queue' = [blocking_wait_queue EXCEPT ![t] = q]
  /\ wait_queue_block_ret' = [wait_queue_block_ret EXCEPT ![t] = "NO_ERROR"]
  /\ timer' = [timer EXCEPT ![t] = finite]

\* wait_queue_block() up to its context switch.  With a timeout of zero it returns
\* ERR_TIMED_OUT at once and changes nothing: the callers deal with that case.
wait_queue_block(t, q, finite) ==
  /\ list' = [list EXCEPT ![q] = Append(@, t)]
  /\ state' = [state EXCEPT ![t] = "blocked"]
  /\ blocking_wait_queue' = [blocking_wait_queue EXCEPT ![t] = q]
  /\ wait_queue_block_ret' = [wait_queue_block_ret EXCEPT ![t] = "NO_ERROR"]
  /\ timer' = [timer EXCEPT ![t] = finite]

\* wait_queue_block() after its context switch: cancel the timer and return
\* wait_queue_block_ret, which the callers read in the same step.
wait_queue_return(t) ==
  /\ state[t] = "ready"
  /\ state' = [state EXCEPT ![t] = "running"]
  /\ timer' = [timer EXCEPT ![t] = FALSE]
  /\ UNCHANGED <<list, blocking_wait_queue, wait_queue_block_ret>>

\* What waking the threads of W with the code err does to them.
Woken(W, err) ==
  /\ state' = [t \in Thread |-> IF t \in W THEN "ready" ELSE state[t]]
  /\ blocking_wait_queue' = [t \in Thread |-> IF t \in W THEN NoQueue ELSE blocking_wait_queue[t]]
  /\ wait_queue_block_ret' = [t \in Thread |-> IF t \in W THEN err ELSE wait_queue_block_ret[t]]

\* The head of the queue is made ready, if there is one.
wait_queue_wake_one(q, err) ==
  IF list[q] = <<>>
  THEN UNCHANGED wqvars
  ELSE /\ list' = [list EXCEPT ![q] = Tail(@)]
       /\ Woken({Head(list[q])}, err)
       /\ UNCHANGED timer

\* The whole queue is made ready.
wait_queue_wake_all(q, err) ==
  /\ list' = [list EXCEPT ![q] = <<>>]
  /\ Woken({list[q][i] : i \in 1..Len(list[q])}, err)
  /\ UNCHANGED timer

\* wait_queue_destroy() wakes everybody with ERR_OBJECT_DESTROYED; the magic number
\* it then clears is the caller's to model.
wait_queue_destroy(q) == wait_queue_wake_all(q, "ERR_OBJECT_DESTROYED")

\* Fault: the thread is woken but its node stays in the list.
UnblockLeavesNode(t, err) ==
  /\ state[t] = "blocked"
  /\ Woken({t}, err)
  /\ UNCHANGED list

\* thread_unblock_from_wait_queue(): take one blocked thread off whatever queue it is on.
thread_unblock_from_wait_queue(t, err) ==
  /\ state[t] = "blocked"
  /\ list' = [list EXCEPT ![blocking_wait_queue[t]] = list_delete(@, t)]
  /\ Woken({t}, err)

\* The one-shot timer's callback.  When the thread has been woken meanwhile the
\* callback finds it not blocked, and only the timer is used up.
wait_queue_timeout_handler(t) ==
  /\ timer[t]
  /\ timer' = [timer EXCEPT ![t] = FALSE]
  /\ \/ thread_unblock_from_wait_queue(t, "ERR_TIMED_OUT")
     \/ /\ state[t] # "blocked"
        /\ UNCHANGED <<list, state, blocking_wait_queue, wait_queue_block_ret>>

WaitQueueTypeOK ==
  /\ list \in [Queue -> Seq(Thread)]
  /\ state \in [Thread -> {"running", "blocked", "ready"}]
  /\ blocking_wait_queue \in [Thread -> Queue \cup {NoQueue}]
  /\ wait_queue_block_ret \in [Thread -> Status]
  /\ timer \in [Thread -> BOOLEAN]

\* A thread is on a queue exactly when it is blocked, on the queue it says it is
\* blocked on, and there once: what the assertions of the wake-up paths rely on.
QueuesHoldTheBlocked ==
  /\ \A q \in Queue : \A i \in 1..Len(list[q]) :
        /\ state[list[q][i]] = "blocked"
        /\ blocking_wait_queue[list[q][i]] = q
  /\ \A q \in Queue : \A i, j \in 1..Len(list[q]) : list[q][i] = list[q][j] => i = j
  /\ \A t \in Thread : state[t] = "blocked" <=>
        \E q \in Queue : blocking_wait_queue[t] = q /\ \E i \in 1..Len(list[q]) : list[q][i] = t
  /\ \A t \in Thread : state[t] # "blocked" => blocking_wait_queue[t] = NoQueue
=============================================================================
