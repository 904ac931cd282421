------------------------------- MODULE Event -------------------------------
(***************************************************************************)
(* One event_t of kernel/event.c, at the grain of its accesses to          *)
(* e->signaled.  All calls but event_unsignal() hold thread_lock; that one *)
(* stores to e->signaled without it, so its store can fall between the     *)
(* read and the write of another call.  Threads and interrupt handlers     *)
(* signal; only threads wait.                                              *)
(***************************************************************************)
EXTENDS WaitQueue

CONSTANTS Irq,       \* interrupt handlers
          Timeouts   \* the kinds of timeout given to event_wait_timeout()

\* What the constants must be.
EventAssumption ==
  /\ Queue = {"e->wait"}
  /\ Irq \cap Thread = {}
  /\ "free" \notin Thread \cup Irq
  /\ Timeouts \subseteq {"zero", "finite", "infinite"}

Actor == Thread \cup Irq

VARIABLES signaled,      \* e->signaled
          autounsignal,  \* e->flags & EVENT_FLAG_AUTOUNSIGNAL
          magic,         \* until event_destroy()
          thread_lock,   \* the actor in the middle of a call, or "free"
          pc             \* what that actor does next: "consume", "set" or "wake_all"

vars == <<wqvars, signaled, autounsignal, magic, thread_lock, pc>>

wait == "e->wait"

event_init ==
  /\ wait_queue_init
  /\ signaled \in BOOLEAN
  /\ autounsignal \in BOOLEAN
  /\ magic = TRUE
  /\ thread_lock = "free"
  /\ pc = "idle"

\* Can actor a make a call?
Ready(a) == magic /\ thread_lock # a /\ (a \in Thread => state[a] = "running")

\* Fault: a thread that is to wait does so on a signaled event too.
WaitIgnoresSignal(t, timeout) ==
  /\ Ready(t) /\ thread_lock = "free"
  /\ timeout # "zero"
  /\ wait_queue_block(t, wait, timeout = "finite")
  /\ UNCHANGED <<signaled, autounsignal, magic, thread_lock, pc>>

\* event_wait_timeout() reads e->signaled and returns, blocks, or goes on to consume
\* the signal.
event_wait_timeout(t, timeout) ==
  /\ Ready(t) /\ thread_lock = "free"
  /\ \/ /\ signaled /\ autounsignal
        /\ thread_lock' = t
        /\ pc' = "consume"
        /\ UNCHANGED wqvars
     \/ /\ ~signaled /\ timeout # "zero"
        /\ wait_queue_block(t, wait, timeout = "finite")
        /\ UNCHANGED <<thread_lock, pc>>
     \/ /\ (signaled /\ ~autounsignal) \/ (~signaled /\ timeout = "zero")
        /\ UNCHANGED <<wqvars, thread_lock, pc>>
  /\ UNCHANGED <<signaled, autounsignal, magic>>

\* The store that unsignals an auto-unsignal event for the thread it let through.
event_wait_consume ==
  /\ pc = "consume"
  /\ signaled' = FALSE
  /\ thread_lock' = "free"
  /\ pc' = "idle"
  /\ UNCHANGED <<wqvars, autounsignal, magic>>

\* event_wait_timeout() after its wait only passes on the wait queue's answer.
event_wait_return(t) ==
  /\ thread_lock = "free"
  /\ wait_queue_return(t)
  /\ UNCHANGED <<signaled, autounsignal, magic, thread_lock, pc>>

\* Fault: an auto-unsignal event is set without a look at its queue.
SignalSkipsQueue(a) ==
  /\ Ready(a) /\ thread_lock = "free"
  /\ thread_lock' = a
  /\ pc' = "set"
  /\ UNCHANGED <<wqvars, signaled, autounsignal, magic>>

\* event_signal() reads e->signaled.  An auto-unsignal event wakes one thread; only if
\* there was none does it go on to set the signal.  Any other event sets the signal and
\* goes on to wake everybody.
event_signal(a) ==
  /\ Ready(a) /\ thread_lock = "free"
  /\ \/ /\ signaled
        /\ UNCHANGED <<wqvars, signaled, thread_lock, pc>>
     \/ /\ ~signaled /\ autounsignal
        /\ wait_queue_wake_one(wait, "NO_ERROR")
        /\ UNCHANGED signaled
        /\ IF list[wait] = <<>> THEN thread_lock' = a /\ pc' = "set" ELSE UNCHANGED <<thread_lock, pc>>
     \/ /\ ~signaled /\ ~autounsignal
        /\ signaled' = TRUE
        /\ thread_lock' = a
        /\ pc' = "wake_all"
        /\ UNCHANGED wqvars
  /\ UNCHANGED <<autounsignal, magic>>

\* Fault: thread_lock is not released.
SetKeepsLock ==
  /\ pc = "set"
  /\ signaled' = TRUE
  /\ pc' = "idle"
  /\ UNCHANGED <<wqvars, autounsignal, magic, thread_lock>>

event_signal_set ==
  /\ pc = "set"
  /\ signaled' = TRUE
  /\ thread_lock' = "free"
  /\ pc' = "idle"
  /\ UNCHANGED <<wqvars, autounsignal, magic>>

\* Fault: only the head of the queue is woken.
WakeAllWakesOne ==
  /\ pc = "wake_all"
  /\ wait_queue_wake_one(wait, "NO_ERROR")
  /\ thread_lock' = "free"
  /\ pc' = "idle"
  /\ UNCHANGED <<signaled, autounsignal, magic>>

event_signal_wake_all ==
  /\ pc = "wake_all"
  /\ wait_queue_wake_all(wait, "NO_ERROR")
  /\ thread_lock' = "free"
  /\ pc' = "idle"
  /\ UNCHANGED <<signaled, autounsignal, magic>>

\* The one call that does not take thread_lock.
event_unsignal(a) ==
  /\ Ready(a)
  /\ signaled' = FALSE
  /\ UNCHANGED <<wqvars, autounsignal, magic, thread_lock, pc>>

event_destroy(t) ==
  /\ Ready(t) /\ thread_lock = "free"
  /\ magic' = FALSE
  /\ signaled' = FALSE
  /\ autounsignal' = FALSE
  /\ wait_queue_destroy(wait)
  /\ UNCHANGED <<thread_lock, pc>>

WaitTimeout(t) ==
  /\ thread_lock = "free"
  /\ wait_queue_timeout_handler(t)
  /\ UNCHANGED <<signaled, autounsignal, magic, thread_lock, pc>>

Next ==
  \/ event_wait_consume \/ event_signal_set \/ event_signal_wake_all
  \/ \E a \in Actor : event_signal(a) \/ event_unsignal(a)
  \/ \E t \in Thread :
       \/ \E timeout \in Timeouts : event_wait_timeout(t, timeout)
       \/ event_wait_return(t) \/ WaitTimeout(t) \/ event_destroy(t)

Spec == event_init /\ [][Next]_vars

\* A call that holds thread_lock goes on, and the scheduler runs every ready thread
\* again.  Nobody is obliged to signal.
Fairness ==
  /\ WF_vars(event_wait_consume \/ event_signal_set \/ event_signal_wake_all)
  /\ \A t \in Thread : SF_vars(event_wait_return(t))

LiveSpec == Spec /\ Fairness
-----------------------------------------------------------------------------
TypeOK ==
  /\ WaitQueueTypeOK
  /\ signaled \in BOOLEAN /\ autounsignal \in BOOLEAN /\ magic \in BOOLEAN
  /\ thread_lock \in Actor \cup {"free"}
  /\ pc \in {"idle", "consume", "set", "wake_all"} /\ (thread_lock = "free" <=> pc = "idle")

\* The calls behave as single steps although event_unsignal() takes no lock: a signal
\* being consumed is gone from the read on, and the threads of a signal that is to wake
\* everybody wait no longer.
Abstract == INSTANCE AtomicEvent WITH
  signaled <- signaled /\ pc # "consume",
  auto <- autounsignal,
  waiting <- IF pc = "wake_all" THEN {} ELSE {t \in Thread : state[t] = "blocked"}
ImplementsAtomicEvent == Abstract!Spec

\* Nobody sleeps on a signaled event, except while event_signal() is waking them.
NoSleeperOnSignaledEvent == signaled /\ pc # "wake_all" => list[wait] = <<>>

\* A signal of an event without EVENT_FLAG_AUTOUNSIGNAL lets every thread waiting at
\* that moment go, even when the event is unsignaled right after.
SignalReleasesAll ==
  \A t \in Thread : pc = "wake_all" /\ state[t] = "blocked" ~> state[t] = "running"
=============================================================================
