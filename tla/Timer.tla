------------------------------- MODULE Timer -------------------------------
(***************************************************************************)
(* kernel/timer.c with PLATFORM_HAS_DYNAMIC_TIMER: one queue of timers per *)
(* processor, sorted by the time they are due, and a one-shot hardware     *)
(* timer per processor that is to fire for the head of the queue.  Time is *)
(* a counter that wraps around (lk_time_t, 32 bits; here Wrap).            *)
(*                                                                         *)
(* Each timer has one owner, a thread that sets and cancels it; the        *)
(* callback may do that too.  timer_set() takes its time stamp before it   *)
(* disables interrupts, and timer_tick() releases timer_lock around the    *)
(* callback: both are several steps, and the other processors go on        *)
(* between them.                                                           *)
(***************************************************************************)
EXTENDS Integers, Sequences, FiniteSets

CONSTANTS CPU, TimerT,   \* the processors, and the timer_t objects
          Wrap,          \* bound: 2^32 in the code
          Delays,        \* the delays passed to timer_set_oneshot()
          Periods,       \* the periods passed to timer_set_periodic()
          MaxLate,       \* bound: the ticks a callback runs for, or an insertion is held up
          Racy,          \* may a thread cancel a timer while timer_tick() handles it?
          NULL

\* What the constants must be.
TimerAssumption ==
  /\ Wrap \in Nat /\ Wrap > 1 /\ Wrap % 2 = 0
  /\ Delays \subseteq 0..(Wrap - 1) /\ Periods \subseteq 0..(Wrap - 1)
  /\ MaxLate \in Nat /\ Racy \in BOOLEAN /\ NULL \notin TimerT

VARIABLES now,             \* current_time()
          timer_queue,     \* timers[cpu].timer_queue
          scheduled_time, periodic_time, callback,  \* fields of a timer (callback: is it set?)
          hw,              \* ticks until the hardware timer of a processor fires, or Off
          owner,           \* the delay of a timer_set() that has its time stamp, or Off
          pc,              \* where timer_tick() is on each processor
          early            \* ticks that have to pass before the callback may be called

fields == <<scheduled_time, periodic_time, callback, early>>
vars == <<now, timer_queue, scheduled_time, periodic_time, callback, hw, owner, pc, early>>

Off == -1
Idle == [at |-> "idle", timer |-> NULL, now |-> 0, periodic |-> FALSE]

\* Fault: the counter does not wrap.
PlusUnwrapped(a, b) == a + b

\* a + b in lk_time_t
Plus(a, b) == (a + b) % Wrap

\* (int32_t)(a - b)
Diff(a, b) == LET d == (a - b) % Wrap IN IF d < Wrap \div 2 THEN d ELSE d - Wrap

\* Fault: times compared as they are.
LessUnwrapped(a, b) == a < b

TIME_GT(a, b) == Diff(a, b) > 0
TIME_LT(a, b) == Diff(a, b) < 0

list_in_list(q, t) == \E k \in 1..Len(q) : q[k] = t

\* The queue with t before the i-th timer, or at the tail when there is none.
list_add_before(q, i, t) ==
  [k \in 1..(Len(q) + 1) |-> IF k < i THEN q[k] ELSE IF k = i THEN t ELSE q[k - 1]]

list_delete(q, t) ==
  LET i == CHOOSE j \in 1..Len(q) : q[j] = t
  IN  [k \in 1..(Len(q) - 1) |-> IF k < i THEN q[k] ELSE q[k + 1]]

Queued(t) == \E c \in CPU : list_in_list(timer_queue[c], t)
Handled(t) == \E c \in CPU : pc[c].timer = t

timer_init ==
  /\ now = 0
  /\ timer_queue = [c \in CPU |-> <<>>]
  /\ scheduled_time = [t \in TimerT |-> 0]
  /\ periodic_time = [t \in TimerT |-> 0]
  /\ callback = [t \in TimerT |-> FALSE]
  /\ hw = [c \in CPU |-> Off]
  /\ owner = [t \in TimerT |-> Off]
  /\ pc = [c \in CPU |-> Idle]
  /\ early = [t \in TimerT |-> 0]

\* Fault: the timer is put at the tail whatever it is due.
InsertLast(q, t, sched) == Append(q, t)

\* The queue q with t before the first timer that is due later.
insert_timer_in_queue(q, t, sched) ==
  LET i == CHOOSE j \in 1..(Len(q) + 1) :
             /\ \A k \in 1..(j - 1) : ~TIME_GT(sched[q[k]], sched[t])
             /\ j <= Len(q) => TIME_GT(sched[q[j]], sched[t])
  IN  list_add_before(q, i, t)

\* A thread runs on processor c, with interrupts on.
ThreadRuns(c) == pc[c].at = "idle"

CallbackRuns(c, t) == pc[c].at = "called" /\ pc[c].timer = t

----------------------------------------------------------------------------
(* timer_set() *)

\* The fields of the timer, with a time stamp taken before interrupts are off.
set_fields(t, delay, period) ==
  /\ scheduled_time' = [scheduled_time EXCEPT ![t] = Plus(now, delay)]
  /\ periodic_time' = [periodic_time EXCEPT ![t] = period]
  /\ callback' = [callback EXCEPT ![t] = TRUE]
  /\ early' = [early EXCEPT ![t] = delay]

\* Fault: the hardware timer is set only when the queue was empty.
ArmsIfEmpty(c, t, delay, sched) ==
  /\ timer_queue' = [timer_queue EXCEPT ![c] = insert_timer_in_queue(@, t, sched)]
  /\ hw' = IF timer_queue[c] = <<>> THEN [hw EXCEPT ![c] = delay] ELSE hw

\* The critical section of timer_set() on processor c.
set_insert(c, t, delay, sched) ==
  LET q == insert_timer_in_queue(timer_queue[c], t, sched)
  IN  /\ timer_queue' = [timer_queue EXCEPT ![c] = q]
      /\ hw' = IF Head(q) = t THEN [hw EXCEPT ![c] = delay] ELSE hw

\* timer_set() by the owner, as far as the time stamp.  It panics when the timer is in
\* a queue: the owner sets one that was never set, was cancelled, or has fired.
timer_set(c, t, delay, period) ==
  /\ ThreadRuns(c) /\ owner[t] = Off /\ ~Queued(t)
  /\ ~Handled(t) \/ (Racy /\ ~callback[t])
  /\ set_fields(t, delay, period)
  /\ owner' = [owner EXCEPT ![t] = delay]
  /\ UNCHANGED <<now, timer_queue, hw, pc>>

\* The rest of it, on the processor the owner runs on by then.
timer_set_insert(c, t) ==
  /\ owner[t] # Off /\ ThreadRuns(c)
  /\ set_insert(c, t, owner[t], scheduled_time)
  /\ owner' = [owner EXCEPT ![t] = Off]
  /\ UNCHANGED <<now, pc>> /\ UNCHANGED fields

\* timer_set() by the callback of the timer, which has not been cancelled: interrupts
\* are off throughout.
callback_set(c, t, delay, period) ==
  /\ CallbackRuns(c, t)
  /\ owner[t] = Off /\ ~Queued(t) /\ callback[t]
  /\ set_fields(t, delay, period)
  /\ set_insert(c, t, delay, scheduled_time')
  /\ UNCHANGED <<now, owner, pc>>

\* What the two entry points pass to timer_set().
timer_set_oneshot(delay) == <<IF delay = 0 THEN 1 ELSE delay, 0>>
timer_set_periodic(period) == LET p == IF period = 0 THEN 1 ELSE period IN <<p, p>>

Settings == {timer_set_oneshot(d) : d \in Delays} \cup {timer_set_periodic(p) : p \in Periods}

\* The delays are short against half the range of the clock, beyond which TIME_GT() and TIME_LT()
\* take a time for one in the past.
DelaysAreShort ==
  /\ 2 * MaxLate < Wrap \div 2
  /\ \A s \in Settings : s[1] + MaxLate < Wrap \div 2 /\ s[1] + 2 * MaxLate <= Wrap \div 2

----------------------------------------------------------------------------
(* timer_cancel() *)

\* The queues once t is taken off the one it is in, if any.
unlink(t) ==
  [d \in CPU |-> IF list_in_list(timer_queue[d], t) THEN list_delete(timer_queue[d], t)
                 ELSE timer_queue[d]]

\* Fault: the period is kept.
CancelKeepsPeriod(t) ==
  /\ callback' = [callback EXCEPT ![t] = FALSE]
  /\ UNCHANGED <<scheduled_time, periodic_time, early>>

\* "to keep it from being reinserted into the queue"
cancel_fields(t) ==
  /\ periodic_time' = [periodic_time EXCEPT ![t] = 0]
  /\ callback' = [callback EXCEPT ![t] = FALSE]
  /\ UNCHANGED <<scheduled_time, early>>

\* The queue the timer is in may be another processor's; the hardware timer that is
\* adjusted is the calling processor's.
timer_cancel(c, t) ==
  /\ owner[t] = Off /\ callback[t]
  /\ \/ CallbackRuns(c, t)
     \/ ThreadRuns(c) /\ (Racy \/ ~Handled(t))
  /\ LET q == unlink(t)
         head == Head(q[c])
     IN  /\ timer_queue' = q
         /\ hw' = [hw EXCEPT ![c] =
              IF q[c] = <<>> THEN Off
              ELSE IF head = Head(timer_queue[c]) THEN @
              ELSE IF TIME_LT(scheduled_time[head], now) THEN 0
              ELSE (scheduled_time[head] - now) % Wrap]
  /\ cancel_fields(t)
  /\ UNCHANGED <<now, owner, pc>>

----------------------------------------------------------------------------
(* timer_tick() *)

Due(n, s) == ~TIME_LT(n, s)

\* Under timer_lock, with the time n the tick was called for: take the head of the
\* queue q if it is due; otherwise set the hardware timer for it and return.
tick_loop(c, n, q, sched, armed) ==
  \/ /\ q # <<>> /\ Due(n, sched[Head(q)])
     /\ timer_queue' = [timer_queue EXCEPT ![c] = Tail(q)]
     /\ pc' = [pc EXCEPT ![c] = [at |-> "dequeued", timer |-> Head(q), now |-> n, periodic |-> FALSE]]
     /\ hw' = armed
  \/ /\ q # <<>> => ~Due(n, sched[Head(q)])
     /\ timer_queue' = [timer_queue EXCEPT ![c] = q]
     /\ IF q # <<>> /\ ~TIME_GT(sched[Head(q)], n)
        THEN pc' = [pc EXCEPT ![c] = [Idle EXCEPT !.at = "panic"]]   \* DEBUG_ASSERT
        ELSE pc' = [pc EXCEPT ![c] = Idle]
     /\ hw' = IF q = <<>> THEN armed ELSE [armed EXCEPT ![c] = (sched[Head(q)] - n) % Wrap]

\* The hardware timer fires.
timer_tick(c) ==
  /\ ThreadRuns(c) /\ hw[c] = 0
  /\ tick_loop(c, now, timer_queue[c], scheduled_time, [hw EXCEPT ![c] = Off])
  /\ UNCHANGED <<now, owner>> /\ UNCHANGED fields

\* The lock is released; the period and the callback are read and it is called.
tick_call(c) ==
  /\ pc[c].at = "dequeued"
  /\ pc' = [pc EXCEPT ![c].at = "called", ![c].periodic = periodic_time[pc[c].timer] > 0]
  /\ UNCHANGED <<now, timer_queue, hw, owner>> /\ UNCHANGED fields

\* Fault: what the callback did to its timer is not looked at.
RequeueAlways(c, t) == pc[c].periodic /\ periodic_time[t] > 0

tick_requeues(c, t) == pc[c].periodic /\ ~Queued(t) /\ periodic_time[t] > 0

\* The callback has returned: a periodic timer goes back into the queue, unless it is
\* in one or was cancelled, and the loop goes on.
tick_return(c) ==
  /\ pc[c].at = "called"
  /\ LET t == pc[c].timer
         n == pc[c].now
         next == Plus(scheduled_time[t], periodic_time[t])
         sched == [scheduled_time EXCEPT ![t] =
                     IF TIME_LT(next, n) THEN Plus(n, periodic_time[t]) ELSE next]
     IN  IF tick_requeues(c, t)
         THEN /\ scheduled_time' = sched
              /\ tick_loop(c, n, insert_timer_in_queue(timer_queue[c], t, sched), sched, hw)
         ELSE /\ UNCHANGED scheduled_time
              /\ tick_loop(c, n, timer_queue[c], scheduled_time, hw)
  /\ UNCHANGED <<now, periodic_time, callback, owner, early>>

\* Time passes, on every processor: not while an interrupt is due on one that can take
\* it, nor beyond MaxLate while a callback runs or an owner is held up in timer_set().
Clock ==
  /\ \A c \in CPU : ThreadRuns(c) => hw[c] # 0
  /\ \A c \in CPU : ~ThreadRuns(c) => (now - pc[c].now) % Wrap < MaxLate
  /\ \A t \in TimerT : owner[t] # Off => (now - (scheduled_time[t] - owner[t])) % Wrap < MaxLate
  /\ now' = Plus(now, 1)
  /\ hw' = [c \in CPU |-> IF hw[c] > 0 THEN hw[c] - 1 ELSE hw[c]]
  /\ early' = [t \in TimerT |-> IF early[t] > 0 THEN early[t] - 1 ELSE 0]
  /\ UNCHANGED <<timer_queue, scheduled_time, periodic_time, callback, owner, pc>>

Next ==
  \/ \E c \in CPU, t \in TimerT, s \in Settings : timer_set(c, t, s[1], s[2])
  \/ \E c \in CPU, t \in TimerT : timer_set_insert(c, t)
  \/ \E c \in CPU, t \in TimerT, s \in Settings : callback_set(c, t, s[1], s[2])
  \/ \E c \in CPU, t \in TimerT : timer_cancel(c, t)
  \/ \E c \in CPU : timer_tick(c) \/ tick_call(c) \/ tick_return(c)
  \/ Clock

Spec == timer_init /\ [][Next]_vars

----------------------------------------------------------------------------

\* The variables of timer.c hold what their C types and the bounds allow.
TypeOK ==
  /\ now \in 0..(Wrap - 1)
  /\ \A c \in CPU : timer_queue[c] \in Seq(TimerT)
  /\ scheduled_time \in [TimerT -> 0..(Wrap - 1)]
  /\ periodic_time \in [TimerT -> Periods \cup {0, 1}]
  /\ callback \in [TimerT -> BOOLEAN]
  /\ hw \in [CPU -> Off..(Wrap - 1)]
  /\ owner \in [TimerT -> Off..(Wrap - 1)]
  /\ early \in [TimerT -> 0..(Wrap - 1)]

\* Every queue is in the order its timers are due, by the wrapping comparison that
\* insert_timer_in_queue() and timer_tick() use, wherever the counter wraps.
QueuesAreSorted ==
  \A c \in CPU : \A i, j \in 1..Len(timer_queue[c]) :
    i < j => ~TIME_GT(scheduled_time[timer_queue[c][i]], scheduled_time[timer_queue[c][j]])

\* A timer is a node of at most one queue, once: neither the owner nor timer_tick()
\* links a node that is linked already.
QueuedOnce ==
  \A c, d \in CPU : \A i \in DOMAIN timer_queue[c], j \in DOMAIN timer_queue[d] :
    timer_queue[c][i] = timer_queue[d][j] => c = d /\ i = j

\* No timer waits for longer than twice MaxLate after it was due: whatever the owners
\* and callbacks do to the queue and its head, the hardware timer is set for it.
NoTimerIsLate ==
  \A t \in TimerT : Queued(t) => Diff(now, scheduled_time[t]) <= 2 * MaxLate

\* A timer that timer_tick() has taken off its queue to call was set with a delay that
\* has gone by (periodic timers: at least the first period has).
NeverEarly ==
  \A c \in CPU : pc[c].at = "dequeued" => early[pc[c].timer] = 0

\* The callback that timer_tick() is about to call, with the lock released, is the one
\* that was set: timer_cancel() has not cleared it.
FiresWhatWasSet ==
  \A c \in CPU : pc[c].at = "dequeued" => callback[pc[c].timer]

\* A timer that was cancelled is in no queue, and no periodic timer_tick() brings it
\* back, until it is set again.
CancelledStaysOut ==
  \A t \in TimerT : Queued(t) => callback[t]

\* The hardware timer of a processor is set for its first timer, so that no timer fires later
\* than the lateness of the interrupt; the queues are sorted and hold a timer once.
TimersFireInTime == NoTimerIsLate /\ QueuesAreSorted /\ QueuedOnce

\* No timer fires before its time, although times wrap around, and one that has been cancelled
\* stays out of the queues, periodic or not.
FiresOnlyWhenDue == NeverEarly /\ CancelledStaysOut

\* The assertion at the end of timer_tick() holds: what it leaves at the head of the
\* queue is due later than now.
TickNeverPanics == \A c \in CPU : pc[c].at # "panic"
=============================================================================
